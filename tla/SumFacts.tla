------------------------------- MODULE SumFacts -------------------------------
(***************************************************************************)
(* Facts about the sums that the modules take over the rows of a table     *)
(* (SumFunctionOnSet of the community modules), for every finite set of    *)
(* rows: what one row adds, that the order does not matter, and what an    *)
(* update of one row changes.  Induction goes over subsets of a finite     *)
(* set: a fact that fails has a smallest set it fails of.                  *)
(***************************************************************************)
EXTENDS FiniteSetsExt, FiniteSetTheorems, TLAPS

\* A fact that fails of a subset of a finite set fails of one whose strict
\* subsets all satisfy it.
LEMMA SmallestSet ==
  ASSUME NEW U, IsFiniteSet(U), NEW Bad \in SUBSET (SUBSET U), Bad # {}
  PROVE  \E S \in Bad : \A T \in SUBSET S : T # S => T \notin Bad
<1>1. IsWellFoundedOn(StrictSubsetOrdering(U), SUBSET U)
  BY FS_StrictSubsetOrderingWellFounded, FS_FiniteSubsetsOfFinite
<1>2. PICK S \in Bad : \A T \in Bad : ~(<<T, S>> \in StrictSubsetOrdering(U))
  BY <1>1, WFMin
<1>3. ASSUME NEW T \in SUBSET S, T # S PROVE T \notin Bad
  BY <1>2, <1>3 DEF StrictSubsetOrdering
<1> QED
  BY <1>3

LEMMA LeastNumber ==
  ASSUME NEW T \in SUBSET Nat, T # {}
  PROVE  \E n \in T : \A m \in T : n <= m
<1>1. PICK n \in T : \A m \in T : ~(<<m, n>> \in OpToRel(<, Nat))
  BY NatLessThanWellFounded, WFMin
<1>2. ASSUME NEW m \in T PROVE ~(m < n)
  <2>1. m < n => <<m, n>> \in OpToRel(<, Nat)
    BY Zenon DEF OpToRel
  <2> QED
    BY <1>1, <2>1, Zenon
<1> QED
  BY <1>2

-----------------------------------------------------------------------------
(* The fold is a function of subsets that one element at a time unfolds *)

Chosen(s) == CHOOSE x \in s : TRUE
Unfold(g, h, s) == IF s = {} THEN 0 ELSE g[Chosen(s)] + h[s \ {Chosen(s)}]
Folding(g, S) == CHOOSE h : h = [s \in SUBSET S |-> Unfold(g, h, s)]

LEMMA SumIsFolding ==
  ASSUME NEW g, NEW S
  PROVE  SumFunctionOnSet(g, S) = Folding(g, S)[S]
BY DEF SumFunctionOnSet, FoldFunctionOnSet, MapThenFoldSet, Folding, Unfold, Chosen

LEMMA ChosenIsMember ==
  ASSUME NEW s, s # {}
  PROVE  Chosen(s) \in s
BY DEF Chosen

\* There is such a function: one that unfolds up to a size can be corrected to
\* unfold at the next.
LEMMA FoldingExists ==
  ASSUME NEW S, IsFiniteSet(S), NEW g, \A x \in S : g[x] \in Int
  PROVE  \E h \in [SUBSET S -> Int] : \A s \in SUBSET S : h[s] = Unfold(g, h, s)
<1> DEFINE UpTo(k, h) == \A s \in SUBSET S : Cardinality(s) <= k => h[s] = Unfold(g, h, s)
           Bad == {k \in Nat : ~ \E h \in [SUBSET S -> Int] : UpTo(k, h)}
<1>1. \A s \in SUBSET S : IsFiniteSet(s) /\ Cardinality(s) \in Nat /\ Cardinality(s) <= Cardinality(S)
  BY FS_Subset, FS_CardinalityType
<1>2. \A s \in SUBSET S : s # {} =>
        /\ Chosen(s) \in s /\ s \ {Chosen(s)} \in SUBSET S
        /\ Cardinality(s \ {Chosen(s)}) = Cardinality(s) - 1
  BY <1>1, ChosenIsMember, FS_RemoveElement
<1>3. Bad = {}
  <2> SUFFICES ASSUME Bad # {} PROVE FALSE
    OBVIOUS
  <2>1. PICK k \in Bad : \A m \in Bad : k <= m
    BY LeastNumber, Bad \in SUBSET Nat
  <2>0. k \in Nat
    BY <2>1
  <2>2. \E h \in [SUBSET S -> Int] : \A s \in SUBSET S : Cardinality(s) < k => h[s] = Unfold(g, h, s)
    <3>1. CASE k = 0
      <4>1. [s \in SUBSET S |-> 0] \in [SUBSET S -> Int]
        OBVIOUS
      <4> QED
        <5>1. \A s \in SUBSET S : ~(Cardinality(s) < k)
          BY <3>1, <1>1
        <5> QED
          BY <4>1, <5>1
    <3>2. CASE k # 0
      <4>1. k - 1 \in Nat /\ k - 1 \notin Bad
        <5> HIDE DEF Bad
        <5>1. k - 1 \in Nat /\ ~(k <= k - 1)
          BY <2>0, <3>2
        <5> QED
          BY <2>1, <5>1
      <4>2. PICK h \in [SUBSET S -> Int] : UpTo(k - 1, h)
        BY <4>1
      <4>3. \A s \in SUBSET S : Cardinality(s) < k => h[s] = Unfold(g, h, s)
        BY <4>1, <4>2, <1>1, <2>0
      <4> QED
        BY <4>3
    <3> QED
      BY <3>1, <3>2
  <2>3. PICK h \in [SUBSET S -> Int] : \A s \in SUBSET S : Cardinality(s) < k => h[s] = Unfold(g, h, s)
    BY <2>2
  <2> DEFINE better == [s \in SUBSET S |-> IF Cardinality(s) <= k THEN Unfold(g, h, s) ELSE h[s]]
  <2>4. \A s \in SUBSET S : Unfold(g, h, s) \in Int
    <3> TAKE s \in SUBSET S
    <3>1. CASE s = {}
      BY <3>1 DEF Unfold
    <3>2. CASE s # {}
      <4>1. Chosen(s) \in S /\ s \ {Chosen(s)} \in SUBSET S
        BY <1>2, <3>2
      <4>2. g[Chosen(s)] \in Int /\ h[s \ {Chosen(s)}] \in Int
        BY <4>1
      <4> QED
        BY <3>2, <4>2 DEF Unfold
    <3> QED
      BY <3>1, <3>2
  <2>5. better \in [SUBSET S -> Int]
    BY <2>4
  <2>6. ASSUME NEW s \in SUBSET S, Cardinality(s) <= k PROVE better[s] = Unfold(g, better, s)
    <3>1. CASE s = {}
      BY <2>6, <3>1 DEF Unfold
    <3>2. CASE s # {}
      <4> DEFINE t == s \ {Chosen(s)}
      <4>1. t \in SUBSET S /\ Cardinality(t) = Cardinality(s) - 1
        BY <1>2, <3>2
      <4>2. Cardinality(t) < k /\ Cardinality(t) <= k
        BY <4>1, <2>6, <2>0, <1>1
      <4>3. better[t] = Unfold(g, h, t) /\ h[t] = Unfold(g, h, t)
        BY <4>1, <4>2, <2>3
      <4>4. better[s] = g[Chosen(s)] + h[t]
        BY <2>6, <3>2 DEF Unfold
      <4> QED
        BY <3>2, <4>3, <4>4 DEF Unfold
    <3> QED
      BY <3>1, <3>2
  <2>7. UpTo(k, better)
    BY <2>6
  <2> QED
    BY <2>1, <2>5, <2>7
<1>4. PICK h \in [SUBSET S -> Int] : UpTo(Cardinality(S), h)
  BY <1>3, FS_CardinalityType
<1> QED
  BY <1>1, <1>4

LEMMA FoldingUnfolds ==
  ASSUME NEW S, IsFiniteSet(S), NEW g, \A x \in S : g[x] \in Int
  PROVE  /\ Folding(g, S) \in [SUBSET S -> Int]
         /\ \A s \in SUBSET S : Folding(g, S)[s] = Unfold(g, Folding(g, S), s)
<1>1. PICK h \in [SUBSET S -> Int] : \A s \in SUBSET S : h[s] = Unfold(g, h, s)
  BY FoldingExists
<1>2. h = [s \in SUBSET S |-> Unfold(g, h, s)]
  BY <1>1
<1> DEFINE F == Folding(g, S)
<1>3. F = [s \in SUBSET S |-> Unfold(g, F, s)]
  BY <1>2 DEF Folding
<1> HIDE DEF F
<1>4. ASSUME NEW s \in SUBSET S PROVE F[s] = Unfold(g, F, s)
  BY <1>3
<1>5. \A s \in SUBSET S : F[s] \in Int
  <2> DEFINE Bad == {s \in SUBSET S : F[s] \notin Int}
  <2> SUFFICES ASSUME Bad # {} PROVE FALSE
    OBVIOUS
  <2>1. PICK s \in Bad : \A t \in SUBSET s : t # s => t \notin Bad
    <3>1. Bad \in SUBSET (SUBSET S)
      OBVIOUS
    <3> HIDE DEF Bad
    <3> QED
      BY <3>1, SmallestSet
  <2>2. s # {} => Chosen(s) \in s /\ F[s \ {Chosen(s)}] \in Int
    BY <2>1, ChosenIsMember
  <2>3. Unfold(g, F, s) \in Int
    BY <2>1, <2>2 DEF Unfold
  <2> QED
    BY <1>4, <2>1, <2>3
<1>6. F \in [SUBSET S -> Int]
  BY <1>3, <1>5
<1> QED
  BY <1>4, <1>6 DEF F

-----------------------------------------------------------------------------
(* What the users of a sum rely on *)

\* A function that unfolds agrees with the fold wherever it is defined.
LEMMA FoldingsAgree ==
  ASSUME NEW S, IsFiniteSet(S), NEW g, \A x \in S : g[x] \in Int, NEW T \in SUBSET S
  PROVE  \A s \in SUBSET T : Folding(g, T)[s] = Folding(g, S)[s]
<1> DEFINE Bad == {s \in SUBSET T : Folding(g, T)[s] # Folding(g, S)[s]}
<1> SUFFICES ASSUME Bad # {} PROVE FALSE
  OBVIOUS
<1>1. IsFiniteSet(T)
  BY FS_Subset
<1>2. PICK s \in Bad : \A t \in SUBSET s : t # s => t \notin Bad
  <2>1. Bad \in SUBSET (SUBSET T)
    OBVIOUS
  <2> HIDE DEF Bad
  <2> QED
    BY <1>1, <2>1, SmallestSet
<1>3. s \in SUBSET T /\ s \in SUBSET S
  BY <1>2
<1>4. /\ Folding(g, T)[s] = Unfold(g, Folding(g, T), s)
      /\ Folding(g, S)[s] = Unfold(g, Folding(g, S), s)
  <2>1. \A x \in T : g[x] \in Int
    OBVIOUS
  <2> QED
    BY <1>1, <1>3, <2>1, FoldingUnfolds
<1>5. s # {} => Folding(g, T)[s \ {Chosen(s)}] = Folding(g, S)[s \ {Chosen(s)}]
  BY <1>2, <1>3, ChosenIsMember
<1> QED
  BY <1>2, <1>4, <1>5 DEF Unfold

LEMMA SumEmpty ==
  ASSUME NEW g
  PROVE  SumFunctionOnSet(g, {}) = 0
<1>1. IsFiniteSet({})
  BY FS_EmptySet
<1>2. Folding(g, {})[{}] = Unfold(g, Folding(g, {}), {})
  BY <1>1, FoldingUnfolds
<1> QED
  BY <1>2, SumIsFolding DEF Unfold

LEMMA SumInt ==
  ASSUME NEW S, IsFiniteSet(S), NEW g, \A x \in S : g[x] \in Int
  PROVE  SumFunctionOnSet(g, S) \in Int
BY FoldingUnfolds, SumIsFolding

LEMMA SumOfChosen ==
  ASSUME NEW S, IsFiniteSet(S), S # {}, NEW g, \A x \in S : g[x] \in Int
  PROVE  SumFunctionOnSet(g, S) = g[Chosen(S)] + SumFunctionOnSet(g, S \ {Chosen(S)})
<1> DEFINE T == S \ {Chosen(S)}
<1>1. Folding(g, S)[S] = g[Chosen(S)] + Folding(g, S)[T]
  BY FoldingUnfolds DEF Unfold
<1>2. Folding(g, S)[T] = Folding(g, T)[T]
  BY FoldingsAgree
<1> QED
  BY <1>1, <1>2, SumIsFolding

\* The order of a sum does not matter: any element can be taken first.
LEMMA SumOfAny ==
  ASSUME NEW S, IsFiniteSet(S), NEW g, \A x \in S : g[x] \in Int, NEW a \in S
  PROVE  SumFunctionOnSet(g, S) = g[a] + SumFunctionOnSet(g, S \ {a})
<1> DEFINE Sum(T) == SumFunctionOnSet(g, T)
           Bad == {T \in SUBSET S : \E x \in T : Sum(T) # g[x] + Sum(T \ {x})}
<1> SUFFICES ASSUME Bad # {} PROVE FALSE
  OBVIOUS
<1>1. PICK T \in Bad : \A R \in SUBSET T : R # T => R \notin Bad
  <2>1. Bad \in SUBSET (SUBSET S)
    OBVIOUS
  <2> HIDE DEF Bad
  <2> QED
    BY <2>1, SmallestSet
<1>2. PICK x \in T : Sum(T) # g[x] + Sum(T \ {x})
  BY <1>1
<1> DEFINE c == Chosen(T)
<1>3. T \in SUBSET S /\ T # {} /\ c \in T
  BY <1>1, <1>2, ChosenIsMember
<1>4. \A R \in SUBSET S : IsFiniteSet(R) /\ Sum(R) \in Int
  BY FS_Subset, SumInt
<1>5. Sum(T) = g[c] + Sum(T \ {c})
  BY <1>3, <1>4, SumOfChosen
<1>6. x # c
  BY <1>2, <1>5
<1>7. /\ T \ {c} \in SUBSET S /\ x \in T \ {c} /\ T \ {c} \notin Bad
      /\ T \ {x} \in SUBSET S /\ c \in T \ {x} /\ T \ {x} \notin Bad
  <2> HIDE DEF Bad
  <2> QED
    BY <1>1, <1>2, <1>3, <1>6
<1>8. Sum(T \ {c}) = g[x] + Sum((T \ {c}) \ {x})
  BY <1>7
<1>9. Sum(T \ {x}) = g[c] + Sum((T \ {x}) \ {c})
  BY <1>7
<1>10. (T \ {c}) \ {x} = (T \ {x}) \ {c} /\ (T \ {c}) \ {x} \in SUBSET S
  BY <1>3
<1>11. g[x] \in Int /\ g[c] \in Int /\ Sum((T \ {c}) \ {x}) \in Int
  BY <1>2, <1>3, <1>4, <1>10
<1> DEFINE rest == Sum((T \ {c}) \ {x})
<1>12. /\ Sum(T) # g[x] + Sum(T \ {x}) /\ Sum(T) = g[c] + Sum(T \ {c})
       /\ Sum(T \ {c}) = g[x] + rest /\ Sum(T \ {x}) = g[c] + rest
  BY <1>2, <1>5, <1>8, <1>9, <1>10
<1> HIDE DEF rest, Sum, c
<1> QED
  BY <1>11, <1>12 DEF rest

LEMMA SumWith ==
  ASSUME NEW S, IsFiniteSet(S), NEW a, a \notin S, NEW g, \A x \in S \cup {a} : g[x] \in Int
  PROVE  SumFunctionOnSet(g, S \cup {a}) = g[a] + SumFunctionOnSet(g, S)
<1>1. IsFiniteSet(S \cup {a}) /\ (S \cup {a}) \ {a} = S
  BY FS_AddElement
<1> QED
  BY <1>1, SumOfAny

\* A sum depends on its terms only.
LEMMA SumSame ==
  ASSUME NEW S, IsFiniteSet(S), NEW g, NEW h, \A x \in S : g[x] \in Int /\ h[x] = g[x]
  PROVE  SumFunctionOnSet(h, S) = SumFunctionOnSet(g, S)
<1> DEFINE Bad == {T \in SUBSET S : SumFunctionOnSet(h, T) # SumFunctionOnSet(g, T)}
<1> SUFFICES ASSUME Bad # {} PROVE FALSE
  OBVIOUS
<1>1. PICK T \in Bad : \A R \in SUBSET T : R # T => R \notin Bad
  <2>1. Bad \in SUBSET (SUBSET S)
    OBVIOUS
  <2> HIDE DEF Bad
  <2> QED
    BY <2>1, SmallestSet
<1>2. T \in SUBSET S /\ IsFiniteSet(T) /\ T # {}
  BY <1>1, FS_Subset, SumEmpty
<1>3. PICK x \in T : TRUE
  BY <1>2
<1>4. SumFunctionOnSet(h, T \ {x}) = SumFunctionOnSet(g, T \ {x})
  BY <1>1, <1>2, <1>3
<1>5. /\ SumFunctionOnSet(h, T) = h[x] + SumFunctionOnSet(h, T \ {x})
      /\ SumFunctionOnSet(g, T) = g[x] + SumFunctionOnSet(g, T \ {x})
  <2>1. \A y \in T : g[y] \in Int /\ h[y] \in Int /\ h[y] = g[y]
    BY <1>2
  <2> QED
    BY <1>2, <1>3, <2>1, SumOfAny
<1> QED
  BY <1>1, <1>2, <1>3, <1>4, <1>5

\* What an update of one row changes.
LEMMA SumUpdate ==
  ASSUME NEW S, IsFiniteSet(S), NEW g, NEW h, NEW a \in S,
         \A x \in S : g[x] \in Int, \A x \in S \ {a} : h[x] = g[x], h[a] \in Int
  PROVE  SumFunctionOnSet(h, S) = SumFunctionOnSet(g, S) - g[a] + h[a]
<1> DEFINE R == S \ {a}
<1>1. IsFiniteSet(R) /\ \A x \in S : h[x] \in Int
  BY FS_RemoveElement
<1>2. SumFunctionOnSet(h, R) = SumFunctionOnSet(g, R)
  BY <1>1, SumSame
<1>3. /\ SumFunctionOnSet(h, S) = h[a] + SumFunctionOnSet(h, R)
      /\ SumFunctionOnSet(g, S) = g[a] + SumFunctionOnSet(g, R)
  BY <1>1, SumOfAny
<1>4. SumFunctionOnSet(g, R) \in Int
  BY <1>1, SumInt
<1> QED
  BY <1>2, <1>3, <1>4

LEMMA SumBounds ==
  ASSUME NEW S, IsFiniteSet(S), NEW g, NEW h,
         \A x \in S : g[x] \in Int /\ h[x] \in Int /\ g[x] <= h[x]
  PROVE  SumFunctionOnSet(g, S) <= SumFunctionOnSet(h, S)
<1> DEFINE Bad == {T \in SUBSET S : ~(SumFunctionOnSet(g, T) <= SumFunctionOnSet(h, T))}
<1> SUFFICES ASSUME Bad # {} PROVE FALSE
  OBVIOUS
<1>1. PICK T \in Bad : \A R \in SUBSET T : R # T => R \notin Bad
  <2>1. Bad \in SUBSET (SUBSET S)
    OBVIOUS
  <2> HIDE DEF Bad
  <2> QED
    BY <2>1, SmallestSet
<1>2. T \in SUBSET S /\ IsFiniteSet(T) /\ T # {}
  <2>1. T # {}
    <3>1. ASSUME T = {} PROVE FALSE
      <4>1. SumFunctionOnSet(g, T) = 0 /\ SumFunctionOnSet(h, T) = 0
        BY <3>1, SumEmpty
      <4> QED
        BY <1>1, <4>1
    <3> QED
      BY <3>1
  <2> QED
    BY <1>1, <2>1, FS_Subset
<1>3. PICK x \in T : TRUE
  BY <1>2
<1>4. /\ SumFunctionOnSet(g, T \ {x}) <= SumFunctionOnSet(h, T \ {x})
      /\ IsFiniteSet(T \ {x})
  BY <1>1, <1>2, <1>3, FS_RemoveElement
<1>5. /\ SumFunctionOnSet(h, T) = h[x] + SumFunctionOnSet(h, T \ {x})
      /\ SumFunctionOnSet(g, T) = g[x] + SumFunctionOnSet(g, T \ {x})
      /\ SumFunctionOnSet(h, T \ {x}) \in Int /\ SumFunctionOnSet(g, T \ {x}) \in Int
  BY <1>2, <1>3, <1>4, SumOfAny, SumInt
<1> QED
  BY <1>1, <1>2, <1>3, <1>4, <1>5

LEMMA SumNat ==
  ASSUME NEW S, IsFiniteSet(S), NEW g, \A x \in S : g[x] \in Nat
  PROVE  /\ SumFunctionOnSet(g, S) \in Nat
         /\ \A a \in S : g[a] <= SumFunctionOnSet(g, S)
<1> DEFINE Bad == {T \in SUBSET S : SumFunctionOnSet(g, T) \notin Nat}
<1>1. Bad = {}
  <2> SUFFICES ASSUME Bad # {} PROVE FALSE
    OBVIOUS
  <2>1. PICK T \in Bad : \A R \in SUBSET T : R # T => R \notin Bad
    <3>1. Bad \in SUBSET (SUBSET S)
      OBVIOUS
    <3> HIDE DEF Bad
    <3> QED
      BY <3>1, SmallestSet
  <2>2. T \in SUBSET S /\ IsFiniteSet(T) /\ T # {}
    <3>1. T # {}
      <4>1. ASSUME T = {} PROVE FALSE
        <5>1. SumFunctionOnSet(g, T) = 0
          BY <4>1, SumEmpty
        <5> QED
          BY <2>1, <5>1
      <4> QED
        BY <4>1
    <3> QED
      BY <2>1, <3>1, FS_Subset
  <2>3. PICK x \in T : TRUE
    BY <2>2
  <2>4. SumFunctionOnSet(g, T \ {x}) \in Nat
    BY <2>1, <2>2, <2>3
  <2>5. SumFunctionOnSet(g, T) = g[x] + SumFunctionOnSet(g, T \ {x})
    BY <2>2, <2>3, SumOfAny
  <2> QED
    BY <2>1, <2>2, <2>3, <2>4, <2>5
<1>2. ASSUME NEW a \in S PROVE g[a] <= SumFunctionOnSet(g, S)
  <2>1. SumFunctionOnSet(g, S) = g[a] + SumFunctionOnSet(g, S \ {a})
    BY SumOfAny
  <2>2. SumFunctionOnSet(g, S \ {a}) \in Nat
    BY <1>1
  <2> QED
    BY <2>1, <2>2
<1> QED
  BY <1>1, <1>2

LEMMA SumZero ==
  ASSUME NEW S, IsFiniteSet(S), NEW g, \A x \in S : g[x] = 0
  PROVE  SumFunctionOnSet(g, S) = 0
<1> DEFINE Bad == {T \in SUBSET S : SumFunctionOnSet(g, T) # 0}
<1> SUFFICES ASSUME Bad # {} PROVE FALSE
  OBVIOUS
<1>1. PICK T \in Bad : \A R \in SUBSET T : R # T => R \notin Bad
  <2>1. Bad \in SUBSET (SUBSET S)
    OBVIOUS
  <2> HIDE DEF Bad
  <2> QED
    BY <2>1, SmallestSet
<1>2. T \in SUBSET S /\ IsFiniteSet(T) /\ T # {}
  BY <1>1, FS_Subset, SumEmpty
<1>3. PICK x \in T : TRUE
  BY <1>2
<1>4. SumFunctionOnSet(g, T \ {x}) = 0
  BY <1>1, <1>2, <1>3
<1>5. SumFunctionOnSet(g, T) = g[x] + SumFunctionOnSet(g, T \ {x})
  BY <1>2, <1>3, SumOfAny
<1> QED
  BY <1>1, <1>2, <1>3, <1>4, <1>5

=============================================================================
