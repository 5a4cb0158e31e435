------------------------------ MODULE SiteProofs ------------------------------
(***************************************************************************)
(* Proofs about what visitors of the site, its editors and the payment     *)
(* providers call at the same time: the rate limits and the managed pages  *)
(* of ContentStore, the tenants of BillingScope, the offers and sales of   *)
(* BillingOffers.  A request holds what it has read for several            *)
(* statements, so each invariant says what of that still holds as long as  *)
(* no other write has overtaken it.                                        *)
(***************************************************************************)
EXTENDS ContentStore, BillingScope, BillingOffers, FiniteSetTheorems, TLAPS

-----------------------------------------------------------------------------
(* BillingScope *)

Owners == Tenants \cup {Nobody}
Rows == [tenant : Owners, payer : Payers \cup {Nobody}, parent : Records \cup {Nobody}]
ScopeEvents == [record : Records, claim : Owners, parent : Records \cup {Nobody},
                payer : Payers \cup {Nobody}]
Handling ==
  [at : {"customer", "insert", "store"}, event : ScopeEvents, tenant : Tenants,
   parent : Records \cup {Nobody}, stale : BOOLEAN]

ScopeTypeOK ==
  /\ bound \in [Payers -> Owners] /\ record \in [Records -> Rows]
  /\ delivery \in [Deliveries -> Handling \cup {Free}]
  /\ received \in Nat /\ established \in [Records -> Owners] /\ overtaken \subseteq Records

\* A row has a tenant, and refers to a row of that tenant.
RowsInv ==
  \A x \in Records : record[x] # Absent => record[x].tenant # Nobody

\* A delivery in flight: what it refers to is there, its record and its customer
\* are of its tenant unless a commit has overtaken it, and a session is there.
HandlingInv ==
  \A d \in Deliveries : delivery[d] # Free =>
    LET w == delivery[d]
        x == w.event.record
        c == w.event.payer
    IN
    /\ w.at # "store" => c # Nobody
    /\ w.parent # Nobody => TenantOf(w.parent) # Nobody
    /\ KindOf[x] = "session" => record[x] # Absent
    /\ ~w.stale => /\ record[x] = Absent \/ record[x].tenant = w.tenant
                   /\ w.at # "customer" /\ c # Nobody => bound[c] \in {Nobody, w.tenant}

\* The row of a customer is locked by one delivery at a time.
CustomerLocked ==
  \A d, q \in Deliveries :
    /\ delivery[d] # Free /\ delivery[q] # Free /\ Doing(d, "store") /\ Doing(q, "store")
    /\ delivery[d].event.payer = delivery[q].event.payer /\ delivery[d].event.payer # Nobody
    => d = q

ScopeInv == ScopeTypeOK /\ RowsInv /\ HandlingInv /\ CustomerLocked /\ ScopeEstablished

\* The placeholders of no row and no delivery are no others.
LEMMA ScopePlaceholders ==
  /\ Absent \in Rows /\ Free \notin Handling /\ Nobody \notin Tenants \cup Payers \cup Records
  /\ \A w \in Handling \cup {Free} : (w = Free <=> w.at = "none") /\ (w # Free <=> w \in Handling)
  BY ScopeAssumption DEF Absent, Free, Rows, Handling, Owners

LEMMA EventsTyped ==
  ASSUME NEW x \in Records, NEW e \in EventsOf(x)
  PROVE  e \in ScopeEvents /\ e.record = x
  BY DEF EventsOf, ScopeEvents, Owners

LEMMA ScopeInitially == ScopeInit => ScopeInv
  BY ScopePlaceholders DEF ScopeInit, ScopeInv, ScopeTypeOK, RowsInv, HandlingInv, CustomerLocked,
     ScopeEstablished, Owners

\* Letting go of a delivery, as Undo and a refused customer do.
LEMMA ReleaseKeeps ==
  ASSUME ScopeInv, NEW d \in Deliveries, Release(d),
         UNCHANGED <<bound, record, received, scopeHistory>>
  PROVE  ScopeInv'
<1>1. \A q \in Deliveries : delivery'[q] = IF q = d THEN Free ELSE delivery[q]
  BY DEF Release, ScopeInv, ScopeTypeOK
<1>2. ScopeTypeOK'
  BY DEF Release, ScopeInv, ScopeTypeOK, scopeHistory
<1>3. RowsInv' /\ ScopeEstablished'
  BY DEF ScopeInv, RowsInv, ScopeEstablished, TenantOf, scopeHistory
<1>4. HandlingInv'
  BY <1>1 DEF ScopeInv, HandlingInv, TenantOf
<1>5. CustomerLocked'
  BY <1>1 DEF ScopeInv, CustomerLocked, Doing
<1> QED
  BY <1>2, <1>3, <1>4, <1>5 DEF ScopeInv

LEMMA StoreSessionKeeps ==
  ASSUME ScopeInv, NEW x \in Records, NEW t \in Tenants, StoreSession(x, t)
  PROVE  ScopeInv'
<1>1. /\ record' = [record EXCEPT ![x].tenant = t] /\ established' = [established EXCEPT ![x] = t]
      /\ record[x] = Absent /\ KindOf[x] = "session"
      /\ UNCHANGED <<bound, delivery, received, overtaken>>
  BY DEF StoreSession
<1>2. /\ \A y \in Records : y # x => record'[y] = record[y] /\ established'[y] = established[y]
      /\ record'[x].tenant = t /\ record'[x].payer = Nobody /\ record'[x].parent = Nobody
      /\ established'[x] = t /\ t # Nobody /\ record'[x] # Absent
  BY <1>1, ScopePlaceholders DEF ScopeInv, ScopeTypeOK, Rows, Absent
<1>3. ScopeTypeOK'
  BY <1>1, ScopePlaceholders DEF ScopeInv, ScopeTypeOK, Rows, Owners
<1>4. RowsInv' /\ ScopeEstablished'
  BY <1>1, <1>2 DEF ScopeInv, ScopeTypeOK, Rows, RowsInv, ScopeEstablished, TenantOf, Absent
<1>5. \A y \in Records \cup {Nobody} : TenantOf(y) # Nobody => TenantOf(y)' # Nobody
  BY <1>2 DEF TenantOf
<1>6. HandlingInv'
  <2> SUFFICES ASSUME NEW d \in Deliveries, delivery[d] # Free
               PROVE  HandlingInv!(d)'
    BY <1>1 DEF HandlingInv
  <2> QED
    BY <1>1, <1>2, <1>5, ScopePlaceholders DEF ScopeInv, ScopeTypeOK, HandlingInv, Handling, ScopeEvents
<1>7. CustomerLocked'
  BY <1>1 DEF ScopeInv, CustomerLocked, Doing
<1> QED
  BY <1>3, <1>4, <1>6, <1>7 DEF ScopeInv

LEMMA ReceiveKeeps ==
  ASSUME ScopeInv, NEW d \in Deliveries, NEW x \in Records, NEW e \in EventsOf(x),
         NEW t \in Tenants, Receive(d, e, t)
  PROVE  ScopeInv'
<1> DEFINE w == [at |-> IF e.payer = Nobody THEN "store" ELSE "customer", event |-> e,
                 tenant |-> t, parent |-> Referred(e), stale |-> FALSE]
<1>1. /\ delivery' = [delivery EXCEPT ![d] = w] /\ received' = received + 1
      /\ UNCHANGED <<bound, record, scopeHistory>> /\ e.record = x /\ e \in ScopeEvents
      /\ delivery[d] = Free
  BY EventsTyped DEF Receive
<1>2. Referred(e) \in Records \cup {Nobody} /\ (Referred(e) # Nobody => TenantOf(Referred(e)) # Nobody)
  <2>1. CASE TenantOf(e.parent) # Nobody
    BY <1>1, <2>1 DEF Referred, ScopeEvents
  <2>2. CASE TenantOf(e.parent) = Nobody /\ KindOf[x] = "refund"
    <3>1. Referred(e) = record[x].parent
      BY <1>1, <2>2 DEF Referred
    <3>2. record[x].parent # Nobody => record[x] # Absent
      BY DEF Absent
    <3> QED
      BY <3>1, <3>2, ScopePlaceholders
         DEF ScopeInv, ScopeTypeOK, Rows, RowsInv, ScopeEstablished, TenantOf
  <2>3. CASE TenantOf(e.parent) = Nobody /\ KindOf[x] # "refund"
    BY <1>1, <2>3 DEF Referred
  <2> QED
    BY <2>1, <2>2, <2>3
<1>3. w \in Handling
  BY <1>1, <1>2 DEF Handling
<1>4. ScopeTypeOK'
  BY <1>1, <1>3 DEF ScopeInv, ScopeTypeOK, scopeHistory
<1>5. RowsInv' /\ ScopeEstablished'
  BY <1>1 DEF ScopeInv, RowsInv, ScopeEstablished, TenantOf, scopeHistory
<1>6. \A q \in Deliveries : delivery'[q] = IF q = d THEN w ELSE delivery[q]
  BY <1>1 DEF ScopeInv, ScopeTypeOK
<1>7. /\ KindOf[x] = "session" => record[x] # Absent
      /\ record[x] = Absent \/ record[x].tenant = t
  <2>1. KindOf[x] = "session" => e.claim # Nobody /\ record[x].tenant = e.claim /\ e.claim = t
    BY <1>1 DEF Receive, Resolves
  <2>2. KindOf[x] # "session" => TenantOf(x) \in {Nobody, t}
    BY <1>1 DEF Receive, Resolves, EstablishedBy
  <2> QED
    BY <2>1, <2>2, ScopePlaceholders DEF TenantOf, Absent, ScopeInv, RowsInv
<1>8. HandlingInv'
  <2> SUFFICES ASSUME NEW q \in Deliveries, delivery'[q] # Free
               PROVE  HandlingInv!(q)'
    BY DEF HandlingInv
  <2>1. CASE q # d
    BY <1>1, <1>6, <2>1 DEF ScopeInv, HandlingInv, TenantOf
  <2>2. CASE q = d
    BY <1>1, <1>2, <1>6, <1>7, <2>2 DEF TenantOf
  <2> QED
    BY <2>1, <2>2
<1>9. CustomerLocked'
  <2>1. w.at = "store" => w.event.payer = Nobody
    OBVIOUS
  <2> QED
    BY <1>6, <2>1 DEF ScopeInv, CustomerLocked, Doing
<1> QED
  BY <1>4, <1>5, <1>8, <1>9 DEF ScopeInv

\* The two statements of upsertCustomer.
LEMMA CustomerKeeps ==
  ASSUME ScopeInv, NEW d \in Deliveries, ReadCustomer(d) \/ UpsertCustomer(d)
  PROVE  ScopeInv'
<1>1. CASE ReadCustomer(d) /\ ~PayerAgrees(d)
  BY <1>1, ReleaseKeeps DEF ReadCustomer
<1>2. CASE (ReadCustomer(d) /\ PayerAgrees(d)) \/ UpsertCustomer(d)
  <2> DEFINE s == IF Doing(d, "customer") THEN "insert" ELSE "store"
  <2>1. /\ delivery' = [delivery EXCEPT ![d].at = s] /\ delivery[d] # Free
        /\ delivery[d].at # "store" /\ UNCHANGED <<bound, record, received, scopeHistory>>
    BY <1>2 DEF ReadCustomer, UpsertCustomer, Doing, Free
  <2>2. delivery[d] \in Handling
    BY <2>1, ScopePlaceholders DEF ScopeInv, ScopeTypeOK
  <2>3. \A q \in Deliveries : delivery'[q] = IF q = d THEN [delivery[d] EXCEPT !.at = s] ELSE delivery[q]
    BY <2>1 DEF ScopeInv, ScopeTypeOK
  <2>4. [delivery[d] EXCEPT !.at = s] \in Handling
    BY <2>2 DEF Handling
  <2>5. ScopeTypeOK'
    BY <2>1, <2>4 DEF ScopeInv, ScopeTypeOK, scopeHistory
  <2>6. RowsInv' /\ ScopeEstablished'
    BY <2>1 DEF ScopeInv, RowsInv, ScopeEstablished, TenantOf, scopeHistory
  <2>7. \A q \in Deliveries :
          /\ delivery'[q] # Free <=> delivery[q] # Free
          /\ delivery[q] # Free =>
               /\ delivery'[q].event = delivery[q].event /\ delivery'[q].tenant = delivery[q].tenant
               /\ delivery'[q].parent = delivery[q].parent /\ delivery'[q].stale = delivery[q].stale
               /\ delivery'[q].at = IF q = d THEN s ELSE delivery[q].at
    BY <2>1, <2>2, <2>3, <2>4, ScopePlaceholders DEF Handling
  <2>8. delivery[d].at = "customer" /\ ~delivery[d].stale
        => bound[delivery[d].event.payer] \in {Nobody, delivery[d].tenant}
    BY <1>2, <2>1, <2>2
       DEF ReadCustomer, PayerAgrees, Resolves, PayerTenant, UpsertCustomer, Doing, ScopeInv, HandlingInv
  <2>9. HandlingInv'
    <3> SUFFICES ASSUME NEW q \in Deliveries, delivery'[q] # Free
                 PROVE  HandlingInv!(q)'
      BY DEF HandlingInv
    <3>1. HandlingInv!(q) /\ delivery[q] # Free
      BY <2>7 DEF ScopeInv, HandlingInv
    <3>2. CASE q # d
      BY <2>1, <2>7, <3>1, <3>2 DEF TenantOf
    <3>3. CASE q = d
      BY <2>1, <2>7, <2>8, <3>1, <3>3 DEF TenantOf, Doing
    <3> QED
      BY <3>2, <3>3
  <2>10. CustomerLocked'
    <3>1. s = "store" => ~\E q \in Deliveries : Doing(q, "store")
                                     /\ delivery[q].event.payer = delivery[d].event.payer
      BY <1>2 DEF ReadCustomer, UpsertCustomer, Doing
    <3> QED
      BY <2>7, <3>1 DEF ScopeInv, CustomerLocked, Doing
  <2> QED
    BY <2>5, <2>6, <2>9, <2>10 DEF ScopeInv
<1> QED
  BY <1>1, <1>2 DEF ReadCustomer

\* What a commit writes: the tenant that the record has, or that of the delivery,
\* and a reference to a row of that tenant.
LEMMA StoredRow ==
  ASSUME ScopeInv, NEW d \in Deliveries, Commit(d)
  PROVE  LET w == delivery[d]
             x == w.event.record
         IN
         /\ w \in Handling /\ x \in Records /\ w.at = "store" /\ Stored(d) \in Rows
         /\ Stored(d).tenant # Nobody
         /\ Stored(d).tenant = IF record[x] = Absent THEN w.tenant ELSE record[x].tenant
         /\ Stored(d).parent # Nobody => TenantOf(Stored(d).parent) = Stored(d).tenant
         /\ \/ record[x] # Absent /\ Stored(d).payer = record[x].payer
            \/ Stored(d).payer = w.event.payer
<1> DEFINE w == delivery[d]
           x == w.event.record
<1>1. w \in Handling /\ x \in Records /\ w.at = "store" /\ w # Free
      /\ ParentAllowed(x, Stored(d)) /\ record[x] \in Rows /\ w.tenant \in Tenants
      /\ w.parent \in Records \cup {Nobody} /\ w.event.payer \in Payers \cup {Nobody}
  BY ScopePlaceholders DEF Commit, Doing, Free, ScopeInv, ScopeTypeOK, Handling, ScopeEvents
<1>2. w.parent # Nobody => TenantOf(w.parent) # Nobody
  BY <1>1 DEF ScopeInv, HandlingInv
<1>3. record[x].parent # Nobody => record[x] # Absent /\ TenantOf(record[x].parent) # Nobody
  BY <1>1 DEF Absent, ScopeInv, ScopeEstablished, RowsInv
<1>4. Kept(x, w.tenant) \in Tenants
  BY <1>1 DEF Kept, ScopeInv, RowsInv, Rows, Owners
<1>5. CASE KindOf[x] = "session"
  <2>1. Stored(d) = record[x] /\ record[x] # Absent
    BY <1>1, <1>5 DEF Stored, ScopeInv, HandlingInv
  <2> QED
    BY <1>1, <1>3, <2>1 DEF ScopeInv, RowsInv, ScopeEstablished
<1>6. CASE KindOf[x] = "refund" /\ record[x].parent # Nobody
  <2>1. Stored(d) = [record[x] EXCEPT !.tenant = Kept(x, w.tenant)]
    BY <1>6 DEF Stored
  <2> QED
    BY <1>1, <1>3, <1>4, <1>6, <2>1 DEF Rows, Owners, Kept, ScopeInv, RowsInv, ScopeEstablished
<1>7. CASE KindOf[x] # "session" /\ ~(KindOf[x] = "refund" /\ record[x].parent # Nobody)
  <2>1. Stored(d) = [tenant |-> Kept(x, w.tenant), payer |-> w.event.payer, parent |-> w.parent]
    BY <1>7 DEF Stored
  <2>2. Stored(d).parent # Nobody => TenantOf(Stored(d).parent) = Stored(d).tenant
    BY <1>1, <1>2, <2>1 DEF ParentAllowed
  <2> QED
    BY <1>1, <1>4, <2>1, <2>2, ScopePlaceholders DEF Rows, Owners, Kept, Handling, ScopeEvents
<1> QED
  BY <1>5, <1>6, <1>7

LEMMA CommitKeeps ==
  ASSUME ScopeInv, NEW d \in Deliveries, Commit(d)
  PROVE  ScopeInv'
<1> DEFINE w == delivery[d]
           x == w.event.record
           c == w.event.payer
           row == Stored(d)
           tenant(y) == IF y = Nobody THEN Nobody ELSE record'[y].tenant
<1>1. /\ w \in Handling /\ x \in Records /\ w.at = "store" /\ w # Free /\ row \in Rows
      /\ row.tenant # Nobody /\ row.tenant = IF record[x] = Absent THEN w.tenant ELSE record[x].tenant
      /\ c \in Payers \cup {Nobody} /\ w.tenant \in Tenants
  BY StoredRow, ScopePlaceholders DEF Handling, ScopeEvents
<1>2. /\ record' = [record EXCEPT ![x] = row] /\ UNCHANGED received
      /\ bound' = IF c # Nobody /\ bound[c] = Nobody THEN [bound EXCEPT ![c] = w.tenant] ELSE bound
      /\ established' = IF record[x] = Absent THEN [established EXCEPT ![x] = w.tenant] ELSE established
      /\ overtaken' = IF w.stale THEN overtaken \cup {x} ELSE overtaken
      /\ \A q \in Deliveries :
           delivery'[q] = IF q = d THEN Free
                          ELSE IF delivery[q] # Free /\ Outdated(q, w.event)
                               THEN [delivery[q] EXCEPT !.stale = TRUE] ELSE delivery[q]
      /\ delivery' = [q \in Deliveries |-> delivery'[q]]
  BY DEF Commit
<1>3. \A q \in Deliveries : delivery[q] # Free =>
        /\ delivery[q] \in Handling /\ [delivery[q] EXCEPT !.stale = TRUE] \in Handling
  <2>1. \A q \in Deliveries : delivery[q] # Free => delivery[q] \in Handling
    BY ScopePlaceholders DEF ScopeInv, ScopeTypeOK
  <2>2. \A v \in Handling : [v EXCEPT !.stale = TRUE] \in Handling
    BY DEF Handling
  <2> QED
    BY <2>1, <2>2
<1>4. ScopeTypeOK'
  <2>1. delivery' \in [Deliveries -> Handling \cup {Free}]
    BY <1>2, <1>3
  <2>2. bound' \in [Payers -> Owners] /\ record' \in [Records -> Rows]
        /\ established' \in [Records -> Owners] /\ overtaken' \subseteq Records /\ received' \in Nat
    BY <1>1, <1>2 DEF ScopeInv, ScopeTypeOK, Owners
  <2> QED
    BY <2>1, <2>2 DEF ScopeTypeOK
<1>5. /\ \A y \in Records : record'[y] = IF y = x THEN row ELSE record[y]
      /\ \A y \in Records \cup {Nobody} : TenantOf(y) # Nobody => tenant(y) = TenantOf(y)
      /\ \A y \in Payers : bound[y] # Nobody => bound'[y] = bound[y]
      /\ \A y \in Payers : y # c => bound'[y] = bound[y]
      /\ overtaken \subseteq overtaken'
  BY <1>1, <1>2 DEF ScopeInv, ScopeTypeOK, TenantOf, Absent
<1>6. RowsInv'
  BY <1>1, <1>5 DEF ScopeInv, RowsInv
<1>7. ASSUME NEW y \in Records, record'[y] # Absent
      PROVE  /\ record'[y].tenant = established'[y]
             /\ record'[y].parent # Nobody => tenant(record'[y].parent) = record'[y].tenant
             /\ record'[y].payer # Nobody => bound'[record'[y].payer] = record'[y].tenant \/ y \in overtaken'
  <2>1. CASE y # x
    <3>1. record'[y] = record[y] /\ established'[y] = established[y]
      BY <1>2, <1>5, <2>1 DEF ScopeInv, ScopeTypeOK
    <3>2. record[y].tenant # Nobody /\ record[y] \in Rows
      BY <1>7, <3>1 DEF ScopeInv, RowsInv, ScopeTypeOK
    <3> QED
      BY <1>5, <1>7, <3>1, <3>2 DEF ScopeInv, ScopeEstablished, Rows
  <2>2. CASE y = x
    <3>1. established'[x] = row.tenant
      BY <1>1, <1>2 DEF ScopeInv, ScopeTypeOK, ScopeEstablished
    <3>2. row.parent # Nobody => tenant(row.parent) = row.tenant
      BY <1>1, <1>5, StoredRow DEF Rows
    <3>3. ASSUME row.payer # Nobody
          PROVE  bound'[row.payer] = row.tenant \/ x \in overtaken'
      <4>1. CASE record[x] # Absent /\ row.payer = record[x].payer
        <5>1. bound[record[x].payer] = record[x].tenant \/ x \in overtaken
          BY <1>1, <3>3, <4>1 DEF ScopeInv, ScopeEstablished
        <5> QED
          BY <1>1, <1>5, <3>3, <4>1, <5>1 DEF Rows
      <4>2. CASE row.payer = c /\ ~w.stale
        <5>1. /\ record[x] = Absent \/ record[x].tenant = w.tenant
              /\ bound[c] \in {Nobody, w.tenant}
          BY <1>1, <3>3, <4>2 DEF ScopeInv, HandlingInv
        <5> QED
          BY <1>1, <1>2, <3>3, <4>2, <5>1 DEF ScopeInv, ScopeTypeOK
      <4>3. CASE w.stale
        BY <1>2, <4>3
      <4> QED
        BY <4>1, <4>2, <4>3, StoredRow
    <3> QED
      BY <1>5, <2>2, <3>1, <3>2, <3>3
  <2> QED
    BY <2>1, <2>2
<1>8. ScopeEstablished'
  BY <1>7 DEF ScopeEstablished, TenantOf
<1>9. HandlingInv'
  <2> SUFFICES ASSUME NEW q \in Deliveries, delivery'[q] # Free
               PROVE  HandlingInv!(q)'
    BY DEF HandlingInv
  <2>1. /\ q # d /\ delivery[q] # Free /\ delivery[q] \in Handling
        /\ delivery'[q].at = delivery[q].at /\ delivery'[q].event = delivery[q].event
        /\ delivery'[q].tenant = delivery[q].tenant /\ delivery'[q].parent = delivery[q].parent
        /\ ~delivery'[q].stale => ~delivery[q].stale /\ ~Outdated(q, w.event)
    BY <1>2, <1>3 DEF Handling
  <2>2. /\ delivery[q].event.record \in Records /\ delivery[q].event.payer \in Payers \cup {Nobody}
        /\ delivery[q].parent \in Records \cup {Nobody}
        /\ delivery[q].at \in {"customer", "insert", "store"}
    BY <2>1 DEF Handling, ScopeEvents
  <2>3. HandlingInv!(q)
    BY <2>1 DEF ScopeInv, HandlingInv
  <2>4. ASSUME ~delivery'[q].stale
        PROVE  /\ delivery[q].event.record # x
               /\ delivery[q].at = "customer" \/ delivery[q].event.payer = Nobody
                  \/ delivery[q].event.payer # c
    BY <1>1, <2>1, <2>2, <2>4 DEF Outdated, Doing, ScopeInv, CustomerLocked
  <2>5. delivery[q].parent # Nobody => tenant(delivery[q].parent) # Nobody
    BY <1>5, <2>1, <2>2, <2>3
  <2>6. KindOf[delivery[q].event.record] = "session" => record'[delivery[q].event.record] # Absent
    BY <1>1, <1>5, <2>1, <2>2, <2>3 DEF Absent
  <2> QED
    BY <1>5, <2>1, <2>2, <2>3, <2>4, <2>5, <2>6 DEF TenantOf
<1>10. CustomerLocked'
  <2>1. \A q \in Deliveries : delivery'[q] # Free =>
          delivery[q] # Free /\ delivery'[q].at = delivery[q].at /\ delivery'[q].event = delivery[q].event
    BY <1>2, <1>3 DEF Handling
  <2> QED
    BY <2>1 DEF ScopeInv, CustomerLocked, Doing
<1> QED
  BY <1>4, <1>6, <1>8, <1>9, <1>10 DEF ScopeInv

LEMMA ScopeStep == ScopeInv /\ [ScopeNext]_scopeVars => ScopeInv'
<1> SUFFICES ASSUME ScopeInv, [ScopeNext]_scopeVars
             PROVE  ScopeInv'
  OBVIOUS
<1>1. CASE UNCHANGED scopeVars
  BY <1>1 DEF scopeVars, scopeHistory, ScopeInv, ScopeTypeOK, RowsInv, HandlingInv, CustomerLocked,
     ScopeEstablished, TenantOf, Doing
<1>2. ASSUME NEW d \in Deliveries, Undo(d)
      PROVE  ScopeInv'
  BY <1>2, ReleaseKeeps DEF Undo
<1> QED
  BY <1>1, <1>2, StoreSessionKeeps, ReceiveKeeps, CustomerKeeps, CommitKeeps DEF ScopeNext

\* The invariant of the deliveries, with the types of the rows.
THEOREM ScopeInvariant == ScopeSpec => []ScopeInv
  BY ScopeInitially, ScopeStep, PTL DEF ScopeSpec

\* Whatever events name, in any order and any number at once: a record stays with the
\* tenant it was first stored for, and what it refers to is of that tenant.
THEOREM TenantsEstablished == ScopeSpec => []ScopeEstablished
  BY ScopeInvariant, PTL DEF ScopeInv

-----------------------------------------------------------------------------
(* RateLimits *)

Counts == [Identifiers -> [Windows -> Nat]]
GateStates ==
  [at : {"outside", "purge", "count", "through", "refused"}, window : Windows,
   ids : Seq(Identifiers), allowed : BOOLEAN]

Consuming(v) == gate[v].at \in {"purge", "count"}

LimitTypeOK ==
  /\ window \in Windows /\ bucket \in Counts /\ onTime \in Counts /\ overtime \in Counts
  /\ gate \in [Visits -> GateStates]
  /\ \A v \in Visits : Consuming(v) => gate[v].ids # << >> /\ gate[v].window <= window

\* The visits that count against a window.
InWindow(w) == {v \in Visits : Consuming(v) /\ gate[v].window = w}

\* The bucket of the current window has every call that it let through, since it is
\* not purged yet, and later windows have none.
WindowRule ==
  \A i \in Identifiers, w \in Windows :
    /\ onTime[i][w] <= MaxCalls
    /\ w >= window => onTime[i][w] <= bucket[i][w] /\ overtime[i][w] = 0
    /\ w > window => onTime[i][w] = 0

\* A visit that is late for its window is counted there once.
LateRule ==
  \A i \in Identifiers, w \in Windows :
    w < window => overtime[i][w] + Cardinality(InWindow(w)) <= Cardinality(Visits)

LimitInv == LimitTypeOK /\ WindowRule /\ LateRule

LEMMA VisitsCounted ==
  ASSUME NEW S, S \subseteq Visits
  PROVE  /\ IsFiniteSet(S) /\ Cardinality(S) \in Nat /\ Cardinality(Visits) \in Nat
         /\ Cardinality(S) <= Cardinality(Visits)
         /\ \A T : T \subseteq S => IsFiniteSet(T) /\ Cardinality(T) <= Cardinality(S)
                                    /\ Cardinality(T) \in Nat
  BY LimitAssumption, FS_Subset, FS_CardinalityType

LEMMA LimitBounds == LimitInv => RateLimited
<1> SUFFICES ASSUME LimitInv, NEW i \in Identifiers, NEW w \in Windows
             PROVE  onTime[i][w] <= MaxCalls /\ overtime[i][w] <= Cardinality(Visits)
  BY DEF RateLimited
<1>1. overtime[i][w] \in Nat /\ w \in Nat /\ window \in Nat
  BY LimitAssumption DEF LimitInv, LimitTypeOK, Counts, Windows
<1>2. Cardinality(InWindow(w)) \in Nat /\ Cardinality(Visits) \in Nat
  BY VisitsCounted DEF InWindow
<1> QED
  BY <1>1, <1>2 DEF LimitInv, WindowRule, LateRule

LEMMA LimitInitially == LimitInit => LimitInv
<1> SUFFICES ASSUME LimitInit PROVE LimitInv
  OBVIOUS
<1>1. NoCounts \in Counts /\ 0 \in Windows /\ Outside \in GateStates
  BY LimitAssumption DEF NoCounts, Counts, Windows, Outside, GateStates
<1>2. \A i \in Identifiers, w \in Windows : NoCounts[i][w] = 0
  BY DEF NoCounts
<1>3. \A v \in Visits : gate[v] = Outside
  BY DEF LimitInit
<1>4. LimitTypeOK
  BY <1>1, <1>3 DEF LimitInit, LimitTypeOK, Consuming, Outside
<1>5. \A w \in Windows : ~(w < 0)
  BY LimitAssumption DEF Windows
<1> QED
  BY <1>2, <1>4, <1>5, LimitAssumption DEF LimitInit, LimitInv, WindowRule, LateRule, Windows

\* Visits that leave the gate, or do nothing there.
LEMMA LeavingKeeps ==
  ASSUME LimitInv, UNCHANGED <<window, bucket, onTime, overtime>>,
         gate' \in [Visits -> GateStates],
         \A v \in Visits : gate'[v] = gate[v] \/ ~Consuming(v)' \/ gate'[v].window = window,
         \A v \in Visits : Consuming(v)' => gate'[v].ids # << >> /\ gate'[v].window <= window
  PROVE  LimitInv'
<1>1. LimitTypeOK' /\ WindowRule'
  BY DEF LimitInv, LimitTypeOK, WindowRule
<1>2. LateRule'
  <2> SUFFICES ASSUME NEW i \in Identifiers, NEW w \in Windows, w < window
               PROVE  overtime[i][w] + Cardinality(InWindow(w)') <= Cardinality(Visits)
    BY DEF LateRule
  <2>1. InWindow(w)' \subseteq InWindow(w) /\ InWindow(w) \subseteq Visits
    BY LimitAssumption DEF InWindow, Consuming, LimitInv, LimitTypeOK, Windows
  <2>2. overtime[i][w] \in Nat
    BY DEF LimitInv, LimitTypeOK, Counts
  <2> QED
    BY <2>1, <2>2, VisitsCounted DEF LimitInv, LateRule
<1> QED
  BY <1>1, <1>2 DEF LimitInv

LEMMA NextWindowKeeps ==
  ASSUME LimitInv, NextWindow
  PROVE  LimitInv'
<1>1. /\ window' = window + 1 /\ window' \in Windows /\ window \in Nat
      /\ UNCHANGED <<bucket, gate, onTime, overtime>>
  BY LimitAssumption DEF NextWindow, LimitInv, LimitTypeOK, Windows
<1>2. LimitTypeOK'
  BY <1>1, LimitAssumption DEF LimitInv, LimitTypeOK, Consuming, GateStates, Windows
<1>3. WindowRule'
  BY <1>1, LimitAssumption DEF LimitInv, WindowRule, Windows
<1>4. LateRule'
  <2> SUFFICES ASSUME NEW i \in Identifiers, NEW w \in Windows, w < window + 1
               PROVE  overtime[i][w] + Cardinality(InWindow(w)) <= Cardinality(Visits)
    BY <1>1 DEF LateRule, InWindow, Consuming
  <2>1. CASE w < window
    BY <2>1 DEF LimitInv, LateRule
  <2>2. CASE w = window
    <3>1. overtime[i][w] = 0 /\ InWindow(w) \subseteq Visits
      BY <1>1, <2>2 DEF LimitInv, WindowRule, InWindow
    <3> QED
      BY <3>1, VisitsCounted
  <2> QED
    BY <1>1, <2>1, <2>2, LimitAssumption DEF Windows
<1> QED
  BY <1>2, <1>3, <1>4 DEF LimitInv

LEMMA PurgeKeeps ==
  ASSUME LimitInv, NEW v \in Visits, Purge(v)
  PROVE  LimitInv'
<1>1. /\ gate' = [gate EXCEPT ![v].at = "count"] /\ gate[v] \in GateStates /\ gate[v].at = "purge"
      /\ bucket' = [i \in Identifiers |-> [w \in Windows |->
                      IF Expired(w, gate[v].window) THEN 0 ELSE bucket[i][w]]]
      /\ UNCHANGED <<window, onTime, overtime>>
  BY DEF Purge, GateAt, LimitInv, LimitTypeOK
<1>2. /\ \A u \in Visits : gate'[u] = IF u = v THEN [gate[v] EXCEPT !.at = "count"] ELSE gate[u]
      /\ [gate[v] EXCEPT !.at = "count"] \in GateStates
  BY <1>1 DEF LimitInv, LimitTypeOK, GateStates
<1>3. \A u \in Visits : /\ Consuming(u)' <=> Consuming(u)
                        /\ gate'[u].window = gate[u].window /\ gate'[u].ids = gate[u].ids
  BY <1>1, <1>2 DEF Consuming, GateStates
<1>4. \A i \in Identifiers, w \in Windows :
        bucket'[i][w] = IF Expired(w, gate[v].window) THEN 0 ELSE bucket[i][w]
  BY <1>1
<1>5. LimitTypeOK'
  <2>1. bucket' \in Counts
    BY <1>1 DEF LimitInv, LimitTypeOK, Counts
  <2> QED
    BY <1>1, <1>2, <1>3, <2>1 DEF LimitInv, LimitTypeOK
<1>6. WindowRule'
  <2>1. gate[v].window <= window /\ gate[v].window \in Windows /\ window \in Windows
    BY <1>1 DEF LimitInv, LimitTypeOK, Consuming, GateStates
  <2>2. \A w \in Windows : w >= window => ~Expired(w, gate[v].window)
    BY <2>1, LimitAssumption DEF Expired, Windows
  <2> QED
    BY <1>1, <1>4, <2>2 DEF LimitInv, WindowRule
<1>7. LateRule'
  <2>1. \A w \in Windows : InWindow(w)' = InWindow(w)
    BY <1>3 DEF InWindow
  <2> QED
    BY <1>1, <2>1 DEF LimitInv, LateRule
<1> QED
  BY <1>5, <1>6, <1>7 DEF LimitInv

LEMMA CountKeeps ==
  ASSUME LimitInv, NEW v \in Visits, Count(v)
  PROVE  LimitInv'
<1> DEFINE i == Head(gate[v].ids)
           w == gate[v].window
           rest == Tail(gate[v].ids)
           allowed == bucket[i][w] + 1 <= MaxCalls
           next == gate'[v]
<1>1. /\ gate[v] \in GateStates /\ gate[v].at = "count" /\ gate[v].ids # << >>
      /\ w \in Windows /\ w <= window /\ window \in Windows
  BY DEF Count, GateAt, Consuming, LimitInv, LimitTypeOK, GateStates
<1>2. i \in Identifiers /\ rest \in Seq(Identifiers)
  BY <1>1 DEF GateStates
<1>3. /\ bucket' = [bucket EXCEPT ![i][w] = IF @ > MaxCalls THEN @ ELSE @ + 1] /\ UNCHANGED window
      /\ IF window = w THEN onTime' = [onTime EXCEPT ![i][w] = IF allowed THEN @ + 1 ELSE @]
                            /\ UNCHANGED overtime
         ELSE overtime' = [overtime EXCEPT ![i][w] = IF allowed THEN @ + 1 ELSE @] /\ UNCHANGED onTime
  BY DEF Count
<1>4. /\ \A u \in Visits : u # v => gate'[u] = gate[u]
      /\ next = IF rest # << >>
                THEN [at |-> "purge", window |-> window, ids |-> rest,
                      allowed |-> gate[v].allowed /\ allowed]
                ELSE [Outside EXCEPT !.at = IF gate[v].allowed /\ allowed THEN "through" ELSE "refused"]
      /\ gate' = [gate EXCEPT ![v] = next] /\ gate'[v] = next
  BY DEF Count, LimitInv, LimitTypeOK
<1>5. /\ next \in GateStates
      /\ next.at \in {"purge", "count"} => next.ids # << >> /\ next.window = window
  <2>1. CASE rest # << >>
    <3> DEFINE decided == gate[v].allowed /\ allowed
    <3>1. decided \in BOOLEAN
      OBVIOUS
    <3>2. next = [at |-> "purge", window |-> window, ids |-> rest, allowed |-> decided]
      BY <1>4, <2>1
    <3> HIDE DEF rest, decided, next
    <3> QED
      BY <1>1, <1>2, <2>1, <3>1, <3>2 DEF GateStates
  <2>2. CASE rest = << >>
    <3>1. PICK s \in {"through", "refused"} : next = [Outside EXCEPT !.at = s]
      BY <1>4, <2>2
    <3>2. [Outside EXCEPT !.at = s] \in GateStates /\ [Outside EXCEPT !.at = s].at = s
      <4>1. Outside \in GateStates
        BY LimitAssumption DEF GateStates, Outside, Windows
      <4> QED
        BY <4>1 DEF GateStates
    <3> HIDE DEF next
    <3> QED
      BY <3>1, <3>2
  <2> QED
    BY <2>1, <2>2
<1>11. (allowed <=> bucket[i][w] + 1 <= MaxCalls) /\ allowed \in BOOLEAN
  OBVIOUS
<1>12. gate[v].window = w
  OBVIOUS
<1> HIDE DEF i, w, rest, allowed, next
<1>6. /\ bucket' \in Counts /\ onTime' \in Counts /\ overtime' \in Counts
      /\ \A j \in Identifiers, x \in Windows :
        /\ bucket[j][x] \in Nat /\ onTime[j][x] \in Nat /\ overtime[j][x] \in Nat
        /\ bucket'[j][x] = IF j = i /\ x = w /\ ~(bucket[i][w] > MaxCalls)
                           THEN bucket[j][x] + 1 ELSE bucket[j][x]
        /\ onTime'[j][x] = IF j = i /\ x = w /\ w = window /\ allowed THEN onTime[j][x] + 1 ELSE onTime[j][x]
        /\ overtime'[j][x] = IF j = i /\ x = w /\ w # window /\ allowed
                             THEN overtime[j][x] + 1 ELSE overtime[j][x]
  <2> DEFINE n == IF bucket[i][w] > MaxCalls THEN bucket[i][w] ELSE bucket[i][w] + 1
             m == IF allowed THEN onTime[i][w] + 1 ELSE onTime[i][w]
             k == IF allowed THEN overtime[i][w] + 1 ELSE overtime[i][w]
  <2>1. bucket \in Counts /\ onTime \in Counts /\ overtime \in Counts
    BY DEF LimitInv, LimitTypeOK
  <2>2. bucket[i][w] \in Nat /\ onTime[i][w] \in Nat /\ overtime[i][w] \in Nat
    BY <1>1, <1>2, <2>1 DEF Counts
  <2>3. n \in Nat /\ m \in Nat /\ k \in Nat
    BY <2>2
  <2>4. /\ bucket' = [bucket EXCEPT ![i][w] = n]
        /\ IF window = w THEN onTime' = [onTime EXCEPT ![i][w] = m] /\ UNCHANGED overtime
           ELSE overtime' = [overtime EXCEPT ![i][w] = k] /\ UNCHANGED onTime
    BY <1>1, <1>2, <1>3, <2>1 DEF Counts
  <2> HIDE DEF n, m, k
  <2>8. \A j \in Identifiers, x \in Windows :
          bucket[j][x] \in Nat /\ onTime[j][x] \in Nat /\ overtime[j][x] \in Nat
    BY <1>1, <1>2, <2>1 DEF Counts
  <2>5. /\ \A j \in Identifiers, x \in Windows : bucket'[j][x] = IF j = i /\ x = w THEN n ELSE bucket[j][x]
        /\ bucket' \in Counts
    BY <1>1, <1>2, <2>1, <2>3, <2>4 DEF Counts
  <2>6. CASE w = window
    <3>1. onTime' = [onTime EXCEPT ![i][w] = m] /\ overtime' = overtime
      BY <2>4, <2>6
    <3>2. /\ \A j \in Identifiers, x \in Windows : onTime'[j][x] = IF j = i /\ x = w THEN m ELSE onTime[j][x]
          /\ onTime' \in Counts
      BY <1>1, <1>2, <2>1, <2>3, <3>1 DEF Counts
    <3> QED
      BY <2>1, <2>5, <2>6, <2>8, <3>1, <3>2 DEF n, m
  <2>7. CASE w # window
    <3>1. overtime' = [overtime EXCEPT ![i][w] = k] /\ onTime' = onTime
      BY <2>4, <2>7
    <3>2. /\ \A j \in Identifiers, x \in Windows : overtime'[j][x] = IF j = i /\ x = w THEN k ELSE overtime[j][x]
          /\ overtime' \in Counts
      BY <1>1, <1>2, <2>1, <2>3, <3>1 DEF Counts
    <3> QED
      BY <2>1, <2>5, <2>7, <2>8, <3>1, <3>2 DEF n, k
  <2> QED
    BY <2>6, <2>7
<1>7. window <= window /\ window \in Nat /\ w \in Nat /\ MaxCalls \in Nat
  BY <1>1, LimitAssumption DEF Windows
<1>8. LimitTypeOK'
  <2>1. \A u \in Visits : Consuming(u)' => gate'[u].ids # << >> /\ gate'[u].window <= window
    BY <1>4, <1>5, <1>7 DEF LimitInv, LimitTypeOK, Consuming
  <2>2. gate' \in [Visits -> GateStates]
    BY <1>4, <1>5 DEF LimitInv, LimitTypeOK
  <2> QED
    BY <1>1, <1>3, <1>6, <2>1, <2>2 DEF LimitTypeOK
<1>9. WindowRule'
  <2> SUFFICES ASSUME NEW j \in Identifiers, NEW x \in Windows
               PROVE  /\ onTime'[j][x] <= MaxCalls
                      /\ x >= window => onTime'[j][x] <= bucket'[j][x] /\ overtime'[j][x] = 0
                      /\ x > window => onTime'[j][x] = 0
    BY <1>3 DEF WindowRule
  <2>1. /\ onTime[j][x] <= MaxCalls
        /\ x >= window => onTime[j][x] <= bucket[j][x] /\ overtime[j][x] = 0
        /\ x > window => onTime[j][x] = 0
    BY DEF LimitInv, WindowRule
  <2>2. x \in Nat
    BY LimitAssumption DEF Windows
  <2>3. CASE j = i /\ x = w
    <3>1. allowed => bucket[j][x] + 1 <= MaxCalls /\ bucket'[j][x] = bucket[j][x] + 1
      BY <1>6, <1>7, <1>11, <2>3
    <3>2. bucket[j][x] <= bucket'[j][x] /\ x <= window
      BY <1>1, <1>6, <2>3
    <3> QED
      BY <1>6, <1>7, <2>1, <2>2, <2>3, <3>1, <3>2
  <2>4. CASE ~(j = i /\ x = w)
    BY <1>6, <2>1, <2>4
  <2> QED
    BY <2>3, <2>4
<1>10. LateRule'
  <2> SUFFICES ASSUME NEW j \in Identifiers, NEW x \in Windows, x < window
               PROVE  overtime'[j][x] + Cardinality(InWindow(x)') <= Cardinality(Visits)
    BY <1>3 DEF LateRule
  <2>1. InWindow(x)' \subseteq InWindow(x) \ {v} /\ InWindow(x) \subseteq Visits
    <3>1. x # window
      BY LimitAssumption, <1>1 DEF Windows
    <3>2. ~(Consuming(v)' /\ gate'[v].window = x)
      BY <1>4, <1>5, <3>1 DEF Consuming
    <3>3. \A u \in Visits \ {v} : gate'[u] = gate[u]
      BY <1>4
    <3> QED
      BY <3>2, <3>3 DEF InWindow, Consuming
  <2>2. overtime[j][x] + Cardinality(InWindow(x)) <= Cardinality(Visits)
    BY DEF LimitInv, LateRule
  <2>3. CASE x = w
    <3>1. v \in InWindow(x)
      BY <1>1, <1>12, <2>3 DEF InWindow, Consuming
    <3>2. /\ Cardinality(InWindow(x) \ {v}) = Cardinality(InWindow(x)) - 1
          /\ Cardinality(InWindow(x)') <= Cardinality(InWindow(x) \ {v})
          /\ Cardinality(InWindow(x)') \in Nat /\ Cardinality(InWindow(x)) \in Nat
          /\ Cardinality(Visits) \in Nat
      BY <2>1, <3>1, VisitsCounted, FS_RemoveElement
    <3> QED
      BY <1>6, <2>2, <3>2
  <2>4. CASE x # w
    <3>1. /\ Cardinality(InWindow(x)') <= Cardinality(InWindow(x))
          /\ Cardinality(InWindow(x)') \in Nat /\ Cardinality(InWindow(x)) \in Nat
          /\ Cardinality(Visits) \in Nat
      BY <2>1, VisitsCounted
    <3> QED
      BY <1>6, <2>2, <2>4, <3>1
  <2> QED
    BY <2>3, <2>4
<1> QED
  BY <1>8, <1>9, <1>10 DEF LimitInv

\* What is done behind the gate leaves it alone, lets visits in, or takes them away.
LEMMA LimitStep == LimitInv /\ [ContentNext]_<<contentVars, limitVars>> => LimitInv'
<1> SUFFICES ASSUME LimitInv, [ContentNext]_<<contentVars, limitVars>>
             PROVE  LimitInv'
  OBVIOUS
<1>1. CASE UNCHANGED limitVars
  BY <1>1, LeavingKeeps DEF limitVars, LimitInv, LimitTypeOK, Consuming
<1>2. CASE AtGate
  BY <1>2, NextWindowKeeps, PurgeKeeps, CountKeeps DEF AtGate
<1>3. ASSUME UNCHANGED <<window, bucket, onTime, overtime>>, gate' \in [Visits -> GateStates],
             \A v \in Visits : gate'[v] = gate[v] \/ ~Consuming(v)'
      PROVE  LimitInv'
  BY <1>3, LeavingKeeps DEF LimitInv, LimitTypeOK, Consuming
<1>4. Outside \in GateStates /\ Outside.at = "outside"
  BY LimitAssumption DEF Outside, GateStates, Windows
<1>5. ASSUME NEW v \in Visits, UNCHANGED <<window, bucket, onTime, overtime>>,
             gate' = [gate EXCEPT ![v] = Outside]
      PROVE  LimitInv'
  BY <1>3, <1>4, <1>5 DEF LimitInv, LimitTypeOK, Consuming
<1>6. ASSUME NEW v \in Visits, Contact(v)
      PROVE  LimitInv'
  <2>1. ASSUME NEW s \in Servers, NEW m \in Messages, NEW i \in Identities,
               NEW a \in Addresses \cup {NoAddress}, CallContact(v, s, m, i, a)
        PROVE  LimitInv'
    <3> DEFINE ids == IF a = NoAddress THEN <<i>> ELSE <<i, a>>
               x == [at |-> "purge", window |-> window, allowed |-> TRUE, ids |-> ids]
    <3>1. gate' = [gate EXCEPT ![v] = x] /\ UNCHANGED <<window, bucket, onTime, overtime>>
      BY <2>1 DEF CallContact, CallProtected
    <3>2. ids \in Seq(Identifiers) /\ ids # << >>
      <4>1. i \in Identifiers /\ (a # NoAddress => a \in Identifiers)
        BY DEF Identifiers
      <4>2. <<i>> \in Seq(Identifiers) /\ <<i>> # << >>
        BY <4>1
      <4>3. a # NoAddress => <<i, a>> \in Seq(Identifiers) /\ <<i, a>> # << >>
        BY <4>1
      <4> QED
        BY <4>2, <4>3
    <3>3. x \in GateStates /\ x.window = window /\ x.ids # << >>
      BY <3>2 DEF GateStates, LimitInv, LimitTypeOK
    <3>4. window <= window
      BY LimitAssumption DEF LimitInv, LimitTypeOK, Windows
    <3>5. \A u \in Visits : gate'[u] = IF u = v THEN x ELSE gate[u]
      BY <3>1 DEF LimitInv, LimitTypeOK
    <3>6. gate' \in [Visits -> GateStates]
      BY <3>1, <3>3 DEF LimitInv, LimitTypeOK
    <3> HIDE DEF x
    <3>7. \A u \in Visits : Consuming(u)' => gate'[u].ids # << >> /\ gate'[u].window <= window
      BY <3>3, <3>4, <3>5 DEF LimitInv, LimitTypeOK, Consuming
    <3> QED
      BY <3>1, <3>3, <3>5, <3>6, <3>7, LeavingKeeps
  <2>2. CASE Admit(v) \/ TurnAway(v)
    BY <1>5, <2>2 DEF Admit, TurnAway, Turned, LeaveGate
  <2> QED
    BY <1>6, <2>1, <2>2 DEF Contact
<1>7. ASSUME NEW v \in Visits, DieAtTask(v)
      PROVE  LimitInv'
  BY <1>1, <1>5, <1>7 DEF DieAtTask, DieAtGate
<1>8. ASSUME NEW s \in Servers, Restart(s)
      PROVE  LimitInv'
  BY <1>3, <1>4, <1>8 DEF Restart, LimitInv, LimitTypeOK, Consuming
<1>9. CASE UNCHANGED <<contentVars, limitVars>>
  BY <1>1, <1>9
<1> QED
  BY <1>1, <1>2, <1>6, <1>7, <1>8, <1>9 DEF ContentNext, Edit

\* However many visitors are counted at once: a window lets an identifier through
\* as often as its limit says, and afterwards at most the visits on their way.
THEOREM WindowsAreLimited == ContentSpec => []RateLimited
  BY LimitInitially, LimitStep, LimitBounds, PTL DEF ContentSpec, ContentInit

-----------------------------------------------------------------------------
(* ContentStore *)

TaskStates ==
  [at : {"rest", "gate", "ensure", "read", "sections", "settings", "commit", "answer"},
   op : {"none", "save", "create", "settings", "contact"}, server : Servers \cup {NoPage},
   page : Pages \cup {NoPage}, row : PageRows \cup {NoPage}, read : Nat \cup {-1},
   open : BOOLEAN, msg : Messages \cup {NoPage}]

Writing(v) == task[v].op \in {"save", "create"}
Pending(v) == Writing(v) /\ task[v].at \in {"ensure", "read", "sections", "commit"}
HasRead(v) == task[v].op = "save" /\ task[v].at \in {"sections", "commit"}

ContentTypeOK ==
  /\ page \in [Pages -> PageRows \cup {NoPage}] /\ versions \in [Pages -> SUBSET PageRows]
  /\ messages \subseteq Messages /\ task \in [Visits -> TaskStates] /\ edits \in Nat
  /\ saved \subseteq Pages \X Nat /\ first \in [Pages -> Nat \cup {-1}]

\* Which operation is at which statement.
TaskRule ==
  \A v \in Visits :
    /\ Writing(v) => task[v].page \in Pages /\ task[v].row \in PageRows
    /\ task[v].op = "contact" => task[v].msg \in Messages
    /\ task[v].at # "rest" => task[v].op # "none"
    /\ task[v].at \in {"gate", "settings"} => task[v].op = "contact"
    /\ task[v].at = "read" => task[v].op \in {"save", "contact"}
    /\ task[v].at = "sections" => task[v].op = "save"
    /\ task[v].at = "answer" => task[v].op # "settings"

\* A write that is not stored yet has a number that no page and no reader knows.
EditRule ==
  /\ \A p \in Pages : page[p] # NoPage =>
       /\ page[p].edit <= edits
       /\ page[p].edit = 0 => p = DefaultPage /\ page[p] = SeedRow
  /\ \A v \in Visits : task[v].read <= edits
  /\ \A v \in Visits : Pending(v) =>
       /\ task[v].row.edit \in 1..edits
       /\ \A u \in Visits : /\ task[u].read # task[v].row.edit
                            /\ Pending(u) /\ u # v => task[u].row.edit # task[v].row.edit
       /\ \A p \in Pages : page[p] # NoPage => page[p].edit # task[v].row.edit

Dated(row) == row.state = "published" => row.published # -1

\* What a save has made of the row it read, whether that row is still there or was
\* the seed and comes back.
ReadRule ==
  \A v \in Visits :
    LET p == task[v].page IN
    /\ HasRead(v) =>
         /\ task[v].read # -1 /\ Dated(task[v].row)
         /\ page[p] # NoPage /\ page[p].edit = task[v].read
            => task[v].row.published = Published(task[v].row, page[p])
         /\ task[v].read = 0
            => p = DefaultPage /\ task[v].row.published = Published(task[v].row, SeedRow)
    /\ task[v].op = "create" => task[v].read = -1 /\ Dated(task[v].row)

\* What is not there has no version, no date and no messages.
EmptyRule ==
  /\ \A p \in Pages : page[p] = NoPage => versions[p] = {} /\ first[p] = -1
  /\ Empty => messages = {}

\* What is about to be acknowledged was stored.
AnswerRule ==
  \A v \in Visits : task[v].at = "answer" =>
    /\ Writing(v) => \/ <<task[v].page, task[v].row.edit>> \in wiped
                     \/ \E row \in versions[task[v].page] : row.edit = task[v].row.edit
    /\ task[v].op = "contact" => task[v].msg \in messages \cup wiped

MessagesKept == sent \subseteq messages \cup wiped

ContentInv ==
  /\ ContentTypeOK /\ TaskRule /\ EditRule /\ ReadRule /\ EmptyRule /\ AnswerRule
  /\ PagesFollowEdits /\ MessagesKept

LEMMA RestingTyped ==
  /\ Resting \in TaskStates /\ SeedRow \in PageRows
  /\ Seeded \in [Pages -> PageRows \cup {NoPage}] /\ NoPage \notin PageRows
  /\ \A p \in Pages : Seeded[p] = IF p = DefaultPage THEN SeedRow ELSE NoPage
<1>1. SeedRow \in PageRows
  BY ContentAssumption DEF SeedRow, PageRows, Slugs, States
<1>2. Resting \in TaskStates
  BY DEF Resting, TaskStates
<1> QED
  BY <1>1, <1>2, ContentAssumption DEF Seeded

LEMMA ContentInitially == ContentInit => ContentInv
<1> SUFFICES ASSUME ContentInit PROVE ContentInv
  OBVIOUS
<1>1. /\ \A v \in Visits : task[v] = Resting
      /\ \A p \in Pages : page[p] = NoPage /\ versions[p] = {} /\ first[p] = -1
      /\ messages = {} /\ saved = {} /\ sent = {} /\ edits = 0
  BY DEF ContentInit
<1>2. ContentTypeOK
  BY RestingTyped DEF ContentInit, ContentTypeOK
<1>3. TaskRule /\ EditRule /\ ReadRule /\ AnswerRule
  BY <1>1 DEF TaskRule, EditRule, ReadRule, AnswerRule, Writing, Pending, HasRead, Resting
<1> QED
  BY <1>1, <1>2, <1>3 DEF ContentInv, EmptyRule, PagesFollowEdits, MessagesKept

-----------------------------------------------------------------------------
(* Steps that leave the rows alone, or seed them *)

\* Where a request goes on without having read or stored a row.
Onward(v, s) ==
  \/ task[v].at = "gate" /\ s = "ensure"
  \/ task[v].at = "ensure" /\ s = IF task[v].op \in {"create", "settings"} THEN "commit" ELSE "read"
  \/ task[v].at = "read" /\ task[v].op = "contact" /\ s = "settings"
  \/ task[v].at \in {"sections", "settings"} /\ s = "commit"

Quiet ==
  /\ task' = [v \in Visits |-> task'[v]]
  /\ \A v \in Visits :
       \/ task'[v] = Resting \/ task'[v] = task[v]
       \/ \E s \in {"ensure", "read", "settings", "commit"} :
            Onward(v, s) /\ task'[v] = [task[v] EXCEPT !.at = s]

LEMMA QuietTasks ==
  ASSUME ContentTypeOK, TaskRule, Quiet
  PROVE  /\ task' \in [Visits -> TaskStates] /\ TaskRule'
         /\ \A v \in Visits :
              /\ Pending(v)' => Pending(v) /\ task'[v].row = task[v].row
              /\ HasRead(v)' => /\ HasRead(v) /\ task'[v].row = task[v].row
                                /\ task'[v].page = task[v].page /\ task'[v].read = task[v].read
              /\ task'[v].op = "create"
                 => task[v].op = "create" /\ task'[v].row = task[v].row /\ task'[v].read = task[v].read
              /\ task'[v].read \in {-1, task[v].read}
              /\ task'[v].at = "answer" => task'[v] = task[v]
<1>1. ASSUME NEW v \in Visits, NEW s \in {"ensure", "read", "settings", "commit"}, Onward(v, s),
             task'[v] = [task[v] EXCEPT !.at = s]
      PROVE  /\ task'[v] \in TaskStates /\ task'[v].at = s /\ task'[v].op = task[v].op
             /\ task'[v].row = task[v].row /\ task'[v].page = task[v].page
             /\ task'[v].read = task[v].read /\ task'[v].msg = task[v].msg
  BY <1>1 DEF ContentTypeOK, TaskStates
<1>2. \A v \in Visits : task'[v] \in TaskStates
  BY <1>1, RestingTyped DEF Quiet, ContentTypeOK
<1>3. task' \in [Visits -> TaskStates]
  BY <1>2 DEF Quiet
<1>4. \A v \in Visits : task[v].op \in {"none", "save", "create", "settings", "contact"}
  BY DEF ContentTypeOK, TaskStates
<1>5. ASSUME NEW v \in Visits
      PROVE  /\ TaskRule!(v)'
             /\ Pending(v)' => Pending(v) /\ task'[v].row = task[v].row
             /\ HasRead(v)' => /\ HasRead(v) /\ task'[v].row = task[v].row
                               /\ task'[v].page = task[v].page /\ task'[v].read = task[v].read
             /\ task'[v].op = "create"
                => task[v].op = "create" /\ task'[v].row = task[v].row /\ task'[v].read = task[v].read
             /\ task'[v].read \in {-1, task[v].read}
             /\ task'[v].at = "answer" => task'[v] = task[v]
  <2>1. CASE task'[v] = Resting
    BY <2>1 DEF Resting, Writing, Pending, HasRead
  <2>2. CASE task'[v] = task[v]
    BY <2>2 DEF TaskRule, Writing, Pending, HasRead
  <2>3. ASSUME NEW s \in {"ensure", "read", "settings", "commit"}, Onward(v, s),
               task'[v] = [task[v] EXCEPT !.at = s]
        PROVE  <1>5!2
    <3>1. TaskRule!(v)
      BY DEF TaskRule
    <3>2. /\ task'[v].at = s /\ task'[v].op = task[v].op /\ task'[v].row = task[v].row
          /\ task'[v].page = task[v].page /\ task'[v].read = task[v].read /\ task'[v].msg = task[v].msg
      BY <1>1, <2>3
    <3>3. Onward(v, s) /\ s \in {"ensure", "read", "settings", "commit"}
      BY <2>3
    <3>4. Writing(v)' <=> Writing(v)
      BY <3>2 DEF Writing
    <3>5. /\ s = "read" => task[v].op \in {"save", "contact"}
          /\ s = "settings" => task[v].op = "contact"
          /\ task[v].at # "rest" /\ s \notin {"gate", "sections", "answer"}
      BY <1>4, <3>1, <3>3 DEF Onward
    <3>6. TaskRule!(v)'
      BY <3>1, <3>2, <3>4, <3>5
    <3>7. Pending(v)' => Pending(v)
      BY <3>1, <3>2, <3>3, <3>4 DEF Onward, Pending, Writing
    <3>8. HasRead(v)' => HasRead(v)
      BY <3>1, <3>2, <3>3 DEF Onward, HasRead
    <3> QED
      BY <3>2, <3>3, <3>6, <3>7, <3>8
  <2> QED
    BY <2>1, <2>2, <2>3 DEF Quiet
<1> QED
  BY <1>3, <1>5 DEF TaskRule

LEMMA QuietKeeps ==
  ASSUME ContentInv, Quiet,
         UNCHANGED <<page, versions, messages, edits, sent, saved, wiped, first, redated>>
  PROVE  ContentInv'
<1>1. ContentTypeOK' /\ TaskRule'
  BY QuietTasks DEF ContentInv, ContentTypeOK
<1>2. EditRule'
  BY QuietTasks DEF ContentInv, EditRule, ContentTypeOK
<1>3. ReadRule'
  BY QuietTasks DEF ContentInv, ReadRule, Dated, Published
<1>4. EmptyRule' /\ PagesFollowEdits' /\ MessagesKept'
  BY DEF ContentInv, EmptyRule, PagesFollowEdits, MessagesKept, Empty
<1>5. AnswerRule'
  BY QuietTasks DEF ContentInv, AnswerRule, Writing
<1> QED
  BY <1>1, <1>2, <1>3, <1>4, <1>5 DEF ContentInv

\* The versions after a write of all pages.
LEMMA VersionsWritten ==
  ASSUME NEW new \in [Pages -> PageRows \cup {NoPage}],
         NEW before \in [Pages -> PageRows \cup {NoPage}], ContentTypeOK
  PROVE  /\ Versioned(new, before) \in [Pages -> SUBSET PageRows]
         /\ \A p \in Pages :
              /\ new[p] = NoPage => Versioned(new, before)[p] = {}
              /\ new[p] # NoPage => versions[p] \subseteq Versioned(new, before)[p]
              /\ new[p] \notin {NoPage, before[p]} => new[p] \in Versioned(new, before)[p]
<1> DEFINE row(p) == {r \in versions[p] : new[p] # NoPage} \cup ({new[p]} \ {NoPage, before[p]})
<1>1. Versioned(new, before) = [p \in Pages |-> row(p)]
  BY DEF Versioned
<1>2. \A p \in Pages : versions[p] \subseteq PageRows /\ new[p] \in PageRows \cup {NoPage}
  BY DEF ContentTypeOK
<1>3. \A p \in Pages : row(p) \subseteq PageRows
  BY <1>2
<1>4. \A p \in Pages :
        /\ new[p] = NoPage => row(p) = {}
        /\ new[p] # NoPage => versions[p] \subseteq row(p)
        /\ new[p] \notin {NoPage, before[p]} => new[p] \in row(p)
  OBVIOUS
<1> HIDE DEF row
<1> QED
  BY <1>1, <1>3, <1>4

\* What a reset deletes is known to be deleted.
LEMMA Deleted ==
  ASSUME NEW p \in Pages, NEW row \in versions[p]
  PROVE  <<p, row.edit>> \in Written
  BY DEF Written

\* The defaults take the place of what there is: of nothing, or in a reset.
LEMMA SeedKeeps ==
  ASSUME ContentInv, Quiet, NEW before, UNCHANGED <<edits, sent, saved>>,
         page' = Seeded, versions' = Versioned(Seeded, before), messages' = {},
         first' = Dates(Seeded), redated' = {},
         \/ Empty /\ before = [p \in Pages |-> NoPage] /\ wiped' = wiped
         \/ before = page /\ wiped' = wiped \cup messages \cup Written
  PROVE  ContentInv'
<1>1. before \in [Pages -> PageRows \cup {NoPage}]
      /\ \A p \in Pages : before[p] = SeedRow => before[p] \in versions[p]
  BY RestingTyped DEF ContentInv, ContentTypeOK, PagesFollowEdits
<1>2. /\ versions' \in [Pages -> SUBSET PageRows]
      /\ \A p \in Pages : p # DefaultPage => versions'[p] = {}
      /\ SeedRow \in versions'[DefaultPage]
  BY <1>1, VersionsWritten, RestingTyped, ContentAssumption DEF ContentInv
<1>3. /\ \A p \in Pages : /\ page'[p] = IF p = DefaultPage THEN SeedRow ELSE NoPage
                          /\ first'[p] = IF p = DefaultPage THEN 0 ELSE -1
      /\ first' \in [Pages -> Nat \cup {-1}]
  BY RestingTyped DEF Dates, SeedRow
<1>4. ContentTypeOK' /\ TaskRule'
  BY <1>2, <1>3, QuietTasks, RestingTyped DEF ContentInv, ContentTypeOK
<1>5. EditRule'
  <2>1. SeedRow.edit = 0 /\ edits \in Nat
    BY DEF SeedRow, ContentInv, ContentTypeOK
  <2> QED
    BY <1>3, <2>1, QuietTasks, RestingTyped DEF ContentInv, EditRule
<1>6. ReadRule'
  <2>1. \A v \in Visits :
          /\ HasRead(v)'
          /\ page'[task'[v].page] # NoPage /\ page'[task'[v].page].edit = task'[v].read
          => task'[v].page = DefaultPage \/ task'[v].page \notin Pages
    BY <1>3
  <2>2. \A v \in Visits : HasRead(v) => task[v].page \in Pages
    BY DEF ContentInv, TaskRule, HasRead, Writing
  <2>3. SeedRow.edit = 0
    BY DEF SeedRow
  <2> QED
    BY <1>3, <2>1, <2>2, <2>3, QuietTasks DEF ContentInv, ReadRule, Dated, Published
<1>7. EmptyRule'
  BY <1>2, <1>3, RestingTyped DEF EmptyRule
<1>8. \A p \in Pages, e \in Nat :
        (\E row \in versions[p] : row.edit = e) \/ <<p, e>> \in wiped => <<p, e>> \in wiped'
  BY Deleted DEF ContentInv, EmptyRule, Empty
<1>9. AnswerRule'
  <2> SUFFICES ASSUME NEW v \in Visits, task'[v].at = "answer"
               PROVE  AnswerRule!(v)!2'
    BY DEF AnswerRule
  <2>1. task'[v] = task[v] /\ task[v].at = "answer"
    BY QuietTasks DEF ContentInv
  <2>2. Writing(v) => task[v].page \in Pages /\ task[v].row.edit \in Nat
    BY DEF ContentInv, TaskRule, PageRows
  <2>3. Writing(v)' => <<task[v].page, task[v].row.edit>> \in wiped'
    BY <1>8, <2>1, <2>2 DEF ContentInv, AnswerRule, Writing
  <2>4. task[v].op = "contact" => task[v].msg \in wiped'
    BY <2>1 DEF ContentInv, AnswerRule, EmptyRule
  <2> QED
    BY <2>1, <2>3, <2>4
<1>10. PagesFollowEdits'
  <2>1. \A w \in saved : /\ w[1] \in Pages /\ w[2] \in Nat /\ w = <<w[1], w[2]>>
                         /\ w \in wiped \/ \E row \in versions[w[1]] : row.edit = w[2]
    BY DEF ContentInv, ContentTypeOK, PagesFollowEdits
  <2>2. saved' \ wiped' = {}
    BY <1>8, <2>1
  <2>3. SeedRow.published = 0
    BY DEF SeedRow
  <2> QED
    BY <1>2, <1>3, <2>2, <2>3 DEF PagesFollowEdits
<1>11. MessagesKept'
  BY DEF ContentInv, MessagesKept, EmptyRule
<1> QED
  BY <1>4, <1>5, <1>6, <1>7, <1>9, <1>10, <1>11 DEF ContentInv

-----------------------------------------------------------------------------
(* The calls, and what a save reads *)

LEMMA CallsKeep ==
  ASSUME ContentInv, NEW v \in Visits, NEW x \in TaskStates, Resume(v, x),
         task[v] = Resting \/ x.at = "sections",
         UNCHANGED <<page, versions, messages, sent, saved, wiped, first, redated>>,
         edits' \in {edits, edits + 1},
         x.op \in {"save", "create", "settings", "contact"},
         x.op \in {"save", "create"} => x.page \in Pages /\ x.row \in PageRows,
         x.op = "contact" => x.msg \in Messages,
         \/ x.at = "ensure" /\ x.read = -1 /\ x.op \in {"save", "create"}
            /\ edits' = edits + 1 /\ x.row.edit = edits + 1
            /\ (x.op = "create" => Dated(x.row))
         \/ x.at = "ensure" /\ x.read = -1 /\ x.op = "settings"
         \/ x.at = "gate" /\ x.read = -1 /\ x.op = "contact"
         \/ /\ x.at = "sections" /\ x.op = "save" /\ Pending(v) /\ Dated(x.row)
            /\ x.row.edit = task[v].row.edit /\ page[x.page] # NoPage
            /\ x.read = page[x.page].edit /\ x.row.published = Published(x.row, page[x.page])
  PROVE  ContentInv'
<1>1. \A u \in Visits : task'[u] = IF u = v THEN x ELSE task[u]
  BY DEF Resume, ContentInv, ContentTypeOK
<1>2. ContentTypeOK'
  BY DEF Resume, ContentInv, ContentTypeOK
<1>3. TaskRule'
  BY <1>1 DEF ContentInv, TaskRule, Writing
<1>4. EditRule'
  <2>1. /\ edits \in Nat /\ edits' \in Nat /\ edits <= edits'
        /\ \A q \in Pages : page[q] # NoPage => page[q].edit \in Nat /\ page[q].edit <= edits
        /\ \A u \in Visits : task[u].read \in Int /\ task[u].read <= edits
    BY DEF ContentInv, ContentTypeOK, EditRule, PageRows, TaskStates
  <2>2. \A u \in Visits : Pending(u) =>
          /\ task[u].row.edit \in 1..edits
          /\ \A w \in Visits : /\ task[w].read # task[u].row.edit
                               /\ Pending(w) /\ w # u => task[w].row.edit # task[u].row.edit
          /\ \A q \in Pages : page[q] # NoPage => page[q].edit # task[u].row.edit
    BY DEF ContentInv, EditRule
  <2>3. \A u \in Visits : u # v => (Pending(u)' <=> Pending(u)) /\ task'[u] = task[u]
    BY <1>1 DEF Pending, Writing
  <2>4. CASE x.at # "sections" /\ x.op \in {"save", "create"}
    <3>1. x.read = -1 /\ x.row.edit = edits + 1 /\ edits' = edits + 1
      BY <2>4
    <3> QED
      BY <1>1, <2>1, <2>2, <2>3, <3>1 DEF EditRule, ContentInv
  <2>5. CASE x.at # "sections" /\ x.op \notin {"save", "create"}
    <3>1. x.read = -1 /\ ~Pending(v)'
      BY <1>1, <2>5 DEF Pending, Writing
    <3> QED
      BY <1>1, <2>1, <2>2, <2>3, <3>1 DEF EditRule, ContentInv
  <2>6. CASE x.at = "sections"
    <3>1. /\ Pending(v) /\ x.row.edit = task[v].row.edit /\ x.page \in Pages /\ page[x.page] # NoPage
          /\ x.read = page[x.page].edit
      BY <2>6
    <3> QED
      BY <1>1, <2>1, <2>2, <2>3, <3>1 DEF EditRule, ContentInv
  <2> QED
    BY <2>4, <2>5, <2>6
<1>5. ReadRule'
  <2> SUFFICES ASSUME NEW u \in Visits
               PROVE  ReadRule!(u)'
    BY DEF ReadRule
  <2>1. CASE u # v
    BY <1>1, <2>1 DEF ContentInv, ReadRule, HasRead, Published, Dated
  <2>2. CASE u = v /\ x.at # "sections"
    BY <1>1, <2>2 DEF HasRead, Dated
  <2>3. CASE u = v /\ x.at = "sections"
    <3>1. /\ x.op = "save" /\ Dated(x.row) /\ page[x.page] # NoPage /\ x.page \in Pages
          /\ x.read = page[x.page].edit /\ x.row.published = Published(x.row, page[x.page])
      BY <2>3
    <3>2. /\ page[x.page].edit \in Nat
          /\ page[x.page].edit = 0 => x.page = DefaultPage /\ page[x.page] = SeedRow
      BY <3>1 DEF ContentInv, ContentTypeOK, EditRule, PageRows
    <3> QED
      BY <1>1, <2>3, <3>1, <3>2 DEF HasRead, Dated, Published
  <2> QED
    BY <2>1, <2>2, <2>3
<1>6. EmptyRule' /\ PagesFollowEdits' /\ MessagesKept'
  BY DEF ContentInv, EmptyRule, PagesFollowEdits, MessagesKept, Empty
<1>7. AnswerRule'
  BY <1>1 DEF ContentInv, AnswerRule, Writing
<1> QED
  BY <1>2, <1>3, <1>4, <1>5, <1>6, <1>7 DEF ContentInv

LEMMA EditKeeps ==
  ASSUME ContentInv, NEW v \in Visits, Edit(v)
  PROVE  ContentInv'
<1>1. Resting.at = "rest" /\ Resting.read = -1 /\ edits \in Nat
  BY DEF Resting, ContentInv, ContentTypeOK
<1>2. ASSUME NEW s \in Servers, NEW p \in Pages, NEW slug \in Slugs, NEW st \in States,
             CallSave(v, s, p, slug, st)
      PROVE  ContentInv'
  <2> DEFINE row == [edit |-> edits + 1, slug |-> slug, state |-> st, published |-> -1]
             x == [Resting EXCEPT !.at = "ensure", !.op = "save", !.server = s, !.page = p,
                     !.row = row]
  <2>1. row \in PageRows /\ row.edit = edits + 1
    BY <1>1 DEF PageRows
  <2> HIDE DEF row
  <2>2. /\ x \in TaskStates /\ x.at = "ensure" /\ x.read = -1 /\ x.op = "save" /\ x.page = p
        /\ x.row = row
    BY <2>1 DEF Resting, TaskStates
  <2>3. Resume(v, x) /\ task[v] = Resting /\ edits' = edits + 1
    BY <1>2 DEF CallSave, NewEdit, row
  <2> HIDE DEF x
  <2> QED
    BY <2>1, <2>2, <2>3, CallsKeep DEF Edit, contentRows, contentHistory
<1>3. ASSUME NEW s \in Servers, NEW p \in Pages, NEW st \in States, CallCreate(v, s, p, st)
      PROVE  ContentInv'
  <2> DEFINE date == IF st = "published" THEN edits + 1 ELSE -1
             row == [edit |-> edits + 1, slug |-> SlugOf[p], state |-> st, published |-> date]
             x == [Resting EXCEPT !.at = "ensure", !.op = "create", !.server = s, !.page = p,
                     !.row = row]
  <2>1. row \in PageRows /\ row.edit = edits + 1 /\ Dated(row)
    BY <1>1 DEF PageRows, Slugs, Dated
  <2> HIDE DEF row
  <2>2. /\ x \in TaskStates /\ x.at = "ensure" /\ x.read = -1 /\ x.op = "create" /\ x.page = p
        /\ x.row = row
    BY <2>1 DEF Resting, TaskStates
  <2>3. Resume(v, x) /\ task[v] = Resting /\ edits' = edits + 1
    BY <1>3 DEF CallCreate, NewEdit, row
  <2> HIDE DEF x
  <2> QED
    BY <2>1, <2>2, <2>3, CallsKeep DEF Edit, contentRows, contentHistory
<1>4. ASSUME NEW s \in Servers, NEW o \in BOOLEAN, CallSettings(v, s, o)
      PROVE  ContentInv'
  <2> DEFINE x == [Resting EXCEPT !.at = "ensure", !.op = "settings", !.server = s, !.open = o]
  <2>1. x \in TaskStates /\ x.at = "ensure" /\ x.read = -1 /\ x.op = "settings"
    BY DEF Resting, TaskStates
  <2>2. Resume(v, x) /\ task[v] = Resting /\ edits' = edits
    BY <1>4 DEF CallSettings
  <2> HIDE DEF x
  <2> QED
    BY <2>1, <2>2, CallsKeep DEF Edit, contentRows, contentHistory
<1> QED
  BY <1>2, <1>3, <1>4 DEF Edit

\* A request that ends or goes on is a quiet step.
LEMMA OneTask ==
  ASSUME ContentTypeOK, NEW v \in Visits, NEW x, Resume(v, x),
         x = Resting \/ \E s \in {"ensure", "read", "settings", "commit"} :
                          Onward(v, s) /\ x = [task[v] EXCEPT !.at = s]
  PROVE  Quiet
<1>1. \A u \in Visits : task'[u] = IF u = v THEN x ELSE task[u]
  BY DEF Resume, ContentTypeOK
<1>2. task' = [u \in Visits |-> task'[u]]
  BY DEF Resume, ContentTypeOK
<1> QED
  BY <1>1, <1>2 DEF Quiet

LEMMA ContactKeeps ==
  ASSUME ContentInv, NEW v \in Visits, Contact(v)
  PROVE  ContentInv'
<1>1. ASSUME NEW s \in Servers, NEW m \in Messages, NEW i \in Identities,
             NEW a \in Addresses \cup {NoAddress}, CallContact(v, s, m, i, a)
      PROVE  ContentInv'
  <2> DEFINE x == [Resting EXCEPT !.at = "gate", !.op = "contact", !.server = s, !.msg = m]
  <2>1. x \in TaskStates /\ x.at = "gate" /\ x.read = -1 /\ x.op = "contact" /\ x.msg = m
    BY DEF Resting, TaskStates
  <2>2. Resume(v, x) /\ task[v] = Resting
    BY <1>1 DEF CallContact
  <2> HIDE DEF x
  <2> QED
    BY <2>1, <2>2, CallsKeep DEF Contact, contentRows, contentHistory
<1>2. CASE Admit(v)
  <2>1. Quiet
    BY <1>2, OneTask DEF Admit, TaskAt, ResumeAt, Onward, ContentInv
  <2> QED
    BY <2>1, QuietKeeps DEF Contact, contentRows, contentHistory
<1>3. CASE TurnAway(v)
  <2>1. Quiet
    BY <1>3, OneTask DEF TurnAway, Finish, ContentInv
  <2> QED
    BY <2>1, QuietKeeps DEF Contact, contentRows, contentHistory
<1> QED
  BY <1>1, <1>2, <1>3 DEF Contact

LEMMA ReadPagesKeeps ==
  ASSUME ContentInv, NEW v \in Visits, ReadPages(v)
  PROVE  ContentInv'
<1>1. task[v].at = "read" /\ task[v].op \in {"save", "contact"} /\ task[v] \in TaskStates
  BY DEF ReadPages, TaskAt, ContentInv, TaskRule, ContentTypeOK
<1>2. UNCHANGED <<page, versions, messages, edits, sent, saved, wiped, first, redated>>
  BY DEF ReadPages, contentRows, contentHistory
<1>3. CASE task[v].op = "contact"
  <2>1. Quiet
    BY <1>1, <1>3, OneTask DEF ReadPages, Finish, ResumeAt, Onward, ContentInv
  <2> QED
    BY <1>2, <2>1, QuietKeeps
<1>4. CASE task[v].op = "save" /\ page[task[v].page] = NoPage
  <2>1. Quiet
    BY <1>1, <1>4, OneTask DEF ReadPages, Finish, ContentInv
  <2> QED
    BY <1>2, <2>1, QuietKeeps
<1>5. CASE task[v].op = "save" /\ page[task[v].page] # NoPage
  <2> DEFINE p == task[v].page
             old == page[p]
             row == [task[v].row EXCEPT !.published = Published(task[v].row, old)]
             x == [task[v] EXCEPT !.at = "sections", !.read = old.edit,
                     !.row.published = Published(task[v].row, old)]
  <2>1. p \in Pages /\ task[v].row \in PageRows /\ Pending(v) /\ old \in PageRows
    BY <1>1, <1>5 DEF ContentInv, TaskRule, Writing, Pending, ContentTypeOK
  <2>2. /\ row \in PageRows /\ row.edit = task[v].row.edit /\ Dated(row)
        /\ row.published = Published(row, old)
    BY <2>1 DEF PageRows, Published, Dated
  <2>3. x = [task[v] EXCEPT !.at = "sections", !.read = old.edit, !.row = row]
    BY <1>1, <2>1 DEF TaskStates, PageRows
  <2>4. Resume(v, x)
    BY <1>1, <1>5 DEF ReadPages
  <2>5. old.edit \in Nat
    BY <2>1 DEF PageRows
  <2> HIDE DEF row, old
  <2>6. /\ x \in TaskStates /\ x.at = "sections" /\ x.op = "save" /\ x.page = p /\ x.row = row
        /\ x.read = old.edit
    BY <1>1, <1>5, <2>2, <2>3, <2>5 DEF TaskStates
  <2> HIDE DEF x
  <2> QED
    BY <1>2, <1>5, <2>1, <2>2, <2>4, <2>6, CallsKeep DEF old
<1> QED
  BY <1>1, <1>3, <1>4, <1>5

-----------------------------------------------------------------------------
(* What is stored, answered and reset *)

\* The number of the row is new to every page and to every reader.
LEMMA StorePageKeeps ==
  ASSUME ContentInv, NEW v \in Visits, StorePage(v)
  PROVE  ContentInv'
<1> DEFINE p == task[v].page
           row == task[v].row
           old == page[p]
           new == [page EXCEPT ![p] = row]
           x == [task[v] EXCEPT !.at = "answer"]
<1>1. task[v].at = "commit" /\ Writing(v) /\ Pending(v) /\ ~Duplicate(p, row) /\ task[v] \in TaskStates
  BY DEF StorePage, TaskAt, Writing, Pending, ContentInv, ContentTypeOK
<1>2. p \in Pages /\ row \in PageRows /\ row # NoPage
  BY <1>1, ContentAssumption DEF ContentInv, TaskRule
<1>3. /\ page' = new /\ versions' = Versioned(new, page) /\ Resume(v, x)
      /\ first' = [first EXCEPT ![p] = IF @ = -1 THEN row.published ELSE @]
      /\ redated' = IF Overtaken(v, page[p]) THEN redated \cup {p} ELSE redated
      /\ UNCHANGED <<messages, edits, sent, saved, wiped>>
  BY DEF StorePage, ResumeAt
<1>4. /\ x \in TaskStates /\ x.at = "answer" /\ x.op = task[v].op /\ x.page = p /\ x.row = row
      /\ x.read = task[v].read /\ x.msg = task[v].msg
  BY <1>1 DEF TaskStates
<1>5. row.edit \in Nat /\ row.published \in Nat \cup {-1}
  BY <1>2 DEF PageRows
<1>6. /\ row.edit \in 1..edits
      /\ \A u \in Visits : /\ task[u].read # row.edit
                           /\ Pending(u) /\ u # v => task[u].row.edit # row.edit
      /\ \A q \in Pages : page[q] # NoPage => page[q].edit # row.edit
  BY <1>1 DEF ContentInv, EditRule
<1>7. HasRead(v) \/ task[v].op = "create"
  BY <1>1 DEF HasRead, Writing
<1>8. Dated(row) /\ (task[v].op = "create" => task[v].read = -1)
  BY <1>7 DEF ContentInv, ReadRule
<1>9. HasRead(v) /\ old # NoPage /\ old.edit = task[v].read => row.published = Published(row, old)
  BY DEF ContentInv, ReadRule
<1>10. \A q \in Pages : page[q] # NoPage => page[q].edit \in Nat
  BY DEF ContentInv, ContentTypeOK, PageRows
<1>11. \A u \in Visits : task'[u] = IF u = v THEN x ELSE task[u]
  BY <1>3 DEF Resume, ContentInv, ContentTypeOK
<1>12. new \in [Pages -> PageRows \cup {NoPage}] /\ \A q \in Pages : new[q] = IF q = p THEN row ELSE page[q]
  BY <1>2 DEF ContentInv, ContentTypeOK
<1>13. \A q \in Pages : ~Duplicate(p, row) /\ q # p => page[q] = NoPage \/ page[q].slug # row.slug
  BY DEF Duplicate
<1>14. \A q \in Pages : first'[q] = IF q = p /\ first[q] = -1 THEN row.published ELSE first[q]
  BY <1>2, <1>3 DEF ContentInv, ContentTypeOK
<1> HIDE DEF row, new, x
<1>15. row # old /\ \A q \in Pages : page'[q] = IF q = p THEN row ELSE page[q]
  BY <1>2, <1>3, <1>6, <1>12
<1>16. /\ versions' \in [Pages -> SUBSET PageRows] /\ row \in versions'[p]
       /\ \A q \in Pages : /\ page'[q] = NoPage => versions'[q] = {}
                           /\ versions[q] \subseteq versions'[q]
  <2>1. Versioned(new, page) \in [Pages -> SUBSET PageRows]
        /\ \A q \in Pages :
              /\ new[q] = NoPage => Versioned(new, page)[q] = {}
              /\ new[q] # NoPage => versions[q] \subseteq Versioned(new, page)[q]
              /\ new[q] \notin {NoPage, page[q]} => new[q] \in Versioned(new, page)[q]
    BY <1>12, VersionsWritten DEF ContentInv, ContentTypeOK
  <2>2. \A q \in Pages : new[q] = NoPage => versions[q] = {}
    BY <1>2, <1>12 DEF ContentInv, EmptyRule
  <2>3. new[p] = row /\ row \notin {NoPage, old}
    BY <1>2, <1>12, <1>15
  <2> QED
    BY <1>2, <1>3, <2>1, <2>2, <2>3
<1>17. ContentTypeOK'
  <2>1. first' \in [Pages -> Nat \cup {-1}]
    BY <1>3, <1>5 DEF ContentInv, ContentTypeOK
  <2>2. task' \in [Visits -> TaskStates]
    BY <1>3, <1>4 DEF Resume, ContentInv, ContentTypeOK
  <2> QED
    BY <1>3, <1>12, <1>16, <2>1, <2>2 DEF ContentInv, ContentTypeOK
<1>18. TaskRule'
  <2>1. x.op \notin {"none", "settings", "contact"}
    BY <1>1, <1>4 DEF Writing
  <2>2. TaskRule!(v)'
    BY <1>2, <1>4, <1>11, <2>1 DEF Writing
  <2> QED
    BY <1>11, <2>2 DEF ContentInv, TaskRule, Writing
<1>19. \A u \in Visits : /\ Pending(u)' => Pending(u) /\ u # v /\ task'[u] = task[u]
                         /\ HasRead(u)' => HasRead(u) /\ u # v /\ task'[u] = task[u]
                         /\ task'[u].read = task[u].read
  BY <1>4, <1>11 DEF Pending, HasRead, Writing
<1>20. EditRule'
  BY <1>3, <1>5, <1>6, <1>15, <1>19 DEF ContentInv, EditRule
<1>21. ReadRule'
  <2> SUFFICES ASSUME NEW u \in Visits PROVE ReadRule!(u)'
    BY DEF ReadRule
  <2>1. CASE u = v
    BY <1>4, <1>8, <1>11, <1>19, <2>1 DEF Dated
  <2>2. CASE u # v
    <3>1. task'[u] = task[u] /\ task[u].read # row.edit
      BY <1>6, <1>11, <2>2
    <3>2. HasRead(u)' => task[u].page \in Pages
      BY <1>19 DEF ContentInv, TaskRule, HasRead, Writing
    <3> QED
      BY <1>15, <1>19, <3>1, <3>2 DEF ContentInv, ReadRule, Dated, Published
  <2> QED
    BY <2>1, <2>2
<1>22. EmptyRule'
  BY <1>2, <1>14, <1>15, <1>16 DEF ContentInv, EmptyRule, Empty
<1>23. AnswerRule'
  <2> SUFFICES ASSUME NEW u \in Visits, task'[u].at = "answer" PROVE AnswerRule!(u)!2'
    BY DEF AnswerRule
  <2>1. CASE u = v
    BY <1>1, <1>4, <1>11, <1>16, <2>1 DEF Writing
  <2>2. CASE u # v
    <3>1. task'[u] = task[u] /\ (Writing(u) => task[u].page \in Pages)
      BY <1>11, <2>2 DEF ContentInv, TaskRule
    <3> QED
      BY <1>3, <1>16, <3>1 DEF ContentInv, AnswerRule, Writing
  <2> QED
    BY <2>1, <2>2
<1>24. PagesFollowEdits'
  <2>1. ASSUME NEW q \in Pages, page'[q] # NoPage
        PROVE  /\ page'[q] \in versions'[q]
               /\ \A r \in Pages \ {q} : page'[r] = NoPage \/ page'[r].slug # page'[q].slug
               /\ page'[q].state = "published" => page'[q].published # -1
               /\ page'[q].published # first'[q] => q \in redated'
    <3>1. CASE q # p
      <4>1. page'[q] = page[q] /\ first'[q] = first[q]
        BY <1>14, <1>15, <3>1
      <4> QED
        BY <1>1, <1>3, <1>13, <1>15, <1>16, <2>1, <3>1, <4>1 DEF ContentInv, PagesFollowEdits
    <3>2. CASE q = p
      <4>1. page'[q] = row /\ row \in versions'[q] /\ Dated(row)
        BY <1>2, <1>8, <1>15, <1>16, <3>2
      <4>2. \A r \in Pages \ {q} : page'[r] = NoPage \/ page'[r].slug # row.slug
        BY <1>1, <1>13, <1>15, <3>2
      <4>3. old = NoPage => first[p] = -1
        BY <1>2 DEF ContentInv, EmptyRule
      <4>4. old # NoPage /\ old.published # first[p] => p \in redated
        BY <1>2 DEF ContentInv, PagesFollowEdits
      <4>5. old # NoPage /\ old.edit # task[v].read => p \in redated'
        BY <1>3 DEF Overtaken
      <4>6. old # NoPage /\ old.edit = task[v].read => HasRead(v)
        BY <1>2, <1>7, <1>8, <1>10
      <4>7. row.published # first'[p] => p \in redated'
        BY <1>2, <1>3, <1>9, <1>14, <4>3, <4>4, <4>5, <4>6 DEF Published
      <4> QED
        BY <3>2, <4>1, <4>2, <4>7 DEF Dated
    <3> QED
      BY <3>1, <3>2
  <2>2. \A w \in saved' \ wiped' : \E r \in versions'[w[1]] : r.edit = w[2]
    <3>1. \A w \in saved : w[1] \in Pages
      BY DEF ContentInv, ContentTypeOK
    <3> QED
      BY <1>3, <1>16, <3>1 DEF ContentInv, PagesFollowEdits
  <2> QED
    BY <2>1, <2>2 DEF PagesFollowEdits
<1>25. MessagesKept'
  BY <1>3 DEF ContentInv, MessagesKept
<1> QED
  BY <1>17, <1>18, <1>20, <1>21, <1>22, <1>23, <1>24, <1>25 DEF ContentInv

\* A message is stored while there is a page, and stays until a reset.
LEMMA StoreMessageKeeps ==
  ASSUME ContentInv, NEW v \in Visits, StoreMessage(v)
  PROVE  ContentInv' /\ (messages' \subseteq messages \/ FormOpen)
<1>1. CASE ~StillOpen
  <2>1. Quiet /\ messages' = messages
    BY <1>1, OneTask DEF StoreMessage, Finish, ContentInv
  <2> QED
    BY <2>1, QuietKeeps DEF StoreMessage, contentHistory
<1>2. CASE StillOpen
  <2> DEFINE x == [task[v] EXCEPT !.at = "answer"]
  <2>1. task[v] \in TaskStates /\ task[v].op = "contact" /\ task[v].msg \in Messages
    BY DEF StoreMessage, ContentInv, ContentTypeOK, TaskRule
  <2>2. /\ x \in TaskStates /\ x.at = "answer" /\ x.op = "contact" /\ x.msg = task[v].msg
        /\ x.read = task[v].read
    BY <2>1 DEF TaskStates
  <2>3. /\ Resume(v, x) /\ messages' = messages \cup {task[v].msg} /\ ~Empty
        /\ UNCHANGED <<page, versions, edits, sent, saved, wiped, first, redated>>
    BY <1>2 DEF StoreMessage, ResumeAt, contentHistory, StillOpen, FormOpen, Public, Empty
  <2>4. \A u \in Visits : task'[u] = IF u = v THEN x ELSE task[u]
    BY <2>3 DEF Resume, ContentInv, ContentTypeOK
  <2>5. task' \in [Visits -> TaskStates]
    BY <2>2, <2>3 DEF Resume, ContentInv, ContentTypeOK
  <2> HIDE DEF x
  <2>6. ContentTypeOK'
    BY <2>1, <2>3, <2>5 DEF ContentInv, ContentTypeOK
  <2>7. TaskRule'
    BY <2>1, <2>2, <2>4 DEF ContentInv, TaskRule, Writing
  <2>8. \A u \in Visits : /\ Pending(u)' => Pending(u) /\ task'[u] = task[u]
                          /\ HasRead(u)' => HasRead(u) /\ task'[u] = task[u]
                          /\ task'[u].op = "create" => task'[u] = task[u]
                          /\ task'[u].read = task[u].read
    BY <2>2, <2>4 DEF Pending, HasRead, Writing
  <2>9. EditRule'
    BY <2>3, <2>8 DEF ContentInv, EditRule
  <2>10. ReadRule'
    BY <2>3, <2>8 DEF ContentInv, ReadRule, Dated, Published
  <2>11. EmptyRule' /\ PagesFollowEdits' /\ MessagesKept'
    BY <2>3 DEF ContentInv, EmptyRule, Empty, PagesFollowEdits, MessagesKept
  <2>12. AnswerRule'
    BY <2>2, <2>3, <2>4 DEF ContentInv, AnswerRule, Writing
  <2> QED
    BY <1>2, <2>6, <2>7, <2>9, <2>10, <2>11, <2>12 DEF ContentInv, StillOpen
<1> QED
  BY <1>1, <1>2

LEMMA AnsweredKeeps ==
  ASSUME ContentInv, NEW v \in Visits, Answered(v)
  PROVE  ContentInv'
<1>1. task[v].at = "answer" /\ task[v] \in TaskStates /\ task[v].op \notin {"none", "settings"}
  BY DEF Answered, TaskAt, ContentInv, ContentTypeOK, TaskRule
<1>2. UNCHANGED <<page, versions, messages, edits, wiped, first, redated>>
  BY DEF Answered, contentRows
<1>3. Quiet
  BY OneTask DEF Answered, Finish, ContentInv
<1>4. ContentTypeOK' /\ TaskRule'
  <2>1. Writing(v) => task[v].page \in Pages /\ task[v].row.edit \in Nat
    BY DEF ContentInv, TaskRule, PageRows
  <2>2. task[v].op \in {"save", "create", "settings", "contact"}
    BY <1>1 DEF TaskStates
  <2>3. saved' \subseteq Pages \X Nat
    BY <1>1, <2>1, <2>2 DEF Answered, Writing, ContentInv, ContentTypeOK
  <2> QED
    BY <1>2, <1>3, <2>3, QuietTasks DEF ContentInv, ContentTypeOK
<1>5. EditRule'
  BY <1>2, <1>3, QuietTasks DEF ContentInv, EditRule, ContentTypeOK
<1>6. ReadRule'
  BY <1>2, <1>3, QuietTasks DEF ContentInv, ReadRule, Dated, Published
<1>7. EmptyRule'
  BY <1>2 DEF ContentInv, EmptyRule, Empty
<1>8. AnswerRule'
  BY <1>2, <1>3, QuietTasks DEF ContentInv, AnswerRule, Writing
<1>9. PagesFollowEdits'
  <2>1. \A w \in saved' : w \in saved \/ (w = <<task[v].page, task[v].row.edit>> /\ Writing(v))
    BY <1>1 DEF Answered, Writing, TaskStates
  <2> QED
    BY <1>1, <1>2, <2>1 DEF ContentInv, PagesFollowEdits, AnswerRule
<1>10. MessagesKept'
  BY <1>1, <1>2 DEF Answered, ContentInv, MessagesKept, AnswerRule
<1> QED
  BY <1>4, <1>5, <1>6, <1>7, <1>8, <1>9, <1>10 DEF ContentInv
\* Nothing is left, and what was acknowledged is known to be deleted.
LEMMA WipeKeeps == ContentInv /\ Wipe => ContentInv'
<1> SUFFICES ASSUME ContentInv, Wipe PROVE ContentInv'
  OBVIOUS
<1>1. /\ \A p \in Pages : page'[p] = NoPage /\ versions'[p] = {} /\ first'[p] = -1
      /\ messages' = {} /\ wiped' = wiped \cup messages \cup Written
      /\ UNCHANGED <<task, edits, sent, saved>>
  BY DEF Wipe
<1>2. ContentTypeOK'
  BY DEF Wipe, ContentInv, ContentTypeOK
<1>3. TaskRule' /\ EditRule' /\ EmptyRule' /\ MessagesKept'
  BY <1>1 DEF ContentInv, TaskRule, EditRule, Writing, Pending, EmptyRule, MessagesKept
<1>4. ReadRule'
  <2>1. \A v \in Visits : HasRead(v) => task[v].page \in Pages
    BY DEF ContentInv, TaskRule, HasRead, Writing
  <2> QED
    BY <1>1, <2>1 DEF ContentInv, ReadRule, HasRead, Dated, Published
<1>5. AnswerRule'
  <2> SUFFICES ASSUME NEW v \in Visits, task[v].at = "answer" PROVE AnswerRule!(v)!2'
    BY <1>1 DEF AnswerRule
  <2>1. Writing(v) => task[v].page \in Pages
    BY DEF ContentInv, TaskRule
  <2>2. Writing(v)' => Writing(v)
    BY <1>1 DEF Writing
  <2>3. Writing(v) => <<task[v].page, task[v].row.edit>> \in wiped'
    BY <1>1, <2>1, Deleted DEF ContentInv, AnswerRule
  <2> QED
    BY <1>1, <2>2, <2>3 DEF ContentInv, AnswerRule
<1>6. PagesFollowEdits'
  <2>1. \A w \in saved : w[1] \in Pages /\ w = <<w[1], w[2]>>
    BY DEF ContentInv, ContentTypeOK
  <2>2. saved' \ wiped' = {}
    <3> SUFFICES ASSUME NEW w \in saved, w \notin wiped PROVE w \in Written
      BY <1>1
    <3>1. PICK row \in versions[w[1]] : row.edit = w[2]
      BY DEF ContentInv, PagesFollowEdits
    <3> QED
      BY <2>1, <3>1, Deleted
  <2> QED
    BY <1>1, <2>2 DEF PagesFollowEdits
<1> QED
  BY <1>2, <1>3, <1>4, <1>5, <1>6 DEF ContentInv

LEMMA QuietEnds ==
  ASSUME ContentTypeOK
  PROVE  /\ \A v \in Visits : Finish(v) => Quiet
         /\ UNCHANGED task => Quiet
<1>1. \A v \in Visits : Finish(v) => Quiet
  BY OneTask DEF Finish
<1>2. UNCHANGED task => Quiet
  BY DEF Quiet, ContentTypeOK
<1> QED
  BY <1>1, <1>2

LEMMA EnsuredKeeps ==
  ASSUME ContentInv, NEW v \in Visits, Ensured(v)
  PROVE  ContentInv' /\ messages' \subseteq messages
<1> DEFINE next == IF task[v].op \in {"create", "settings"} THEN "commit" ELSE "read"
<1>1. ResumeAt(v, next) \/ Finish(v)
  BY DEF Ensured
<1>2. task[v].at = "ensure" /\ ContentTypeOK
  BY DEF Ensured, TaskAt, ContentInv
<1>3. ResumeAt(v, next) => Quiet
  BY <1>2, OneTask DEF ResumeAt, Onward
<1>4. Quiet
  BY <1>1, <1>2, <1>3, QuietEnds
<1>5. UNCHANGED <<edits, sent, saved, wiped>>
  BY DEF Ensured
<1>6. CASE UNCHANGED <<contentRows, first, redated>>
  BY <1>4, <1>5, <1>6, QuietKeeps DEF contentRows
<1>7. CASE Empty /\ Seed([p \in Pages |-> NoPage])
  BY <1>4, <1>5, <1>7, SeedKeeps DEF Seed
<1> QED
  BY <1>6, <1>7 DEF Ensured, SeedNeeded

\* What is done behind the gate; messages are only added while the form is open.
LEMMA BehindKeeps ==
  ASSUME ContentInv, NEW v \in Visits, Behind(v)
  PROVE  ContentInv' /\ (messages' \subseteq messages \/ FormOpen)
<1> USE DEF contentRows, contentHistory
<1>1. ContentTypeOK
  BY DEF ContentInv
<1>2. ASSUME Finish(v), UNCHANGED <<page, versions, messages, edits, contentHistory>>
      PROVE  ContentInv'
  BY <1>1, <1>2, QuietEnds, QuietKeeps
<1>3. CASE Ensured(v)
  BY <1>3, EnsuredKeeps
<1>4. CASE EnsureFails(v) \/ Declined(v) \/ RefusePage(v) \/ StoreSettings(v)
  BY <1>2, <1>4 DEF EnsureFails, Declined, RefusePage, StoreSettings
<1>5. CASE ReadPages(v)
  BY <1>5, ReadPagesKeeps DEF ReadPages
<1>6. CASE ReadSections(v)
  <2>1. ResumeAt(v, "commit") => Quiet
    BY <1>1, <1>6, OneTask DEF ReadSections, TaskAt, ResumeAt, Onward
  <2> QED
    BY <1>1, <1>6, <2>1, QuietEnds, QuietKeeps DEF ReadSections
<1>7. CASE ReadSettings(v)
  <2>1. ResumeAt(v, "commit") => Quiet
    BY <1>1, <1>7, OneTask DEF ReadSettings, TaskAt, ResumeAt, Onward
  <2> QED
    BY <1>1, <1>7, <2>1, QuietEnds, QuietKeeps DEF ReadSettings
<1>8. CASE StorePage(v)
  BY <1>8, StorePageKeeps DEF StorePage
<1>9. CASE StoreMessage(v)
  BY <1>9, StoreMessageKeeps
<1>10. CASE Answered(v)
  BY <1>10, AnsweredKeeps DEF Answered
<1> QED
  BY <1>3, <1>4, <1>5, <1>6, <1>7, <1>8, <1>9, <1>10 DEF Behind

LEMMA ContentStep ==
  ContentInv /\ [ContentNext]_<<contentVars, limitVars>>
  => ContentInv' /\ (messages' \subseteq messages \/ FormOpen)
<1> SUFFICES ASSUME ContentInv, [ContentNext]_<<contentVars, limitVars>>
             PROVE  ContentInv' /\ (messages' \subseteq messages \/ FormOpen)
  OBVIOUS
<1> USE DEF contentRows, contentHistory
<1>1. ContentTypeOK
  BY DEF ContentInv
<1>2. CASE UNCHANGED contentVars
  BY <1>1, <1>2, QuietEnds, QuietKeeps DEF contentVars
<1>3. ASSUME NEW v \in Visits, Edit(v) \/ Contact(v)
      PROVE  ContentInv' /\ messages' = messages
  BY <1>3, EditKeeps, ContactKeeps DEF Edit, Contact
<1>4. ASSUME NEW v \in Visits, DieAtTask(v)
      PROVE  ContentInv' /\ messages' = messages
  BY <1>1, <1>4, QuietEnds, QuietKeeps DEF DieAtTask
<1>5. CASE Wipe
  BY <1>5, WipeKeeps DEF Wipe
<1>6. CASE Reseed
  BY <1>1, <1>6, QuietEnds, SeedKeeps DEF Reseed, Seed
<1>7. CASE GiveUpReset
  BY <1>1, <1>7, QuietEnds, QuietKeeps DEF GiveUpReset
<1>8. CASE SeedScript
  BY <1>1, <1>8, QuietEnds, SeedKeeps DEF SeedScript, SeedNeeded, Seed
<1>9. ASSUME NEW s \in Servers, Restart(s)
      PROVE  ContentInv' /\ messages' = messages
  <2>1. Quiet
    BY <1>1, <1>9 DEF Restart, Quiet
  <2> QED
    BY <1>9, <2>1, QuietKeeps DEF Restart
<1> QED
  BY <1>2, <1>3, <1>4, <1>5, <1>6, <1>7, <1>8, <1>9, BehindKeeps DEF ContentNext, AtGate

\* The rows, what the requests have read and what was acknowledged stay in step,
\* whatever servers start, die and reset the content meanwhile.
THEOREM ContentInvariant == ContentSpec => []ContentInv
  BY ContentInitially, ContentStep, PTL DEF ContentSpec

\* However saves, creations, seeds and resets overlap: an acknowledged write is
\* among the versions of its page until a reset deletes it, slugs are unique, and a
\* published page keeps its first date unless it was written over unread.
THEOREM PagesAreKept == ContentSpec => []PagesFollowEdits
  BY ContentInvariant, PTL DEF ContentInv

\* An acknowledged message stays until a reset deletes it, and a message is stored
\* only while the form is open.
THEOREM MessagesAreKept == ContentSpec => ContactMessagesKept
<1>1. ContentInv => sent \subseteq messages \cup wiped
  BY DEF ContentInv, MessagesKept
<1>2. ContentInv /\ [ContentNext]_<<contentVars, limitVars>>
      => [messages' \subseteq messages \/ FormOpen]_<<contentVars, limitVars>>
  BY ContentStep
<1> QED
  BY <1>1, <1>2, ContentInvariant, PTL DEF ContentSpec, ContactMessagesKept

-----------------------------------------------------------------------------
(* BillingOffers *)

CouponCalls ==
  [at : {"make", "coupon"}, provider : Providers \cup {Nil}, terms : Terms, typed : BOOLEAN,
   active : BOOLEAN]
PageCalls == [op : {"page"}, at : {"default"}, provider : Providers]
SettingsCalls == [at : {"settings"}, provider : Providers]
CheckoutCalls ==
  [op : {"checkout"}, at : {"default", "offer", "price", "redeem", "plan", "session", "discount"},
   provider : Providers, sale : Sales, price : Prices, quantity : Nat, redeem : BOOLEAN,
   row : PriceRows \cup {Nil}, caps : SUBSET Capabilities]
ChangeCalls ==
  [at : {"change"}, sale : Sales, price : Prices, row : PriceRows, quantity : Nat]
VisitCalls ==
  [at : {"terms", "claim", "apply"}, sale : Sales, ref : References \cup {Nil},
   terms : Terms \cup {Nil}, trial : BOOLEAN, kind : Kinds, blind : BOOLEAN, done : SUBSET Kinds]
CallerStates == CouponCalls \cup PageCalls \cup SettingsCalls \cup CheckoutCalls \cup ChangeCalls
         \cup VisitCalls \cup {Waiting}
SaleRows ==
  [status : {"open", "complete"}, provider : Providers, price : Prices, plan : Plans,
   mode : {"payment", "subscription"}, ref : References \cup {Nil}, quantity : Nat, amount : Nat,
   discount : {"none", "pending_checkout", "active"}, told : BOOLEAN, expired : BOOLEAN]

OffersTypeOK ==
  /\ provider \in [Providers -> ProviderRows] /\ plan \in [Plans -> PlanRows \cup {Nil}]
  /\ price \in [Prices -> PriceRows \cup {Nil}] /\ PricesIndexed(price, plan)
  /\ choice \in Providers \cup {Nil} /\ chosen \in Providers \cup {Nil}
  /\ coupon \in CouponRows \cup {Nil} /\ made \in [Providers -> Terms \cup {Nil}]
  /\ checkout \in [Sales -> SaleRows \cup {NoSale}]
  /\ subscription \in [Sales -> SubscriptionRows \cup {Nil}]
  /\ invoice \in [Sales -> InvoiceRows \cup {Nil}]
  /\ event \in [Sales -> [Kinds -> {"none", "processing", "processed", "failed"}]]
  /\ held \in [Sales -> Bills \cup {Nil}] /\ caller \in [Callers -> CallerStates]
  /\ basis \in [Sales -> SUBSET Prices] /\ agreed \in [Sales -> SUBSET SubscriptionRows]
  /\ promised \in [Sales -> Terms \cup {Nil}] /\ answered \in [Sales -> SUBSET Kinds]
  /\ edited \subseteq Sales /\ repriced \subseteq Sales

-----------------------------------------------------------------------------
(* The coupon and the choice *)

\* A coupon that its provider has made for a request has the request's terms.
MadeRule ==
  \A r \in Callers :
    LET c == caller[r] IN
    c \in CouponCalls /\ c.at = "coupon" /\ ~c.typed /\ c.provider \notin {Nil, Mock}
    => made[c.provider] = c.terms
OffersInv == MadeRule /\ OffersKept

-----------------------------------------------------------------------------
(* Sales *)

Asking(r) == caller[r] \in CheckoutCalls /\ caller[r].at # "discount"
Sold(s) == checkout[s] # NoSale

\* What a checkout, a change of plan and a visit have read, unless it was edited since.
AskRule(r) ==
  LET c == caller[r] IN
  c \in CheckoutCalls =>
    /\ c.at # "discount" => ~Sold(c.sale)
    /\ c.at = "discount" => /\ Sold(c.sale) /\ ~checkout[c.sale].told
                            /\ checkout[c.sale].discount = "none" /\ promised[c.sale] # Nil
    /\ c.at \in {"plan", "session"} => (promised[c.sale] # Nil <=> c.redeem)
    /\ c.at = "redeem" => c.redeem
    /\ c.at \in {"redeem", "plan", "session"} =>
         /\ c.row # Nil /\ c.row.provider = c.provider /\ price[c.price] # Nil
         /\ c.sale \notin edited => c.price \in basis[c.sale] /\ price[c.price] = c.row
    /\ c.at = "session" =>
         [price |-> c.price, plan |-> c.row.plan, quantity |-> c.quantity] \in agreed[c.sale]
ChangeRule(r) ==
  LET c == caller[r] IN
  c \in ChangeCalls =>
    /\ Sold(c.sale) /\ c.row.provider = checkout[c.sale].provider
    /\ c.sale \notin edited => c.price \in basis[c.sale] /\ price[c.price] = c.row
VisitRule(r) ==
  LET c == caller[r] IN
  c \in VisitCalls =>
    /\ Sold(c.sale) /\ checkout[c.sale].told /\ checkout[c.sale].provider = Mock
    /\ c.sale \notin edited => c.ref = price[checkout[c.sale].price].ref
    /\ c.at # "terms" /\ c.sale \notin repriced => c.terms = promised[c.sale]
    /\ ~c.blind => \A k \in c.done : event[c.sale][k] = "processed"
    /\ c.at = "apply" => event[c.sale][c.kind] = "processing"
Applying(r) == caller[r] \in VisitCalls /\ caller[r].at = "apply"
AloneRule ==
  \A r, q \in Callers :
    /\ caller[r] \in CheckoutCalls /\ caller[q] \in CheckoutCalls /\ caller[r].sale = caller[q].sale
         => r = q
    /\ Applying(r) /\ Applying(q) /\ caller[r].sale = caller[q].sale /\ caller[r].kind = caller[q].kind
         => r = q

\* The sale of a price that is as it was read, and what its provider bills.
Backed(s, i, ref, n) ==
  /\ i \in basis[s] /\ price[i] # Nil /\ price[i].ref = ref
  /\ price[i].provider = checkout[s].provider /\ Subscribed(i, n) \in agreed[s]
SaleRule(s) ==
  LET x == checkout[s] IN
  IF ~Sold(s)
  THEN /\ subscription[s] = Nil /\ invoice[s] = Nil /\ held[s] = Nil /\ answered[s] = {}
       /\ \A k \in Kinds : event[s][k] = "none"
  ELSE /\ price[x.price] # Nil
       /\ x.told => (x.discount # "none" <=> promised[s] # Nil)
       /\ s \notin edited =>
            /\ Backed(s, x.price, x.ref, x.quantity)
            /\ held[s] # Nil => \E i \in Prices : Backed(s, i, held[s].ref, held[s].quantity)
TermsRule(s) ==
  promised[s] # Nil => coupon # Nil /\ (s \notin repriced => coupon.terms = promised[s])
\* An event that was processed has had its effect, and a visitor is told of such.
EffectRule(s) ==
  /\ \A k \in answered[s] : event[s][k] = "processed"
  /\ event[s]["checkout"] = "processed" => checkout[s].status = "complete"
  /\ event[s]["subscription"] = "processed" => subscription[s] # Nil
  /\ event[s]["invoice"] = "processed" => invoice[s] # Nil

\* What was sold is what was agreed, and what was charged is what was promised.
SoldRule(s) ==
  /\ subscription[s] # Nil => subscription[s] \in agreed[s] \/ s \in edited
  /\ invoice[s] # Nil => invoice[s].total = Due(s, promised[s]) \/ s \in repriced

CallRules(r) == AskRule(r) /\ ChangeRule(r) /\ VisitRule(r)
SaleRules(s) == SaleRule(s) /\ TermsRule(s) /\ EffectRule(s) /\ SoldRule(s)
SalesInv == (\A r \in Callers : CallRules(r)) /\ AloneRule /\ (\A s \in Sales : SaleRules(s))

-----------------------------------------------------------------------------
(* Types *)

\* What is at a statement.
LEMMA CallsAt ==
  ASSUME NEW c \in CallerStates
  PROVE  /\ c.at \in {"make", "coupon"} <=> c \in CouponCalls
         /\ c.at \in {"offer", "price", "redeem", "plan", "session", "discount"} => c \in CheckoutCalls
         /\ c.at = "default" => c \in PageCalls \cup CheckoutCalls
         /\ c.at = "settings" => c \in SettingsCalls
         /\ c.at = "change" => c \in ChangeCalls
         /\ c.at \in {"terms", "claim", "apply"} => c \in VisitCalls
         /\ c.at = "none" <=> c = Waiting
BY DEF CallerStates, CouponCalls, PageCalls, SettingsCalls, CheckoutCalls, ChangeCalls, VisitCalls,
       Waiting

LEMMA Placeholders ==
  /\ NoSale \notin SaleRows /\ Waiting \notin CheckoutCalls \cup ChangeCalls \cup VisitCalls \cup CouponCalls
  /\ \A x \in SaleRows \cup {NoSale} : x # NoSale => x \in SaleRows
  /\ Nil \notin Providers \cup References \cup Terms \cup PlanRows \cup PriceRows
  /\ Nil \notin CouponRows \cup SubscriptionRows \cup InvoiceRows \cup Bills
BY OffersAssumption DEF NoSale, Waiting, SaleRows, CheckoutCalls, ChangeCalls, VisitCalls, CouponCalls

\* A request that returns, or goes on.
LEMMA Moves ==
  ASSUME OffersTypeOK, NEW r \in Callers, NEW c \in CallerStates,
         caller' = [caller EXCEPT ![r] = c]
  PROVE  /\ caller' \in [Callers -> CallerStates] /\ caller'[r] = c
         /\ \A q \in Callers \ {r} : caller'[q] = caller[q]
BY DEF OffersTypeOK

LEMMA Returns ==
  ASSUME OffersTypeOK, NEW r \in Callers, Return(r)
  PROVE  /\ caller' \in [Callers -> CallerStates] /\ caller'[r] = Waiting
         /\ \A q \in Callers \ {r} : caller'[q] = caller[q]
BY DEF OffersTypeOK, Return, CallerStates

LEMMA AdministerTypes ==
  ASSUME OffersTypeOK, Administer
  PROVE  OffersTypeOK'
<1>1. ASSUME NEW p \in Providers, NEW row \in ProviderRows, UpdatePaymentProvider(p, row)
      PROVE  OffersTypeOK'
  BY <1>1 DEF OffersTypeOK, UpdatePaymentProvider, couponRows, saleRows, saleHistory
<1>2. ASSUME NEW l \in Plans, NEW row \in PlanRows, UpsertPlan(l, row)
      PROVE  OffersTypeOK'
  <2>1. PricesIndexed(price, plan')
    BY <1>2, Placeholders DEF OffersTypeOK, UpsertPlan, PricesIndexed, PriceRows
  <2> QED
    BY <1>2, <2>1 DEF OffersTypeOK, UpsertPlan, couponRows, saleRows, saleHistory
<1>3. ASSUME NEW i \in Prices, NEW row \in PriceRows, UpsertPrice(i, row)
      PROVE  OffersTypeOK'
  <2>1. PricesIndexed(price', plan)
    BY <1>3, Placeholders DEF OffersTypeOK, UpsertPrice, PriceFits, PricesIndexed, PriceRows
  <2> QED
    BY <1>3, <2>1 DEF OffersTypeOK, UpsertPrice, couponRows, saleRows, saleHistory
<1> QED
  BY <1>1, <1>2, <1>3 DEF Administer
\* Records of calls that are changed in a field.
LEMMA CallFields ==
  /\ \A c \in CouponCalls : [c EXCEPT !.at = "coupon"] \in CouponCalls
  /\ \A c \in CheckoutCalls, n \in Nat, row \in PriceRows :
       /\ [c EXCEPT !.at = "discount"] \in CheckoutCalls
       /\ [c EXCEPT !.at = "session", !.quantity = n] \in CheckoutCalls
       /\ [c EXCEPT !.at = "plan"] \in CheckoutCalls
       /\ \A at \in {"redeem", "plan"} : [c EXCEPT !.at = at, !.row = row] \in CheckoutCalls
  /\ \A c \in CheckoutCalls, caps \in SUBSET Capabilities :
       [c EXCEPT !.at = "price", !.caps = caps] \in CheckoutCalls
  /\ \A c \in CheckoutCalls, p \in Providers : [c EXCEPT !.at = "offer", !.provider = p] \in CheckoutCalls
BY DEF CouponCalls, CheckoutCalls

LEMMA VisitFields ==
  ASSUME NEW c \in VisitCalls
  PROVE  /\ [c EXCEPT !.at = "apply"] \in VisitCalls
         /\ \A t \in Terms \cup {Nil} : [c EXCEPT !.at = "claim", !.terms = t] \in VisitCalls
         /\ \A b \in BOOLEAN : [c EXCEPT !.blind = b] \in VisitCalls
         /\ \A k \in Kinds, d \in SUBSET Kinds :
              [c EXCEPT !.at = "claim", !.kind = k, !.done = d] \in VisitCalls
<1>1. [c EXCEPT !.at = "apply"] \in VisitCalls
  BY DEF VisitCalls
<1>2. ASSUME NEW t \in Terms \cup {Nil}
      PROVE  [c EXCEPT !.at = "claim", !.terms = t] \in VisitCalls
  BY DEF VisitCalls
<1>3. ASSUME NEW b \in BOOLEAN PROVE [c EXCEPT !.blind = b] \in VisitCalls
  BY DEF VisitCalls
<1>4. ASSUME NEW k \in Kinds, NEW d \in SUBSET Kinds
      PROVE  [c EXCEPT !.at = "claim", !.kind = k, !.done = d] \in VisitCalls
  BY DEF VisitCalls
<1> QED
  BY <1>1, <1>2, <1>3, <1>4

LEMMA CouponTypes ==
  ASSUME OffersTypeOK, NEW r \in Callers,
         \/ \E p \in Providers \cup {Nil}, t \in Terms, typed, active \in BOOLEAN :
              CallUpsertCoupon(r, p, t, typed, active)
         \/ CreateCoupon(r) \/ SaveCoupon(r)
  PROVE  OffersTypeOK'
<1>1. ASSUME NEW p \in Providers \cup {Nil}, NEW t \in Terms, NEW typed \in BOOLEAN,
             NEW active \in BOOLEAN, CallUpsertCoupon(r, p, t, typed, active)
      PROVE  OffersTypeOK'
  <2> DEFINE c == [at |-> IF p # Nil /\ ~typed THEN "make" ELSE "coupon", provider |-> p,
                   terms |-> t, typed |-> typed, active |-> active]
  <2>1. c \in CallerStates
    BY DEF CallerStates, CouponCalls
  <2>2. caller' \in [Callers -> CallerStates]
    BY <1>1, <2>1, Moves DEF CallUpsertCoupon, Begin
  <2> QED
    BY <1>1, <2>2 DEF OffersTypeOK, CallUpsertCoupon, catalogue, couponRows, saleRows, saleHistory
<1>2. CASE CreateCoupon(r)
  <2>1. caller[r] \in CouponCalls
    BY <1>2, CallsAt DEF CreateCoupon, CallerAt, OffersTypeOK
  <2>2. caller' \in [Callers -> CallerStates]
    <3>1. CASE Makeable(caller[r].provider)
      <4>1. [caller[r] EXCEPT !.at = "coupon"] \in CallerStates
        BY <2>1, CallFields DEF CallerStates
      <4> QED
        BY <1>2, <3>1, <4>1, Moves DEF CreateCoupon, Move, OffersTypeOK
    <3> QED
      BY <1>2, <3>1, Returns DEF CreateCoupon
  <2>3. made' \in [Providers -> Terms \cup {Nil}]
    BY <1>2, <2>1 DEF CreateCoupon, OffersTypeOK, CouponCalls, Makeable
  <2> QED
    BY <1>2, <2>2, <2>3 DEF OffersTypeOK, CreateCoupon, catalogue, saleRows, saleHistory
<1>3. CASE SaveCoupon(r)
  <2>1. caller[r] \in CouponCalls
    BY <1>3, CallsAt DEF SaveCoupon, CallerAt, OffersTypeOK
  <2>2. caller' \in [Callers -> CallerStates]
    BY <1>3, Returns DEF SaveCoupon
  <2>3. coupon' \in CouponRows
    BY <1>3, <2>1 DEF SaveCoupon, CouponRows, CouponCalls
  <2> QED
    BY <1>3, <2>2, <2>3 DEF OffersTypeOK, SaveCoupon, catalogue, saleRows
<1> QED
  BY <1>1, <1>2, <1>3

\* Where a request goes on that has the settings.
LEMMA SettingsRead ==
  ASSUME OffersTypeOK, NEW r \in Callers, NEW in, NEW p \in Providers, ReadTenantSettings(r, in, p),
         in \in [op : {"page"}, at : {""}, provider : {Nil}]
               \cup [op : {"checkout"}, at : {""}, provider : {Nil}, sale : Sales, price : Prices,
                     quantity : Nat, redeem : BOOLEAN, row : {Nil}, caps : {{}}]
  PROVE  /\ caller[r] = Waiting /\ OffersTypeOK'
         /\ caller'[r] \in PageCalls \cup CheckoutCalls \cup {Waiting}
         /\ caller'[r] \in CheckoutCalls => caller'[r].at \in {"default", "offer"}
                                            /\ in.op = "checkout" /\ caller'[r].sale = in.sale
                                            /\ caller'[r].row = Nil
         /\ \A q \in Callers \ {r} : caller'[q] = caller[q]
<1> DEFINE c == IF choice # Nil THEN AfterSettings(in, choice)
                ELSE [in EXCEPT !.at = "default", !.provider = p]
<1>1. /\ c \in PageCalls \cup CheckoutCalls \cup {Waiting}
      /\ c \in CheckoutCalls => c.at \in {"default", "offer"} /\ in.op = "checkout" /\ c.sale = in.sale
                               /\ c.row = Nil
  <2>1. CASE choice # Nil
    <3>1. choice \in Providers
      BY <2>1 DEF OffersTypeOK
    <3>2. CASE in.op = "checkout"
      BY <2>1, <3>1, <3>2 DEF AfterSettings, CheckoutCalls
    <3> QED
      BY <2>1, <3>1, <3>2, Placeholders DEF AfterSettings
  <2>2. CASE choice = Nil
    BY <2>2 DEF CheckoutCalls, PageCalls
  <2> QED
    BY <2>1, <2>2
<1>2. c \in CallerStates
  BY <1>1 DEF CallerStates
<1>3. caller' \in [Callers -> CallerStates] /\ caller'[r] = c /\ caller[r] = Waiting
      /\ \A q \in Callers \ {r} : caller'[q] = caller[q]
  BY <1>2, Moves DEF ReadTenantSettings, Begin
<1>4. OffersTypeOK'
  BY <1>3 DEF OffersTypeOK, ReadTenantSettings, catalogue, couponRows, saleRows, saleHistory
<1> QED
  BY <1>1, <1>3, <1>4

LEMMA DefaultInserted ==
  ASSUME OffersTypeOK, NEW r \in Callers, InsertDefault(r)
  PROVE  /\ OffersTypeOK' /\ \A q \in Callers \ {r} : caller'[q] = caller[q]
         /\ caller'[r] \in CheckoutCalls \cup {Waiting}
         /\ caller'[r] \in CheckoutCalls => caller'[r].at = "offer" /\ caller[r] \in CheckoutCalls
                                            /\ caller'[r].sale = caller[r].sale
                                            /\ caller[r].at = "default"
                                            /\ caller'[r].row = caller[r].row
<1>1. caller[r] \in PageCalls \cup CheckoutCalls /\ caller[r].at = "default"
  BY CallsAt DEF InsertDefault, CallerAt, OffersTypeOK
<1> DEFINE c == AfterSettings(caller[r], caller[r].provider)
<1>2. CASE Insertable
  <2>1. /\ c \in CheckoutCalls \cup {Waiting}
        /\ c \in CheckoutCalls => c.at = "offer" /\ caller[r] \in CheckoutCalls
                                  /\ c.sale = caller[r].sale /\ c.row = caller[r].row
    <3>1. CASE caller[r].op = "checkout"
      <4>1. caller[r] \in CheckoutCalls
        BY <1>1, <3>1 DEF PageCalls
      <4> DEFINE d == [caller[r] EXCEPT !.at = "offer", !.provider = caller[r].provider]
      <4>2. caller[r].provider \in Providers
        BY <4>1 DEF CheckoutCalls
      <4>3. d \in CheckoutCalls
        BY <4>1, <4>2, CallFields
      <4>4. d.at = "offer" /\ d.sale = caller[r].sale /\ d.row = caller[r].row
        BY <4>1 DEF CheckoutCalls
      <4>5. c = d
        BY <3>1 DEF AfterSettings
      <4> HIDE DEF c, d
      <4> QED
        BY <4>1, <4>3, <4>4, <4>5
    <3> QED
      BY <3>1, Placeholders DEF AfterSettings
  <2>2. c \in CallerStates
    BY <2>1 DEF CallerStates
  <2>3. caller[r].provider \in Providers
    BY <1>1 DEF PageCalls, CheckoutCalls
  <2>4. caller' = [caller EXCEPT ![r] = c] /\ choice' = caller[r].provider
    BY <1>2 DEF InsertDefault
  <2>5. caller' \in [Callers -> CallerStates] /\ caller'[r] = c
        /\ \A q \in Callers \ {r} : caller'[q] = caller[q]
    BY <2>2, <2>4, Moves
  <2>6. OffersTypeOK'
    BY <2>3, <2>4, <2>5 DEF OffersTypeOK, InsertDefault, catalogue, couponRows, saleRows, saleHistory
  <2> QED
    BY <1>1, <2>1, <2>5, <2>6
<1>3. CASE ~Insertable
  <2>1. caller' \in [Callers -> CallerStates] /\ caller'[r] = Waiting
        /\ \A q \in Callers \ {r} : caller'[q] = caller[q]
    BY <1>3, Returns DEF InsertDefault
  <2>2. OffersTypeOK'
    BY <1>3, <2>1 DEF OffersTypeOK, InsertDefault, catalogue, couponRows, saleRows, saleHistory
  <2> QED
    BY <2>1, <2>2, Placeholders
<1> QED
  BY <1>2, <1>3

LEMMA SettingsTypes ==
  ASSUME OffersTypeOK, NEW r \in Callers,
         \/ CallPage(r) \/ InsertDefault(r) \/ (\E p \in Providers : CallUpdateSettings(r, p))
         \/ UpdateSettings(r)
  PROVE  OffersTypeOK'
<1>1. CASE CallPage(r)
  BY <1>1, SettingsRead DEF CallPage
<1>2. CASE InsertDefault(r)
  BY <1>2, DefaultInserted
<1>3. ASSUME NEW p \in Providers, CallUpdateSettings(r, p)
      PROVE  OffersTypeOK'
  <2>1. [at |-> "settings", provider |-> p] \in CallerStates
    BY DEF CallerStates, SettingsCalls
  <2>2. caller' \in [Callers -> CallerStates]
    BY <1>3, <2>1, Moves DEF CallUpdateSettings, Begin
  <2> QED
    BY <1>3, <2>2 DEF OffersTypeOK, CallUpdateSettings, catalogue, couponRows, saleRows, saleHistory
<1>4. CASE UpdateSettings(r)
  <2>1. caller[r].provider \in Providers
    BY <1>4, CallsAt DEF UpdateSettings, CallerAt, OffersTypeOK, SettingsCalls
  <2>2. caller' \in [Callers -> CallerStates]
    BY <1>4, Returns DEF UpdateSettings
  <2> QED
    BY <1>4, <2>1, <2>2 DEF OffersTypeOK, UpdateSettings, catalogue, couponRows, saleRows, saleHistory
<1> QED
  BY <1>1, <1>2, <1>3, <1>4
\* The rows that a sale and a request refer to are there.
SaleThere(s) ==
  /\ Sold(s) => /\ price[checkout[s].price] # Nil /\ plan[checkout[s].plan] # Nil
                /\ checkout[s].discount # "none" => coupon # Nil
  /\ subscription[s] # Nil \/ held[s] # Nil => Sold(s)
CallThere(r) ==
  LET c == caller[r] IN
  /\ c \in CheckoutCalls =>
       /\ c.row # Nil <=> c.at \in {"redeem", "plan", "session", "discount"}
       /\ c.row # Nil => plan[c.row.plan] # Nil /\ price[c.price] # Nil
                         /\ (c.redeem /\ c.at # "redeem" => coupon # Nil)
       /\ c.at = "discount" => Sold(c.sale) /\ c.redeem
  /\ c \in VisitCalls \cup ChangeCalls => Sold(c.sale)
OffersTypeInv ==
  OffersTypeOK /\ (\A s \in Sales : SaleThere(s)) /\ (\A r \in Callers : CallThere(r))

\* Rows of the catalogue and of sales are not deleted.
Stays ==
  /\ \A i \in Prices : price[i] # Nil => price'[i] # Nil
  /\ \A l \in Plans : plan[l] # Nil => plan'[l] # Nil
  /\ coupon # Nil => coupon' # Nil
  /\ \A s \in Sales : Sold(s) => Sold(s)'

LEMMA StaysThere ==
  ASSUME OffersTypeInv, OffersTypeOK', Stays,
         \A s \in Sales : \/ SaleThere(s)'
                          \/ checkout'[s] = checkout[s] /\ subscription'[s] = subscription[s]
                             /\ held'[s] = held[s],
         \A r \in Callers : caller'[r] = caller[r] \/ CallThere(r)'
  PROVE  OffersTypeInv'
<1>1. ASSUME NEW s \in Sales, checkout'[s] = checkout[s], subscription'[s] = subscription[s],
             held'[s] = held[s]
      PROVE  SaleThere(s)'
  <2>1. SaleThere(s)
    BY DEF OffersTypeInv
  <2>2. Sold(s) => checkout[s].price \in Prices /\ checkout[s].plan \in Plans
    BY Placeholders DEF OffersTypeInv, OffersTypeOK, Sold, SaleRows
  <2> QED
    BY <1>1, <2>1, <2>2 DEF SaleThere, Stays, Sold
<1>2. ASSUME NEW r \in Callers, caller'[r] = caller[r]
      PROVE  CallThere(r)'
  <2>1. CallThere(r)
    BY DEF OffersTypeInv
  <2>2. caller[r] \in CheckoutCalls =>
          /\ caller[r].sale \in Sales /\ caller[r].price \in Prices
          /\ caller[r].row # Nil => caller[r].row.plan \in Plans
    BY DEF CheckoutCalls, PriceRows
  <2>3. caller[r] \in VisitCalls \cup ChangeCalls => caller[r].sale \in Sales
    BY DEF VisitCalls, ChangeCalls
  <2> QED
    BY <1>2, <2>1, <2>2, <2>3 DEF CallThere, Stays
<1> QED
  BY <1>1, <1>2 DEF OffersTypeInv

\* A request that has returned, or asks for a coupon or the settings, has nothing.
LEMMA NothingThere ==
  ASSUME NEW r \in Callers, \/ caller'[r] = Waiting
                            \/ caller'[r] \in CouponCalls \cup PageCalls \cup SettingsCalls
  PROVE  CallThere(r)'
BY DEF CallThere, Waiting, CouponCalls, PageCalls, SettingsCalls, CheckoutCalls, VisitCalls,
       ChangeCalls
LEMMA AdministerTypeInv ==
  ASSUME OffersTypeInv, Administer
  PROVE  OffersTypeInv'
<1>1. OffersTypeOK'
  BY AdministerTypes DEF OffersTypeInv
<1>2. UNCHANGED <<coupon, checkout, subscription, held, caller>>
  BY DEF Administer, UpdatePaymentProvider, UpsertPlan, UpsertPrice, couponRows, saleRows
<1>3. Stays
  BY <1>2, Placeholders DEF Administer, UpdatePaymentProvider, UpsertPlan, UpsertPrice, Stays, Sold,
     OffersTypeInv, OffersTypeOK
<1> QED
  BY <1>1, <1>2, <1>3, StaysThere

LEMMA CouponTypeInv ==
  ASSUME OffersTypeInv, NEW r \in Callers,
         \/ \E p \in Providers \cup {Nil}, t \in Terms, typed, active \in BOOLEAN :
              CallUpsertCoupon(r, p, t, typed, active)
         \/ CreateCoupon(r) \/ SaveCoupon(r)
  PROVE  OffersTypeInv'
<1>1. OffersTypeOK'
  BY CouponTypes DEF OffersTypeInv
<1>2. UNCHANGED <<price, plan, checkout, subscription, held>> /\ (coupon # Nil => coupon' # Nil)
  <2>1. SaveCoupon(r) => coupon' # Nil
    <3>1. SaveCoupon(r) => caller[r] \in CouponCalls
      BY CallsAt DEF SaveCoupon, CallerAt, OffersTypeInv, OffersTypeOK
    <3>2. SaveCoupon(r) => coupon' \in CouponRows
      BY <3>1 DEF SaveCoupon, CouponRows, CouponCalls
    <3> QED
      BY <3>2, Placeholders
  <2> QED
    BY <2>1 DEF CallUpsertCoupon, CreateCoupon, SaveCoupon, catalogue, couponRows, saleRows
<1>3. Stays
  BY <1>2 DEF Stays, Sold
<1>4. \A q \in Callers : caller'[q] = caller[q] \/ CallThere(q)'
  <2>1. \A q \in Callers \ {r} : caller'[q] = caller[q]
    BY DEF CallUpsertCoupon, CreateCoupon, SaveCoupon, Begin, Move, Return, OffersTypeInv, OffersTypeOK
  <2>2. caller'[r] = Waiting \/ caller'[r].at \in {"make", "coupon"}
    <3>1. CASE CreateCoupon(r)
      <4>1. caller[r] \in CouponCalls
        BY <3>1, CallsAt DEF CreateCoupon, CallerAt, OffersTypeInv, OffersTypeOK
      <4> QED
        BY <3>1, <4>1 DEF CreateCoupon, Move, Return, OffersTypeInv, OffersTypeOK, CouponCalls
    <3> QED
      BY <3>1 DEF CallUpsertCoupon, SaveCoupon, Begin, Return, OffersTypeInv, OffersTypeOK
  <2>3. CallThere(r)'
    BY <1>1, <2>2, CallsAt, NothingThere DEF OffersTypeOK
  <2> QED
    BY <2>1, <2>3
<1> QED
  BY <1>1, <1>2, <1>3, <1>4, StaysThere

LEMMA SettingsTypeInv ==
  ASSUME OffersTypeInv, NEW r \in Callers,
         \/ CallPage(r) \/ InsertDefault(r) \/ (\E p \in Providers : CallUpdateSettings(r, p))
         \/ UpdateSettings(r)
         \/ \E s \in Sales, i \in Prices, n \in Quantities, redeem \in BOOLEAN :
              CallCheckout(r, s, i, n, redeem)
  PROVE  OffersTypeInv'
<1> DEFINE Settled == OffersTypeOK' /\ (\A q \in Callers \ {r} : caller'[q] = caller[q]) /\ CallThere(r)'
<1>1. Settled
  <2> USE DEF OffersTypeInv
  <2>1. CASE CallPage(r)
    <3>1. PICK p \in Providers : ReadTenantSettings(r, [op |-> "page", at |-> "", provider |-> Nil], p)
      BY <2>1 DEF CallPage
    <3>2. /\ OffersTypeOK' /\ \A q \in Callers \ {r} : caller'[q] = caller[q]
          /\ caller'[r] \in PageCalls \cup {Waiting}
      BY <3>1, SettingsRead
    <3> QED
      BY <3>2, NothingThere
  <2>2. CASE InsertDefault(r)
    <3>1. caller'[r] \in CheckoutCalls => caller'[r].row = Nil /\ caller'[r].at = "offer"
      BY <2>2, DefaultInserted DEF CallThere
    <3>2. caller'[r] \in CheckoutCalls => CallThere(r)'
      BY <3>1 DEF CallThere, CheckoutCalls, VisitCalls, ChangeCalls
    <3> QED
      BY <2>2, <3>2, DefaultInserted, NothingThere
  <2>3. ASSUME NEW p \in Providers, CallUpdateSettings(r, p) \/ UpdateSettings(r)
        PROVE  Settled
    <3>1. OffersTypeOK'
      BY <2>3, SettingsTypes
    <3>2. \A q \in Callers \ {r} : caller'[q] = caller[q]
      BY <2>3 DEF CallUpdateSettings, UpdateSettings, Begin, Return, OffersTypeOK
    <3>3. caller'[r] = Waiting \/ caller'[r] \in SettingsCalls
      BY <2>3 DEF CallUpdateSettings, UpdateSettings, Begin, Return, OffersTypeOK, SettingsCalls
    <3> QED
      BY <3>1, <3>2, <3>3, NothingThere
  <2>4. ASSUME NEW s \in Sales, NEW i \in Prices, NEW n \in Quantities, NEW redeem \in BOOLEAN,
               CallCheckout(r, s, i, n, redeem)
        PROVE  Settled
    <3> DEFINE in == [op |-> "checkout", at |-> "", provider |-> Nil, sale |-> s, price |-> i,
                      quantity |-> n, redeem |-> redeem, row |-> Nil, caps |-> {}]
    <3>1. PICK p \in Providers : ReadTenantSettings(r, in, p)
      BY <2>4 DEF CallCheckout
    <3>2. n \in Nat
      BY OffersAssumption
    <3>3. /\ OffersTypeOK' /\ \A q \in Callers \ {r} : caller'[q] = caller[q]
          /\ caller'[r] \in PageCalls \cup CheckoutCalls \cup {Waiting}
          /\ caller'[r] \in CheckoutCalls => caller'[r].at \in {"default", "offer"}
                                             /\ caller'[r].row = Nil
      BY <3>1, <3>2, SettingsRead
    <3>4. caller'[r] \in CheckoutCalls => CallThere(r)'
      BY <3>3 DEF CallThere, CheckoutCalls, VisitCalls, ChangeCalls
    <3> QED
      BY <3>3, <3>4, NothingThere
  <2>5. CASE UpdateSettings(r)
    BY <2>3, <2>5, OffersAssumption
  <2> QED
    BY <2>1, <2>2, <2>3, <2>4, <2>5
<1>2. UNCHANGED <<price, plan, coupon, checkout, subscription, held>>
  BY DEF CallPage, InsertDefault, CallUpdateSettings, UpdateSettings, CallCheckout, ReadTenantSettings,
     catalogue, couponRows, saleRows
<1>3. Stays
  BY <1>2 DEF Stays, Sold
<1> QED
  BY <1>1, <1>2, <1>3, StaysThere
\* A quantity that is counted, or one.
LEMMA CountedQuantity ==
  ASSUME OffersTypeInv, NEW row \in PriceRows, plan[row.plan] # Nil, NEW n \in Nat
  PROVE  Counted(row, n) \in Nat
<1>1. row.plan \in Plans
  BY DEF PriceRows
<1>2. plan[row.plan] \in PlanRows
  BY <1>1 DEF OffersTypeInv, OffersTypeOK
<1>3. plan[row.plan].seats \in BOOLEAN
  BY <1>2 DEF PlanRows
<1> QED
  BY <1>3 DEF Counted

\* The requests that are at a statement of a checkout.
LEMMA CheckoutAt ==
  ASSUME OffersTypeInv, NEW r \in Callers,
         \/ CallerAt(r, "offer") \/ CallerAt(r, "price") \/ CallerAt(r, "redeem")
         \/ CallerAt(r, "plan") \/ CallerAt(r, "session") \/ CallerAt(r, "discount")
  PROVE  /\ caller[r] \in CheckoutCalls /\ CallThere(r)
         /\ caller[r].sale \in Sales /\ caller[r].price \in Prices /\ caller[r].provider \in Providers
         /\ caller[r].quantity \in Nat /\ caller[r].redeem \in BOOLEAN
         /\ ~CallerAt(r, "offer") /\ ~CallerAt(r, "price") =>
              /\ caller[r].row \in PriceRows /\ caller[r].row.plan \in Plans
              /\ caller[r].row.amount \in Nat /\ caller[r].row.ref \in References \cup {Nil}
<1>1. caller[r] \in CheckoutCalls /\ CallThere(r)
  BY CallsAt DEF CallerAt, OffersTypeInv, OffersTypeOK
<1>2. ~CallerAt(r, "offer") /\ ~CallerAt(r, "price") => caller[r].row \in PriceRows
  BY <1>1 DEF CallerAt, CallThere, CheckoutCalls
<1>3. \A row \in PriceRows : row.amount \in Nat /\ row.plan \in Plans /\ row.ref \in References \cup {Nil}
  BY OffersAssumption DEF PriceRows
<1> QED
  BY <1>1, <1>2, <1>3 DEF CheckoutCalls

\* A checkout that is refused ends.
LEMMA RefusedTypeInv ==
  ASSUME OffersTypeInv, NEW r \in Callers, Return(r),
         UNCHANGED <<catalogue, choice, couponRows, saleRows, limits, chosen, saleHistory>>
  PROVE  OffersTypeInv'
<1>1. caller' \in [Callers -> CallerStates] /\ caller'[r] = Waiting
      /\ \A q \in Callers \ {r} : caller'[q] = caller[q]
  BY Returns DEF OffersTypeInv
<1>2. OffersTypeOK'
  BY <1>1 DEF OffersTypeInv, OffersTypeOK, catalogue, couponRows, saleRows, saleHistory
<1>3. Stays /\ UNCHANGED <<checkout, subscription, held>>
  BY DEF Stays, catalogue, couponRows, saleRows, Sold
<1> QED
  BY <1>1, <1>2, <1>3, StaysThere, NothingThere

\* A checkout that goes on to its next reading.
LEMMA ReadOnTypeInv ==
  ASSUME OffersTypeInv, NEW r \in Callers, caller[r] \in CheckoutCalls,
         NEW d \in CheckoutCalls, caller' = [caller EXCEPT ![r] = d],
         d.at \notin {"discount"},
         d.row # Nil <=> d.at \in {"redeem", "plan", "session"},
         d.row # Nil => /\ plan[d.row.plan] # Nil /\ price[d.price] # Nil
                        /\ d.redeem /\ d.at # "redeem" => coupon # Nil,
         basis' \in [Sales -> SUBSET Prices], promised' \in [Sales -> Terms \cup {Nil}],
         edited' \subseteq Sales, repriced' \subseteq Sales,
         UNCHANGED <<catalogue, choice, couponRows, saleRows, limits, chosen, agreed, answered>>
  PROVE  OffersTypeInv'
<1>1. caller' \in [Callers -> CallerStates] /\ caller'[r] = d
      /\ \A q \in Callers \ {r} : caller'[q] = caller[q]
  BY Moves DEF OffersTypeInv, CallerStates
<1>2. OffersTypeOK'
  BY <1>1 DEF OffersTypeInv, OffersTypeOK, catalogue, couponRows, saleRows
<1>3. Stays /\ UNCHANGED <<price, plan, coupon, checkout, subscription, held>>
  BY DEF Stays, catalogue, couponRows, saleRows, Sold
<1>4. d \notin VisitCalls \cup ChangeCalls
  BY DEF CheckoutCalls, VisitCalls, ChangeCalls
<1>5. CallThere(r)'
  BY <1>1, <1>3, <1>4 DEF CallThere
<1> QED
  BY <1>1, <1>2, <1>3, <1>5, StaysThere

LEMMA ReadOfferTypeInv ==
  ASSUME OffersTypeInv, NEW r \in Callers, ReadProvider(r) \/ ReadPrice(r) \/ ReadCoupon(r)
  PROVE  OffersTypeInv'
<1> DEFINE c == caller[r]
<1>1. c \in CheckoutCalls /\ c.sale \in Sales /\ c.price \in Prices /\ c.provider \in Providers
      /\ c.redeem \in BOOLEAN /\ CallThere(r)
  BY CheckoutAt DEF ReadProvider, ReadPrice, ReadCoupon
<1>2. UNCHANGED <<catalogue, choice, couponRows, saleRows, limits, chosen, agreed, answered>>
  BY DEF ReadProvider, ReadPrice, ReadCoupon, saleHistory
<1>3. CASE Return(r) /\ UNCHANGED <<basis, edited, promised, repriced>>
  BY <1>2, <1>3, RefusedTypeInv DEF saleHistory
<1>4. CASE ReadProvider(r) /\ ~Return(r)
  <2> DEFINE d == [c EXCEPT !.at = "price", !.caps = provider[c.provider].caps]
  <2>1. provider[c.provider].caps \in SUBSET Capabilities
    BY <1>1 DEF OffersTypeInv, OffersTypeOK, ProviderRows
  <2>2. d \in CheckoutCalls /\ d.at = "price" /\ d.row = c.row /\ d.price = c.price
    BY <1>1, <2>1, CallFields DEF CheckoutCalls
  <2>3. c.row = Nil
    BY <1>1, <1>4 DEF ReadProvider, CallerAt, CallThere
  <2>4. caller' = [caller EXCEPT ![r] = d] /\ UNCHANGED <<basis, edited, promised, repriced>>
    BY <1>4 DEF ReadProvider, saleHistory
  <2> HIDE DEF d
  <2> QED
    BY <1>1, <1>2, <2>2, <2>3, <2>4, ReadOnTypeInv DEF OffersTypeInv, OffersTypeOK
<1>5. CASE ReadPrice(r) /\ OnOffer(c.price, c.provider)
  <2> DEFINE row == price[c.price]
             d == [c EXCEPT !.at = IF c.redeem THEN "redeem" ELSE "plan", !.row = row]
  <2>1. row \in PriceRows /\ row # Nil /\ plan[row.plan] # Nil
    BY <1>1, <1>5, Placeholders DEF OnOffer, OffersTypeInv, OffersTypeOK, PricesIndexed
  <2>2. /\ d \in CheckoutCalls /\ d.row = row /\ d.price = c.price /\ d.redeem = c.redeem
        /\ d.at = IF c.redeem THEN "redeem" ELSE "plan"
    BY <1>1, <2>1, CallFields DEF CheckoutCalls
  <2>3. /\ caller' = [caller EXCEPT ![r] = d] /\ basis' = [basis EXCEPT ![c.sale] = {c.price}]
        /\ edited' = edited \ {c.sale} /\ promised' = [promised EXCEPT ![c.sale] = Nil]
        /\ repriced' = repriced \ {c.sale}
    BY <1>5 DEF ReadPrice
  <2>4. /\ basis' \in [Sales -> SUBSET Prices] /\ promised' \in [Sales -> Terms \cup {Nil}]
        /\ edited' \subseteq Sales /\ repriced' \subseteq Sales
    BY <1>1, <2>3 DEF OffersTypeInv, OffersTypeOK
  <2> HIDE DEF d
  <2> QED
    BY <1>1, <1>2, <2>1, <2>2, <2>3, <2>4, ReadOnTypeInv
<1>6. CASE ReadCoupon(r) /\ RedeemableAt(c.provider) /\ "coupons" \in c.caps
  <2> DEFINE d == [c EXCEPT !.at = "plan"]
  <2>1. c.at = "redeem" /\ c.row # Nil /\ plan[c.row.plan] # Nil /\ price[c.price] # Nil
    BY <1>1, <1>6 DEF ReadCoupon, CallerAt, CallThere
  <2>2. d \in CheckoutCalls /\ d.row = c.row /\ d.price = c.price /\ d.at = "plan"
    BY <1>1 DEF CheckoutCalls
  <2>3. coupon # Nil /\ coupon.terms \in Terms
    BY <1>6 DEF RedeemableAt, OffersTypeInv, OffersTypeOK, CouponRows
  <2>4. /\ caller' = [caller EXCEPT ![r] = d] /\ UNCHANGED <<basis, edited>>
        /\ promised' = [promised EXCEPT ![c.sale] = coupon.terms]
        /\ repriced' = repriced \ {c.sale}
    BY <1>6 DEF ReadCoupon, Move
  <2>5. /\ basis' \in [Sales -> SUBSET Prices] /\ promised' \in [Sales -> Terms \cup {Nil}]
        /\ edited' \subseteq Sales /\ repriced' \subseteq Sales
    BY <1>1, <2>3, <2>4 DEF OffersTypeInv, OffersTypeOK
  <2> HIDE DEF d
  <2> QED
    BY <1>1, <1>2, <2>1, <2>2, <2>3, <2>4, <2>5, ReadOnTypeInv
<1> QED
  BY <1>3, <1>4, <1>5, <1>6 DEF ReadProvider, ReadPrice, ReadCoupon, saleHistory

LEMMA OpenCheckoutTypeInv ==
  ASSUME OffersTypeInv, NEW r \in Callers, OpenCheckout(r)
  PROVE  OffersTypeInv'
<1> DEFINE c == caller[r]
           n == Counted(c.row, c.quantity)
           d == [c EXCEPT !.at = "session", !.quantity = n]
           a == [price |-> c.price, plan |-> c.row.plan, quantity |-> n]
<1>1. /\ c \in CheckoutCalls /\ c.sale \in Sales /\ c.price \in Prices /\ c.row \in PriceRows
      /\ c.row.plan \in Plans /\ n \in Nat /\ CallThere(r) /\ c.at = "plan"
  <2>1. /\ c \in CheckoutCalls /\ c.sale \in Sales /\ c.price \in Prices /\ c.row \in PriceRows
        /\ c.row.plan \in Plans /\ c.quantity \in Nat /\ CallThere(r) /\ c.at = "plan"
    BY CheckoutAt DEF OpenCheckout, CallerAt
  <2>2. plan[c.row.plan] # Nil
    BY <2>1, Placeholders DEF CallThere
  <2> QED
    BY <2>1, <2>2, CountedQuantity
<1>2. Stays /\ UNCHANGED <<price, plan, coupon, checkout, subscription, held>>
  BY DEF OpenCheckout, Stays, catalogue, couponRows, saleRows, Sold
<1>3. CASE caller' = [caller EXCEPT ![r] = d] /\ agreed' = [agreed EXCEPT ![c.sale] = {a}]
  <2>1. d \in CheckoutCalls /\ a \in SubscriptionRows
    BY <1>1 DEF CheckoutCalls, SubscriptionRows
  <2>2. caller' \in [Callers -> CallerStates] /\ caller'[r] = d
        /\ \A q \in Callers \ {r} : caller'[q] = caller[q]
    BY <1>3, <2>1, Moves DEF OffersTypeInv, CallerStates
  <2>3. OffersTypeOK'
    BY <1>1, <1>3, <2>1, <2>2 DEF OffersTypeInv, OffersTypeOK, OpenCheckout, catalogue, couponRows, saleRows
  <2>4. CallThere(r)'
    <3>1. d.row = c.row /\ d.at = "session" /\ d.price = c.price /\ d.redeem = c.redeem
      BY <1>1 DEF CheckoutCalls
    <3>2. d \notin VisitCalls \cup ChangeCalls
      BY <3>1 DEF VisitCalls, ChangeCalls
    <3> QED
      BY <1>1, <1>2, <2>2, <3>1, <3>2 DEF CallThere
  <2> QED
    BY <1>2, <2>2, <2>3, <2>4, StaysThere
<1>4. CASE Return(r) /\ UNCHANGED agreed
  <2>1. caller' \in [Callers -> CallerStates] /\ caller'[r] = Waiting
        /\ \A q \in Callers \ {r} : caller'[q] = caller[q]
    BY <1>4, Returns DEF OffersTypeInv
  <2>2. OffersTypeOK'
    BY <1>4, <2>1 DEF OffersTypeInv, OffersTypeOK, OpenCheckout, catalogue, couponRows, saleRows
  <2> QED
    BY <1>2, <2>1, <2>2, StaysThere, NothingThere
<1> QED
  BY <1>3, <1>4 DEF OpenCheckout

LEMMA InsertSessionTypeInv ==
  ASSUME OffersTypeInv, NEW r \in Callers, InsertSession(r)
  PROVE  /\ OffersTypeInv' /\ checkout'[caller[r].sale] \in SaleRows
         /\ \A q \in Callers \ {r} : caller'[q] = caller[q]
         /\ IF caller[r].redeem
            THEN caller'[r] \in CheckoutCalls /\ caller'[r] = [caller[r] EXCEPT !.at = "discount"]
            ELSE caller'[r] = Waiting
<1> DEFINE c == caller[r]
           x == [status |-> "open", provider |-> c.provider, price |-> c.price, plan |-> c.row.plan,
                 mode |-> Mode(c.row), ref |-> c.row.ref, quantity |-> c.quantity,
                 amount |-> c.row.amount * c.quantity, discount |-> "none", told |-> ~c.redeem,
                 expired |-> FALSE]
           d == [c EXCEPT !.at = "discount"]
<1>1. /\ c \in CheckoutCalls /\ c.sale \in Sales /\ c.price \in Prices /\ c.row \in PriceRows
      /\ c.row.plan \in Plans /\ CallThere(r) /\ c.at = "session" /\ c.row # Nil
      /\ c.provider \in Providers /\ c.quantity \in Nat /\ c.redeem \in BOOLEAN /\ c.row.amount \in Nat
      /\ c.row.ref \in References \cup {Nil}
  BY CheckoutAt, Placeholders DEF InsertSession, CallerAt
<1>2. x \in SaleRows
  <2>1. c.row.amount * c.quantity \in Nat
    BY <1>1
  <2>2. Mode(c.row) \in {"payment", "subscription"}
    BY DEF Mode
  <2> HIDE DEF c
  <2> QED
    BY <1>1, <2>1, <2>2 DEF SaleRows
<1>3. checkout' = [checkout EXCEPT ![c.sale] = x]
  BY DEF InsertSession
<1> HIDE DEF x
<1>s. PICK s \in Sales : s = c.sale
  BY <1>1
<1>4. checkout' \in [Sales -> SaleRows \cup {NoSale}] /\ checkout'[s] = x
      /\ Sold(s)' /\ \A t \in Sales \ {s} : checkout'[t] = checkout[t]
  BY <1>s, <1>2, <1>3, Placeholders DEF OffersTypeInv, OffersTypeOK, Sold
<1>5. /\ caller' \in [Callers -> CallerStates]
      /\ \A q \in Callers \ {r} : caller'[q] = caller[q]
      /\ IF c.redeem THEN caller'[r] = d /\ d \in CheckoutCalls ELSE caller'[r] = Waiting
  <2>1. CASE c.redeem
    <3>1. d \in CheckoutCalls
      BY <1>1, CallFields DEF CheckoutCalls
    <3>2. caller' = [caller EXCEPT ![r] = d]
      BY <2>1 DEF InsertSession, Move, OffersTypeInv, OffersTypeOK
    <3> QED
      BY <2>1, <3>1, <3>2, Moves DEF OffersTypeInv, CallerStates
  <2>2. CASE ~c.redeem
    BY <2>2, Returns DEF InsertSession, OffersTypeInv
  <2> QED
    BY <2>1, <2>2
<1>6. OffersTypeOK'
  BY <1>4, <1>5 DEF OffersTypeInv, OffersTypeOK, InsertSession, catalogue, couponRows, saleHistory
<1>7. UNCHANGED <<price, plan, coupon, subscription, held>>
  BY DEF InsertSession, catalogue, couponRows
<1>8. Stays
  BY <1>4, <1>7 DEF Stays, Sold
<1>9. SaleThere(s)'
  <2>1. x.price = c.price /\ x.plan = c.row.plan /\ x.discount = "none"
    BY DEF x
  <2> QED
    BY <1>1, <1>4, <1>7, <2>1 DEF SaleThere, CallThere
<1>10. CallThere(r)'
  <2>1. CASE c.redeem
    <3>1. d.row = c.row /\ d.at = "discount" /\ d.price = c.price /\ d.redeem = c.redeem /\ d.sale = c.sale
      BY <1>1 DEF CheckoutCalls
    <3>2. d \notin VisitCalls \cup ChangeCalls
      BY <3>1 DEF VisitCalls, ChangeCalls
    <3> QED
      BY <1>1, <1>s, <1>4, <1>5, <1>7, <2>1, <3>1, <3>2 DEF CallThere
  <2> QED
    BY <1>5, <2>1, NothingThere
<1>11. OffersTypeInv'
  BY <1>4, <1>5, <1>6, <1>7, <1>8, <1>9, <1>10, StaysThere
<1> QED
  BY <1>s, <1>2, <1>4, <1>5, <1>11

LEMMA InsertDiscountTypeInv ==
  ASSUME OffersTypeInv, NEW r \in Callers, InsertDiscount(r)
  PROVE  OffersTypeInv'
<1>s. PICK s \in Sales : s = caller[r].sale
  BY CheckoutAt DEF InsertDiscount
<1> DEFINE x == [checkout[s] EXCEPT !.discount = "pending_checkout", !.told = TRUE]
<1>1. s \in Sales /\ CallThere(r) /\ caller[r] \in CheckoutCalls /\ caller[r].at = "discount"
  BY CheckoutAt DEF InsertDiscount, CallerAt
<1>2. Sold(s) /\ checkout[s] \in SaleRows /\ coupon # Nil
  BY <1>1, <1>s, Placeholders DEF CallThere, Sold, OffersTypeInv, OffersTypeOK
<1>3. x \in SaleRows /\ x.price = checkout[s].price /\ x.plan = checkout[s].plan
  BY <1>2 DEF SaleRows
<1>4. checkout' = [checkout EXCEPT ![s] = x]
  BY <1>1, <1>s DEF InsertDiscount, OffersTypeInv, OffersTypeOK
<1> HIDE DEF x
<1>5. checkout' \in [Sales -> SaleRows \cup {NoSale}] /\ checkout'[s] = x
      /\ \A t \in Sales : Sold(t) => Sold(t)'
  BY <1>1, <1>2, <1>3, <1>4, Placeholders DEF OffersTypeInv, OffersTypeOK, Sold
<1>6. caller' \in [Callers -> CallerStates] /\ caller'[r] = Waiting
      /\ \A q \in Callers \ {r} : caller'[q] = caller[q]
  BY Returns DEF OffersTypeInv, InsertDiscount
<1>7. UNCHANGED <<price, plan, coupon, subscription, held>>
  BY DEF InsertDiscount, catalogue, couponRows
<1>8. OffersTypeOK'
  BY <1>5, <1>6 DEF OffersTypeInv, OffersTypeOK, InsertDiscount, catalogue, couponRows, saleHistory
<1>9. Stays
  BY <1>5, <1>7 DEF Stays
<1>10. SaleThere(s)'
  BY <1>1, <1>2, <1>3, <1>5, <1>7 DEF SaleThere, OffersTypeInv
<1>11. \A t \in Sales \ {s} : checkout'[t] = checkout[t]
  BY <1>4, <1>5 DEF OffersTypeInv, OffersTypeOK
<1> QED
  BY <1>6, <1>7, <1>8, <1>9, <1>10, <1>11, StaysThere, NothingThere
LEMMA ChangeTypeInv ==
  ASSUME OffersTypeInv, NEW r \in Callers,
         \/ \E s \in Sales, i \in Prices, n \in Quantities : CallChangePlan(r, s, i, n)
         \/ ChangePlan(r)
  PROVE  OffersTypeInv'
<1>1. Stays /\ UNCHANGED <<price, plan, coupon, checkout, subscription>>
  BY DEF CallChangePlan, ChangePlan, Stays, catalogue, couponRows, saleRows, Sold
<1>2. ASSUME NEW s \in Sales, NEW i \in Prices, NEW n \in Quantities, CallChangePlan(r, s, i, n)
      PROVE  OffersTypeInv'
  <2> DEFINE c == [at |-> "change", sale |-> s, price |-> i, row |-> price[i],
                   quantity |-> Counted(price[i], n)]
  <2>1. price[i] \in PriceRows /\ plan[price[i].plan] # Nil /\ n \in Nat /\ Sold(s)
    BY <1>2, OffersAssumption, Placeholders DEF CallChangePlan, OnOffer, OffersTypeInv, OffersTypeOK,
       PricesIndexed, SaleThere
  <2>2. c \in ChangeCalls
    BY <2>1, CountedQuantity DEF ChangeCalls
  <2>3. caller' \in [Callers -> CallerStates] /\ caller'[r] = c
        /\ \A q \in Callers \ {r} : caller'[q] = caller[q]
    BY <1>2, <2>2, Moves DEF CallChangePlan, Begin, OffersTypeInv, CallerStates
  <2>4. OffersTypeOK' /\ held' = held
    BY <1>2, <2>3 DEF OffersTypeInv, OffersTypeOK, CallChangePlan, catalogue, couponRows, saleRows
  <2>5. CallThere(r)'
    <3>1. c \notin CheckoutCalls
      BY <2>2 DEF CheckoutCalls, ChangeCalls
    <3> QED
      BY <1>1, <2>1, <2>3, <3>1 DEF CallThere, Sold
  <2> QED
    BY <1>1, <2>3, <2>4, <2>5, StaysThere
<1>3. CASE ChangePlan(r)
  <2>s. PICK s \in Sales : s = caller[r].sale
    BY <1>3, CallsAt DEF ChangePlan, CallerAt, OffersTypeInv, OffersTypeOK, ChangeCalls
  <2>1. caller[r] \in ChangeCalls /\ Sold(s)
    BY <2>s, <1>3, CallsAt DEF ChangePlan, CallerAt, OffersTypeInv, OffersTypeOK, CallThere
  <2>2. /\ caller[r].row \in PriceRows /\ caller[r].quantity \in Nat /\ caller[r].price \in Prices
        /\ caller[r].row.ref \in References \cup {Nil} /\ caller[r].row.plan \in Plans
    BY <2>1 DEF ChangeCalls, PriceRows
  <2>3. /\ [ref |-> caller[r].row.ref, quantity |-> caller[r].quantity] \in Bills
        /\ [price |-> caller[r].price, plan |-> caller[r].row.plan, quantity |-> caller[r].quantity]
             \in SubscriptionRows
    BY <2>2 DEF Bills, SubscriptionRows
  <2>4. held' \in [Sales -> Bills \cup {Nil}] /\ \A t \in Sales \ {s} : held'[t] = held[t]
    BY <1>3, <2>s, <2>3 DEF ChangePlan, OffersTypeInv, OffersTypeOK
  <2>5. agreed' \in [Sales -> SUBSET SubscriptionRows]
    BY <1>3, <2>s, <2>3 DEF ChangePlan, OffersTypeInv, OffersTypeOK
  <2>6. caller' \in [Callers -> CallerStates] /\ caller'[r] = Waiting
        /\ \A q \in Callers \ {r} : caller'[q] = caller[q]
    BY <1>3, Returns DEF OffersTypeInv, ChangePlan
  <2>7. OffersTypeOK'
    BY <1>3, <2>4, <2>5, <2>6 DEF OffersTypeInv, OffersTypeOK, ChangePlan, catalogue, couponRows
  <2>8. SaleThere(s)'
    BY <1>1, <2>1 DEF SaleThere, OffersTypeInv, Sold
  <2> QED
    BY <1>1, <2>4, <2>6, <2>7, <2>8, StaysThere, NothingThere
<1> QED
  BY <1>2, <1>3

LEMMA SellTypeInv ==
  ASSUME OffersTypeInv, NEW s \in Sales, Sell(s) \/ HearOfSubscription(s) \/ ExpireSession(s)
  PROVE  OffersTypeInv'
<1>1. Sold(s) /\ checkout[s] \in SaleRows
  <2>1. Sold(s)
    BY DEF Sell, HearOfSubscription, ExpireSession, Sold, OffersTypeInv, SaleThere, NoSale
  <2> QED
    BY <2>1, Placeholders DEF Sold, OffersTypeInv, OffersTypeOK
<1>2. UNCHANGED <<price, plan, coupon, caller>>
  BY DEF Sell, HearOfSubscription, ExpireSession, catalogue, couponRows
<1>3. /\ held' \in [Sales -> Bills \cup {Nil}] /\ subscription' \in [Sales -> SubscriptionRows \cup {Nil}]
      /\ checkout' \in [Sales -> SaleRows \cup {NoSale}] /\ Sold(s)'
      /\ checkout'[s].price = checkout[s].price /\ checkout'[s].plan = checkout[s].plan
      /\ checkout'[s].discount = checkout[s].discount
      /\ \A t \in Sales \ {s} : checkout'[t] = checkout[t] /\ held'[t] = held[t]
                                /\ subscription'[t] = subscription[t]
  <2>1. CASE Sell(s)
    <3>1. [ref |-> checkout[s].ref, quantity |-> checkout[s].quantity] \in Bills
      BY <1>1 DEF SaleRows, Bills
    <3> QED
      BY <1>1, <2>1, <3>1 DEF Sell, OffersTypeInv, OffersTypeOK, Sold
  <2>2. CASE HearOfSubscription(s)
    <3>1. PICK i \in FoundBy(checkout[s].provider, held[s].ref) :
            subscription' = [subscription EXCEPT ![s] = Subscribed(i, held[s].quantity)]
      BY <2>2 DEF HearOfSubscription
    <3>2. i \in Prices /\ price[i] \in PriceRows /\ held[s].quantity \in Nat
      BY <2>2, Placeholders DEF FoundBy, OffersTypeInv, OffersTypeOK, HearOfSubscription, Bills
    <3>3. Subscribed(i, held[s].quantity) \in SubscriptionRows
      BY <3>2 DEF Subscribed, SubscriptionRows, PriceRows
    <3> QED
      BY <1>1, <2>2, <3>1, <3>3 DEF HearOfSubscription, OffersTypeInv, OffersTypeOK, Sold
  <2>3. CASE ExpireSession(s)
    <3> DEFINE x == [checkout[s] EXCEPT !.expired = TRUE]
    <3>1. /\ x \in SaleRows /\ x.price = checkout[s].price /\ x.plan = checkout[s].plan
          /\ x.discount = checkout[s].discount
      BY <1>1 DEF SaleRows
    <3>2. checkout' = [checkout EXCEPT ![s] = x]
      BY <2>3 DEF ExpireSession
    <3> HIDE DEF x
    <3>3. checkout' \in [Sales -> SaleRows \cup {NoSale}] /\ checkout'[s] = x
          /\ \A t \in Sales \ {s} : checkout'[t] = checkout[t]
      BY <3>1, <3>2 DEF OffersTypeInv, OffersTypeOK
    <3>4. held' = held /\ subscription' = subscription
      BY <2>3 DEF ExpireSession
    <3> QED
      BY <3>1, <3>3, <3>4, Placeholders DEF OffersTypeInv, OffersTypeOK, Sold
  <2> QED
    BY <2>1, <2>2, <2>3
<1>4. OffersTypeOK'
  BY <1>3 DEF OffersTypeInv, OffersTypeOK, Sell, HearOfSubscription, ExpireSession, catalogue,
     couponRows, saleHistory
<1>5. Stays
  BY <1>2, <1>3 DEF Stays, Sold
<1>6. SaleThere(s)'
  BY <1>1, <1>2, <1>3 DEF SaleThere, OffersTypeInv
<1> QED
  BY <1>2, <1>3, <1>4, <1>5, <1>6, StaysThere

LEMMA VisitAt ==
  ASSUME OffersTypeInv, NEW r \in Callers,
         CallerAt(r, "terms") \/ CallerAt(r, "claim") \/ CallerAt(r, "apply")
  PROVE  /\ caller[r] \in VisitCalls /\ caller[r].sale \in Sales /\ Sold(caller[r].sale)
         /\ checkout[caller[r].sale] \in SaleRows /\ caller[r].kind \in Kinds
         /\ caller[r].done \subseteq Kinds
<1>1. caller[r] \in VisitCalls
  BY CallsAt DEF CallerAt, OffersTypeInv, OffersTypeOK
<1>2. caller[r].sale \in Sales /\ caller[r].kind \in Kinds /\ caller[r].done \subseteq Kinds
  BY <1>1 DEF VisitCalls
<1> QED
  BY <1>1, <1>2, Placeholders DEF OffersTypeInv, CallThere, OffersTypeOK, Sold

\* A visit goes on with the next event, or ends.
LEMMA VisitGoesOn ==
  ASSUME OffersTypeInv, NEW r \in Callers, NEW c \in VisitCalls, Proceed(r, c)
  PROVE  /\ caller' \in [Callers -> CallerStates] /\ answered' \in [Sales -> SUBSET Kinds]
         /\ \A q \in Callers \ {r} : caller'[q] = caller[q]
         /\ \/ /\ caller'[r] = Waiting
               /\ answered' = IF c.blind THEN answered
                              ELSE [answered EXCEPT ![c.sale] = @ \cup (c.done \cup {c.kind})]
            \/ /\ caller'[r] \in VisitCalls /\ answered' = answered
               /\ caller'[r] = [c EXCEPT !.at = "claim", !.kind = After(c), !.done = c.done \cup {c.kind}]
               /\ caller'[r].sale = c.sale
<1>1. c.kind \in Kinds /\ c.done \cup {c.kind} \subseteq Kinds /\ c.sale \in Sales
  BY DEF VisitCalls
<1>2. CASE After(c) = "success"
  <2>1. /\ Return(r)
        /\ answered' = IF c.blind THEN answered
                       ELSE [answered EXCEPT ![c.sale] = @ \cup (c.done \cup {c.kind})]
    BY <1>2 DEF Proceed
  <2>2. answered' \in [Sales -> SUBSET Kinds]
    BY <1>1, <2>1 DEF OffersTypeInv, OffersTypeOK
  <2> QED
    BY <2>1, <2>2, Returns DEF OffersTypeInv
<1>3. CASE After(c) # "success"
  <2> DEFINE d == [c EXCEPT !.at = "claim", !.kind = After(c), !.done = c.done \cup {c.kind}]
  <2>1. After(c) \in Kinds
    BY <1>3 DEF After, Kinds
  <2>2. d \in VisitCalls /\ d.sale = c.sale
    BY <1>1, <2>1, VisitFields DEF VisitCalls
  <2>3. caller' = [caller EXCEPT ![r] = d] /\ answered' = answered
    BY <1>3 DEF Proceed
  <2> QED
    BY <2>2, <2>3, Moves DEF OffersTypeInv, CallerStates, OffersTypeOK
<1> QED
  BY <1>2, <1>3

\* A visit's request has its sale.
LEMMA VisitThere ==
  ASSUME NEW r \in Callers, caller'[r] \in VisitCalls, checkout'[caller'[r].sale] # NoSale
  PROVE  CallThere(r)'
<1>1. caller'[r] \notin CheckoutCalls
  BY DEF VisitCalls, CheckoutCalls
<1> QED
  BY <1>1 DEF CallThere, Sold

LEMMA VisitTypeInv ==
  ASSUME OffersTypeInv, NEW r \in Callers, (\E s \in Sales : Visit(r, s)) \/ ReadTerms(r)
  PROVE  /\ OffersTypeInv' /\ caller'[r] \in VisitCalls \cup {Waiting}
         /\ \A q \in Callers \ {r} : caller'[q] = caller[q]
<1>1. UNCHANGED <<price, plan, coupon, checkout, subscription, held>> /\ Stays
  BY DEF Visit, ReadTerms, catalogue, couponRows, saleRows, Stays, Sold
<1>2. ASSUME NEW s \in Sales, Visit(r, s)
      PROVE  /\ OffersTypeInv' /\ caller'[r] \in VisitCalls \cup {Waiting}
             /\ \A q \in Callers \ {r} : caller'[q] = caller[q]
  <2> DEFINE row == checkout[s]
             c == [at |-> "terms", sale |-> s, ref |-> price[row.price].ref, terms |-> Nil,
                   trial |-> plan[row.plan].trial, kind |-> "checkout", blind |-> FALSE, done |-> {}]
  <2>1. row \in SaleRows /\ Sold(s)
    BY <1>2, Placeholders DEF Visit, OffersTypeInv, OffersTypeOK, Sold, NoSale
  <2>2. price[row.price] \in PriceRows /\ plan[row.plan] \in PlanRows
    <3>1. row.price \in Prices /\ row.plan \in Plans
      BY <2>1 DEF SaleRows
    <3> QED
      BY <2>1, <3>1 DEF OffersTypeInv, OffersTypeOK, SaleThere
  <2>3. price[row.price].ref \in References \cup {Nil} /\ plan[row.plan].trial \in BOOLEAN
    BY <2>2 DEF PriceRows, PlanRows
  <2>4. c \in VisitCalls
    BY <2>3 DEF VisitCalls, Kinds
  <2>5. caller' \in [Callers -> CallerStates] /\ caller'[r] = c
        /\ \A q \in Callers \ {r} : caller'[q] = caller[q]
    BY <1>2, <2>4, Moves DEF Visit, Begin, OffersTypeInv, CallerStates
  <2>6. OffersTypeOK'
    BY <1>2, <2>5 DEF OffersTypeInv, OffersTypeOK, Visit, catalogue, couponRows, saleRows, saleHistory
  <2>7. CallThere(r)'
    <3>1. caller'[r].sale = s /\ caller'[r] \in VisitCalls
      BY <2>4, <2>5
    <3>2. checkout'[s] # NoSale
      BY <1>1, <2>1 DEF Sold
    <3> QED
      BY <3>1, <3>2, VisitThere
  <2> QED
    BY <1>1, <2>4, <2>5, <2>6, <2>7, StaysThere
<1>3. CASE ReadTerms(r)
  <2> DEFINE t == IF Discounted(caller[r].sale) THEN coupon.terms ELSE Nil
             d == [caller[r] EXCEPT !.at = "claim", !.terms = t]
  <2>1. caller[r] \in VisitCalls /\ Sold(caller[r].sale) /\ caller[r].sale \in Sales
    BY <1>3, VisitAt DEF ReadTerms
  <2>2. t \in Terms \cup {Nil}
    BY <2>1 DEF Discounted, OffersTypeInv, OffersTypeOK, SaleThere, CouponRows
  <2>3. d \in VisitCalls /\ d.sale = caller[r].sale
    <3> HIDE DEF t
    <3>1. d \in VisitCalls
      BY <2>1, <2>2, VisitFields
    <3> QED
      BY <2>1, <3>1 DEF VisitCalls
  <2>4. caller' = [caller EXCEPT ![r] = d]
    BY <1>3 DEF ReadTerms, OffersTypeInv, OffersTypeOK
  <2>5. caller' \in [Callers -> CallerStates] /\ caller'[r] = d
        /\ \A q \in Callers \ {r} : caller'[q] = caller[q]
    BY <2>3, <2>4, Moves DEF OffersTypeInv, CallerStates
  <2>6. OffersTypeOK'
    BY <1>3, <2>5 DEF OffersTypeInv, OffersTypeOK, ReadTerms, catalogue, couponRows, saleRows, saleHistory
  <2>7. CallThere(r)'
    BY <1>1, <2>1, <2>3, <2>5, VisitThere DEF Sold
  <2> QED
    BY <1>1, <2>3, <2>5, <2>6, <2>7, StaysThere
<1> QED
  BY <1>2, <1>3
\* What is due is a number.
LEMMA DueNumber ==
  ASSUME NEW s \in Sales, checkout[s] \in SaleRows, NEW t \in Terms \cup {Nil}
  PROVE  Due(s, t) \in Int
<1>1. checkout[s].amount \in Nat
  BY DEF SaleRows
<1>2. CASE t = Nil
  BY <1>1, <1>2 DEF Due
<1>3. CASE t # Nil
  <2>1. t.percent \in BOOLEAN /\ t.value \in Nat
    BY <1>3, OffersAssumption
  <2> DEFINE n == checkout[s].amount
  <2>2. 2 * n * t.value + 10000 \in Int
    BY <1>1, <2>1
  <2>3. (2 * n * t.value + 10000) \div 20000 \in Int
    BY <2>2
  <2>4. Off(t, n) \in Int
    BY <1>1, <2>1, <2>3 DEF Off
  <2> QED
    BY <1>1, <1>3, <2>4 DEF Due
<1> QED
  BY <1>2, <1>3

LEMMA EventTypeInv ==
  ASSUME OffersTypeInv, NEW r \in Callers,
         ClaimEvent(r) \/ ApplyCompleted(r) \/ ApplySubscribed(r) \/ ApplyInvoiced(r) \/ Unapplied(r)
  PROVE  /\ OffersTypeInv' /\ caller'[r] \in VisitCalls \cup {Waiting}
         /\ \A q \in Callers \ {r} : caller'[q] = caller[q]
<1>0. CallerAt(r, "claim") \/ CallerAt(r, "apply")
  BY DEF ClaimEvent, ApplyCompleted, ApplySubscribed, ApplyInvoiced, Unapplied, Applied
<1>s. PICK s \in Sales : s = caller[r].sale
  BY <1>0, VisitAt
<1>k. PICK k \in Kinds : k = caller[r].kind
  BY <1>0, VisitAt
<1>1. caller[r] \in VisitCalls /\ Sold(s) /\ checkout[s] \in SaleRows
  BY <1>0, <1>s, VisitAt
<1>2. UNCHANGED <<price, plan, coupon, held>>
  BY DEF ClaimEvent, ApplyCompleted, ApplySubscribed, ApplyInvoiced, Unapplied, Applied, catalogue,
     couponRows
<1> DEFINE Goes == /\ caller' \in [Callers -> CallerStates] /\ answered' \in [Sales -> SUBSET Kinds]
                   /\ \A q \in Callers \ {r} : caller'[q] = caller[q]
                   /\ caller'[r] = Waiting \/ (caller'[r] \in VisitCalls /\ caller'[r].sale = s)
<1>3. Goes
  <2>1. ASSUME Return(r), answered' = answered PROVE Goes
    BY <2>1, Returns DEF OffersTypeInv, OffersTypeOK
  <2>2. ASSUME NEW c \in VisitCalls, c.sale = s, Proceed(r, c) PROVE Goes
    BY <2>2, VisitGoesOn
  <2>3. CASE ApplyCompleted(r) \/ ApplySubscribed(r) \/ ApplyInvoiced(r)
    BY <1>1, <1>s, <2>2, <2>3 DEF Applied, ApplyCompleted, ApplySubscribed, ApplyInvoiced
  <2>4. CASE ClaimEvent(r)
    <3>1. CASE "webhooks" \notin provider[Mock].caps
      BY <2>1, <2>4, <3>1 DEF ClaimEvent
    <3>2. CASE "webhooks" \in provider[Mock].caps /\ Claimed(s, k)
      <4> DEFINE d == [caller[r] EXCEPT !.at = "apply"]
      <4>1. d \in VisitCalls /\ d.sale = s
        <5>1. d \in VisitCalls
          BY <1>1, VisitFields
        <5> QED
          BY <1>1, <1>s, <5>1 DEF VisitCalls
      <4>2. caller' = [caller EXCEPT ![r] = d] /\ answered' = answered
        BY <1>s, <1>k, <2>4, <3>2 DEF ClaimEvent, Move, OffersTypeInv, OffersTypeOK
      <4> QED
        BY <4>1, <4>2, Moves DEF OffersTypeInv, OffersTypeOK, CallerStates
    <3>3. CASE "webhooks" \in provider[Mock].caps /\ ~Claimed(s, k)
      <4> DEFINE d == [caller[r] EXCEPT !.blind = @ \/ event[s][k] = "processing"]
      <4>1. (caller[r].blind \/ event[s][k] = "processing") \in BOOLEAN
        OBVIOUS
      <4>2. d \in VisitCalls /\ d.sale = s
        <5> DEFINE b == caller[r].blind \/ event[s][k] = "processing"
        <5> HIDE DEF b
        <5>1. [caller[r] EXCEPT !.blind = b] \in VisitCalls
          BY <1>1, <4>1, VisitFields DEF b
        <5>2. [caller[r] EXCEPT !.blind = b].sale = s
          BY <1>1, <1>s, <5>1 DEF VisitCalls
        <5> QED
          BY <5>1, <5>2 DEF b
      <4>3. Proceed(r, d)
        BY <1>s, <1>k, <2>4, <3>3 DEF ClaimEvent
      <4> QED
        BY <2>2, <4>2, <4>3
    <3> QED
      BY <3>1, <3>2, <3>3
  <2>5. CASE Unapplied(r)
    BY <2>1, <2>5 DEF Unapplied, saleHistory
  <2> QED
    BY <2>3, <2>4, <2>5
<1>4. event' \in [Sales -> [Kinds -> {"none", "processing", "processed", "failed"}]]
  <2>1. ASSUME NEW l \in Kinds, NEW v \in {"processing", "processed", "failed"},
               event' = [event EXCEPT ![s][l] = v]
        PROVE  event' \in [Sales -> [Kinds -> {"none", "processing", "processed", "failed"}]]
    BY <2>1 DEF OffersTypeInv, OffersTypeOK
  <2>2. CASE ClaimEvent(r)
    <3>1. event' = event \/ event' = [event EXCEPT ![s][k] = "processing"]
      BY <1>s, <1>k, <2>2 DEF ClaimEvent
    <3> QED
      BY <2>1, <3>1 DEF OffersTypeInv, OffersTypeOK
  <2>3. CASE Unapplied(r)
    <3>1. event' = [event EXCEPT ![s]["subscription"] = "failed"] /\ "subscription" \in Kinds
      BY <1>s, <2>3 DEF Unapplied, Kinds
    <3> QED
      BY <2>1, <3>1
  <2>4. ASSUME NEW l \in Kinds, Applied(r, l)
        PROVE  event' \in [Sales -> [Kinds -> {"none", "processing", "processed", "failed"}]]
    <3>1. event' = [event EXCEPT ![s][l] = "processed"]
      BY <1>s, <2>4 DEF Applied
    <3> QED
      BY <2>1, <3>1
  <2>5. CASE ApplyCompleted(r) \/ ApplySubscribed(r) \/ ApplyInvoiced(r)
    <3>1. "checkout" \in Kinds /\ "subscription" \in Kinds /\ "invoice" \in Kinds
      BY DEF Kinds
    <3> QED
      BY <2>4, <2>5, <3>1 DEF ApplyCompleted, ApplySubscribed, ApplyInvoiced
  <2> QED
    BY <2>2, <2>3, <2>5
<1> DEFINE Typed == /\ checkout' \in [Sales -> SaleRows \cup {NoSale}] /\ Sold(s)'
                    /\ subscription' \in [Sales -> SubscriptionRows \cup {Nil}]
                    /\ invoice' \in [Sales -> InvoiceRows \cup {Nil}]
                    /\ checkout'[s].price = checkout[s].price /\ checkout'[s].plan = checkout[s].plan
                    /\ checkout'[s].discount # "none" => checkout[s].discount # "none"
                    /\ \A t \in Sales \ {s} : checkout'[t] = checkout[t] /\ subscription'[t] = subscription[t]
<1>5. Typed
  <2>1. CASE ClaimEvent(r) \/ Unapplied(r)
    BY <1>1, <2>1 DEF ClaimEvent, Unapplied, OffersTypeInv, OffersTypeOK, Sold
  <2>2. CASE ApplyCompleted(r)
    <3> DEFINE x == [checkout[s] EXCEPT !.status = "complete",
                       !.discount = IF @ = "pending_checkout" THEN "active" ELSE @]
    <3>1. /\ x \in SaleRows /\ x.price = checkout[s].price /\ x.plan = checkout[s].plan
          /\ x.discount # "none" => checkout[s].discount # "none"
      BY <1>1 DEF SaleRows
    <3>2. checkout' = [checkout EXCEPT ![s] = x] /\ UNCHANGED <<subscription, invoice>>
      BY <1>s, <2>2 DEF ApplyCompleted, OffersTypeInv, OffersTypeOK
    <3> HIDE DEF x
    <3>3. checkout' \in [Sales -> SaleRows \cup {NoSale}] /\ checkout'[s] = x
          /\ \A t \in Sales \ {s} : checkout'[t] = checkout[t]
      BY <3>1, <3>2 DEF OffersTypeInv, OffersTypeOK
    <3> QED
      BY <3>1, <3>2, <3>3, Placeholders DEF OffersTypeInv, OffersTypeOK, Sold
  <2>3. CASE ApplySubscribed(r)
    <3>1. PICK i \in FoundBy(Mock, caller[r].ref) :
            subscription' = [subscription EXCEPT ![s] = Subscribed(i, checkout[s].quantity)]
      BY <1>s, <2>3 DEF ApplySubscribed
    <3>2. i \in Prices /\ price[i] \in PriceRows /\ checkout[s].quantity \in Nat
      BY <1>1 DEF FoundBy, OffersTypeInv, OffersTypeOK, SaleRows
    <3>3. Subscribed(i, checkout[s].quantity) \in SubscriptionRows
      BY <3>2 DEF Subscribed, SubscriptionRows, PriceRows
    <3> QED
      BY <1>1, <2>3, <3>1, <3>3 DEF ApplySubscribed, OffersTypeInv, OffersTypeOK, Sold
  <2>4. CASE ApplyInvoiced(r)
    <3> DEFINE y == [total |-> Due(s, caller[r].terms), price |-> FoundBy(Mock, caller[r].ref)]
    <3>1. caller[r].terms \in Terms \cup {Nil}
      BY <1>1 DEF VisitCalls
    <3>2. y \in InvoiceRows
      BY <1>1, <3>1, DueNumber DEF InvoiceRows, FoundBy
    <3>3. invoice' = [invoice EXCEPT ![s] = y]
      BY <1>s, <2>4 DEF ApplyInvoiced
    <3> HIDE DEF y
    <3>4. invoice' \in [Sales -> InvoiceRows \cup {Nil}]
      BY <3>2, <3>3 DEF OffersTypeInv, OffersTypeOK
    <3>5. UNCHANGED <<checkout, subscription>>
      BY <2>4 DEF ApplyInvoiced
    <3> QED
      BY <1>1, <3>4, <3>5 DEF OffersTypeInv, OffersTypeOK, Sold
  <2> QED
    BY <2>1, <2>2, <2>3, <2>4
<1> HIDE DEF Goes, Typed
<1>6. UNCHANGED <<provider, made, choice, chosen, basis, agreed, promised, edited, repriced>>
  BY DEF ClaimEvent, ApplyCompleted, ApplySubscribed, ApplyInvoiced, Unapplied, Applied, catalogue,
     couponRows, saleHistory
<1>7. OffersTypeOK'
  BY <1>2, <1>3, <1>4, <1>5, <1>6 DEF OffersTypeInv, OffersTypeOK, Goes, Typed
<1>8. Stays
  BY <1>2, <1>5 DEF Stays, Sold, Typed
<1>9. SaleThere(s)'
  BY <1>1, <1>2, <1>5 DEF SaleThere, OffersTypeInv, Typed
<1>10. CallThere(r)'
  BY <1>3, <1>5, NothingThere, VisitThere DEF Goes, Typed, Sold
<1>11. caller'[r] \in VisitCalls \cup {Waiting} /\ \A q \in Callers \ {r} : caller'[q] = caller[q]
  BY <1>3 DEF Goes
<1>12. \A t \in Sales \ {s} : checkout'[t] = checkout[t] /\ subscription'[t] = subscription[t]
  BY <1>5 DEF Typed
<1> QED
  BY <1>2, <1>7, <1>8, <1>9, <1>10, <1>11, <1>12, StaysThere

LEMMA DieTypeInv ==
  ASSUME OffersTypeInv, NEW r \in Callers, DieOnCall(r)
  PROVE  OffersTypeInv'
<1>1. /\ caller' \in [Callers -> CallerStates] /\ caller'[r] = Waiting
      /\ \A q \in Callers \ {r} : caller'[q] = caller[q]
  BY Returns DEF DieOnCall, OffersTypeInv
<1>2. OffersTypeOK'
  BY <1>1 DEF OffersTypeInv, OffersTypeOK, DieOnCall, catalogue, couponRows, saleRows, saleHistory
<1>3. Stays /\ UNCHANGED <<checkout, subscription, held>>
  BY DEF DieOnCall, catalogue, couponRows, saleRows, Stays, Sold
<1> QED
  BY <1>1, <1>2, <1>3, StaysThere, NothingThere

LEMMA OffersTypeInitially == OffersInit => OffersTypeInv
<1> SUFFICES ASSUME OffersInit PROVE OffersTypeInv
  OBVIOUS
<1>1. OffersTypeOK
  BY OffersAssumption DEF OffersInit, OffersTypeOK, CallerStates
<1>2. \A s \in Sales : SaleThere(s)
  BY DEF OffersInit, SaleThere, Sold
<1>3. \A r \in Callers : CallThere(r)
  BY Placeholders DEF OffersInit, CallThere
<1> QED
  BY <1>1, <1>2, <1>3 DEF OffersTypeInv

LEMMA OffersTypeStep ==
  ASSUME OffersTypeInv, [OffersNext]_offersVars
  PROVE  OffersTypeInv'
<1>1. CASE Administer
  BY <1>1, AdministerTypeInv
<1>2. ASSUME NEW r \in Callers, Manage(r)
      PROVE  OffersTypeInv'
  <2>1. CASE \/ \E p \in Providers \cup {Nil}, t \in Terms, typed, active \in BOOLEAN :
                  CallUpsertCoupon(r, p, t, typed, active)
             \/ CreateCoupon(r) \/ SaveCoupon(r)
    BY <2>1, CouponTypeInv
  <2>2. CASE \/ CallPage(r) \/ InsertDefault(r) \/ (\E p \in Providers : CallUpdateSettings(r, p))
             \/ UpdateSettings(r)
             \/ \E s \in Sales, i \in Prices, n \in Quantities, redeem \in BOOLEAN :
                  CallCheckout(r, s, i, n, redeem)
    BY <2>2, SettingsTypeInv
  <2>3. CASE \/ \E s \in Sales, i \in Prices, n \in Quantities : CallChangePlan(r, s, i, n)
             \/ ChangePlan(r)
    BY <2>3, ChangeTypeInv
  <2> QED
    BY <1>2, <2>1, <2>2, <2>3, ReadOfferTypeInv, OpenCheckoutTypeInv, InsertSessionTypeInv,
       InsertDiscountTypeInv DEF Manage
<1>3. ASSUME NEW r \in Callers, Shop(r)
      PROVE  OffersTypeInv'
  BY <1>3, VisitTypeInv, EventTypeInv DEF Shop
<1>4. CASE UNCHANGED offersVars
  <2>1. OffersTypeOK'
    BY <1>4 DEF offersVars, OffersTypeInv, OffersTypeOK, catalogue, couponRows, saleRows, saleHistory
  <2>2. Stays /\ UNCHANGED <<checkout, subscription, held, caller>>
    BY <1>4 DEF offersVars, catalogue, couponRows, saleRows, Stays, Sold
  <2> QED
    BY <2>1, <2>2, StaysThere
<1> QED
  BY <1>1, <1>2, <1>3, <1>4, SellTypeInv, DieTypeInv DEF OffersNext, Trade
-----------------------------------------------------------------------------
(* What is offered *)

\* A step that neither saves a coupon nor the settings, of a request that is not
\* about to save one.
LEMMA OffersRest ==
  ASSUME OffersTypeInv, OffersInv, UNCHANGED <<choice, chosen, coupon, made>>,
         \A q \in Callers : caller'[q] = caller[q] \/ caller'[q] \notin CouponCalls
  PROVE  OffersInv'
BY DEF OffersInv, MadeRule, OffersKept

LEMMA NotACoupon ==
  /\ Waiting \notin CouponCalls
  /\ \A c \in PageCalls \cup SettingsCalls \cup CheckoutCalls \cup ChangeCalls \cup VisitCalls :
       c \notin CouponCalls
BY DEF Waiting, CouponCalls, PageCalls, SettingsCalls, CheckoutCalls, ChangeCalls, VisitCalls

LEMMA CouponOffers ==
  ASSUME OffersTypeInv, OffersInv, NEW r \in Callers,
         \/ \E p \in Providers \cup {Nil}, t \in Terms, typed, active \in BOOLEAN :
              CallUpsertCoupon(r, p, t, typed, active)
         \/ CreateCoupon(r) \/ SaveCoupon(r)
  PROVE  OffersInv'
<1>1. ASSUME NEW p \in Providers \cup {Nil}, NEW t \in Terms, NEW typed \in BOOLEAN,
             NEW active \in BOOLEAN, CallUpsertCoupon(r, p, t, typed, active)
      PROVE  OffersInv'
  <2> DEFINE c == [at |-> IF p # Nil /\ ~typed THEN "make" ELSE "coupon", provider |-> p,
                   terms |-> t, typed |-> typed, active |-> active]
  <2>1. caller'[r] = c /\ \A q \in Callers \ {r} : caller'[q] = caller[q]
    BY <1>1 DEF CallUpsertCoupon, Begin, OffersTypeInv, OffersTypeOK
  <2>2. UNCHANGED <<choice, chosen, coupon, made>>
    BY <1>1 DEF CallUpsertCoupon, couponRows
  <2> QED
    BY <2>1, <2>2 DEF OffersInv, MadeRule, OffersKept
<1>2. CASE CreateCoupon(r)
  <2> DEFINE c == caller[r]
  <2>1. c \in CouponCalls /\ c.provider \in Providers \cup {Nil} /\ c.terms \in Terms
    BY <1>2, CallsAt DEF CreateCoupon, CallerAt, OffersTypeInv, OffersTypeOK, CouponCalls
  <2>2. UNCHANGED <<choice, chosen, coupon>> /\ \A q \in Callers \ {r} : caller'[q] = caller[q]
    BY <1>2 DEF CreateCoupon, Move, Return, OffersTypeInv, OffersTypeOK
  <2>3. \A p \in Providers : made[p] # Nil => made'[p] = made[p]
    BY <1>2 DEF CreateCoupon, OffersTypeInv, OffersTypeOK
  <2>4. caller'[r] \in CouponCalls /\ caller'[r].provider \notin {Nil, Mock}
        => made'[caller'[r].provider] = caller'[r].terms
    <3>1. CASE Makeable(c.provider)
      <4>1. caller'[r] = [c EXCEPT !.at = "coupon"]
        BY <1>2, <3>1 DEF CreateCoupon, Move, OffersTypeInv, OffersTypeOK
      <4>2. caller'[r].provider = c.provider /\ caller'[r].terms = c.terms
        BY <2>1, <4>1 DEF CouponCalls
      <4> QED
        BY <1>2, <2>1, <3>1, <4>2 DEF CreateCoupon, Makeable, OffersTypeInv, OffersTypeOK
    <3>2. CASE ~Makeable(c.provider)
      BY <1>2, <3>2, NotACoupon DEF CreateCoupon, Return, OffersTypeInv, OffersTypeOK
    <3> QED
      BY <3>1, <3>2
  <2>5. MadeRule'
    <3> SUFFICES ASSUME NEW q \in Callers, q # r, caller[q] \in CouponCalls, caller[q].at = "coupon",
                        ~caller[q].typed, caller[q].provider \notin {Nil, Mock}
                 PROVE  made'[caller[q].provider] = caller[q].terms
      BY <2>2, <2>4 DEF MadeRule
    <3>1. caller[q].provider \in Providers /\ caller[q].terms \in Terms
      BY DEF CouponCalls
    <3>2. made[caller[q].provider] = caller[q].terms
      BY DEF OffersInv, MadeRule
    <3> QED
      BY <2>3, <3>1, <3>2, Placeholders
  <2>6. OffersKept'
    <3>1. coupon # Nil => coupon.provider \in Providers \cup {Nil} /\ coupon.terms \in Terms
      BY DEF OffersTypeInv, OffersTypeOK, CouponRows
    <3> QED
      BY <2>2, <2>3, <3>1, Placeholders DEF OffersInv, OffersKept
  <2> QED
    BY <2>5, <2>6 DEF OffersInv
<1>3. CASE SaveCoupon(r)
  <2> DEFINE c == caller[r]
  <2>1. c \in CouponCalls /\ c.at = "coupon"
    BY <1>3, CallsAt DEF SaveCoupon, CallerAt, OffersTypeInv, OffersTypeOK
  <2>2. UNCHANGED <<choice, chosen, made>> /\ caller'[r] = Waiting
        /\ \A q \in Callers \ {r} : caller'[q] = caller[q]
    BY <1>3 DEF SaveCoupon, Return, OffersTypeInv, OffersTypeOK
  <2>3. coupon'.provider = c.provider /\ coupon'.terms = c.terms /\ coupon'.typed = c.typed
    BY <1>3 DEF SaveCoupon
  <2>4. MadeRule'
    BY <2>2, NotACoupon DEF OffersInv, MadeRule
  <2>5. OffersKept'
    BY <2>1, <2>2, <2>3 DEF OffersInv, MadeRule, OffersKept
  <2> QED
    BY <2>4, <2>5 DEF OffersInv
<1> QED
  BY <1>1, <1>2, <1>3

LEMMA SettingsMoves ==
  ASSUME OffersTypeInv, NEW r \in Callers,
         \/ CallPage(r) \/ InsertDefault(r) \/ (\E p \in Providers : CallUpdateSettings(r, p))
         \/ UpdateSettings(r)
         \/ \E s \in Sales, i \in Prices, n \in Quantities, redeem \in BOOLEAN :
              CallCheckout(r, s, i, n, redeem)
  PROVE  \A q \in Callers \ {r} : caller'[q] = caller[q]
<1>1. CASE CallPage(r) \/ \E s \in Sales, i \in Prices, n \in Quantities, redeem \in BOOLEAN :
                            CallCheckout(r, s, i, n, redeem)
  <2>1. PICK c : caller' = [caller EXCEPT ![r] = c]
    BY <1>1 DEF CallPage, CallCheckout, ReadTenantSettings, Begin
  <2> QED
    BY <2>1 DEF OffersTypeInv, OffersTypeOK
<1>2. CASE InsertDefault(r)
  BY <1>2, DefaultInserted DEF OffersTypeInv
<1>3. CASE UpdateSettings(r) \/ \E p \in Providers : CallUpdateSettings(r, p)
  BY <1>3 DEF CallUpdateSettings, UpdateSettings, Begin, Return, OffersTypeInv, OffersTypeOK
<1> QED
  BY <1>1, <1>2, <1>3

LEMMA SettingsOffers ==
  ASSUME OffersTypeInv, OffersInv, NEW r \in Callers,
         \/ CallPage(r) \/ InsertDefault(r) \/ (\E p \in Providers : CallUpdateSettings(r, p))
         \/ UpdateSettings(r)
         \/ \E s \in Sales, i \in Prices, n \in Quantities, redeem \in BOOLEAN :
              CallCheckout(r, s, i, n, redeem)
  PROVE  OffersInv'
<1>1. UNCHANGED <<coupon, made>>
  BY DEF CallPage, InsertDefault, CallUpdateSettings, UpdateSettings, CallCheckout, ReadTenantSettings,
     couponRows
<1>2. \A q \in Callers : caller'[q] = caller[q] \/ caller'[q] \notin CouponCalls
  <2>1. \A q \in Callers \ {r} : caller'[q] = caller[q]
    BY SettingsMoves
  <2>2. CASE CallPage(r) \/ \E s \in Sales, i \in Prices, n \in Quantities, redeem \in BOOLEAN :
                              CallCheckout(r, s, i, n, redeem)
    <3>1. \A n \in Quantities : n \in Nat
      BY OffersAssumption
    <3>2. caller'[r] \in PageCalls \cup CheckoutCalls \cup {Waiting}
      BY <2>2, <3>1, SettingsRead DEF CallPage, CallCheckout, OffersTypeInv
    <3> QED
      BY <2>1, <3>2, NotACoupon
  <2>3. CASE InsertDefault(r)
    BY <2>1, <2>3, DefaultInserted, NotACoupon DEF OffersTypeInv
  <2>4. CASE UpdateSettings(r) \/ \E p \in Providers : CallUpdateSettings(r, p)
    <3>1. caller'[r] = Waiting \/ caller'[r].at = "settings"
      BY <2>4 DEF CallUpdateSettings, UpdateSettings, Begin, Return, OffersTypeInv, OffersTypeOK
    <3> QED
      BY <2>1, <3>1, NotACoupon DEF CouponCalls
  <2> QED
    BY <2>2, <2>3, <2>4
<1>3. chosen # Nil => choice = chosen
  BY DEF OffersInv, OffersKept
<1>4. chosen' # Nil => choice' = chosen'
  <2>1. CASE InsertDefault(r)
    BY <1>3, <2>1 DEF InsertDefault, Insertable
  <2>2. CASE UpdateSettings(r)
    BY <2>2 DEF UpdateSettings
  <2>3. CASE CallPage(r) \/ \E p \in Providers : CallUpdateSettings(r, p)
    BY <1>3, <2>3 DEF CallPage, ReadTenantSettings, CallUpdateSettings
  <2>4. CASE \E s \in Sales, i \in Prices, n \in Quantities, redeem \in BOOLEAN :
               CallCheckout(r, s, i, n, redeem)
    BY <1>3, <2>4 DEF CallCheckout, ReadTenantSettings
  <2> QED
    BY <2>1, <2>2, <2>3, <2>4
<1> QED
  BY <1>1, <1>2, <1>4 DEF OffersInv, MadeRule, OffersKept

LEMMA OffersStep ==
  ASSUME OffersTypeInv, OffersInv, [OffersNext]_offersVars
  PROVE  OffersInv'
<1>1. CASE Administer
  BY <1>1, OffersRest DEF Administer, UpdatePaymentProvider, UpsertPlan, UpsertPrice, couponRows
<1>2. ASSUME NEW r \in Callers, Manage(r)
      PROVE  OffersInv'
  <2>1. CASE \/ \E p \in Providers \cup {Nil}, t \in Terms, typed, active \in BOOLEAN :
                  CallUpsertCoupon(r, p, t, typed, active)
             \/ CreateCoupon(r) \/ SaveCoupon(r)
    BY <2>1, CouponOffers
  <2>2. CASE \/ CallPage(r) \/ InsertDefault(r) \/ (\E p \in Providers : CallUpdateSettings(r, p))
             \/ UpdateSettings(r)
             \/ \E s \in Sales, i \in Prices, n \in Quantities, redeem \in BOOLEAN :
                  CallCheckout(r, s, i, n, redeem)
    BY <2>2, SettingsOffers
  <2>3. CASE \/ \E s \in Sales, i \in Prices, n \in Quantities : CallChangePlan(r, s, i, n)
             \/ ChangePlan(r)
    <3>1. UNCHANGED <<choice, chosen, coupon, made>>
      BY <2>3 DEF CallChangePlan, ChangePlan, couponRows
    <3>2. caller'[r] = Waiting \/ caller'[r].at = "change"
      BY <2>3 DEF CallChangePlan, ChangePlan, Begin, Return, OffersTypeInv, OffersTypeOK
    <3>3. \A q \in Callers \ {r} : caller'[q] = caller[q]
      BY <2>3 DEF CallChangePlan, ChangePlan, Begin, Return, OffersTypeInv, OffersTypeOK
    <3>4. caller'[r] \notin CouponCalls
      BY <3>2, NotACoupon DEF CouponCalls
    <3> QED
      BY <3>1, <3>3, <3>4, OffersRest
  <2>4. CASE \/ ReadProvider(r) \/ ReadPrice(r) \/ ReadCoupon(r) \/ OpenCheckout(r)
             \/ InsertSession(r) \/ InsertDiscount(r)
    <3>1. UNCHANGED <<choice, chosen, coupon, made>>
      BY <2>4 DEF ReadProvider, ReadPrice, ReadCoupon, OpenCheckout, InsertSession, InsertDiscount, couponRows
    <3>2. \A q \in Callers \ {r} : caller'[q] = caller[q]
      BY <2>4 DEF ReadProvider, ReadPrice, ReadCoupon, OpenCheckout, InsertSession, InsertDiscount, Move, Return, OffersTypeInv,
         OffersTypeOK
    <3>3. caller[r] \in CheckoutCalls
      BY <2>4, CheckoutAt DEF ReadProvider, ReadPrice, ReadCoupon, OpenCheckout, InsertSession, InsertDiscount
    <3>4. caller'[r] = Waiting \/ "op" \in DOMAIN caller'[r]
      BY <2>4, <3>3 DEF ReadProvider, ReadPrice, ReadCoupon, OpenCheckout, InsertSession, InsertDiscount, Move, Return,
         OffersTypeInv, OffersTypeOK, CheckoutCalls
    <3>5. caller'[r] \notin CouponCalls
      BY <3>4, NotACoupon DEF CouponCalls
    <3> QED
      BY <3>1, <3>2, <3>5, OffersRest
  <2> QED
    BY <1>2, <2>1, <2>2, <2>3, <2>4 DEF Manage
<1>3. ASSUME NEW r \in Callers, Shop(r) \/ DieOnCall(r)
      PROVE  OffersInv'
  <2>1. UNCHANGED <<choice, chosen, coupon, made>>
    BY <1>3 DEF Shop, Visit, ReadTerms, ClaimEvent, ApplyCompleted, ApplySubscribed, ApplyInvoiced,
       Unapplied, Applied, DieOnCall, couponRows
  <2>2. \A q \in Callers \ {r} : caller'[q] = caller[q]
    BY <1>3, VisitTypeInv, EventTypeInv DEF Shop, DieOnCall, Return, OffersTypeInv, OffersTypeOK
  <2>3. OffersTypeInv'
    BY <1>3, VisitTypeInv, EventTypeInv, DieTypeInv DEF Shop
  <2>4. caller'[r] \in VisitCalls \cup {Waiting}
    BY <1>3, VisitTypeInv, EventTypeInv DEF Shop, DieOnCall, Return, OffersTypeInv, OffersTypeOK
  <2> QED
    BY <2>1, <2>2, <2>4, NotACoupon, OffersRest
<1>4. ASSUME NEW s \in Sales, Sell(s) \/ HearOfSubscription(s) \/ ExpireSession(s)
      PROVE  OffersInv'
  BY <1>4, OffersRest DEF Sell, HearOfSubscription, ExpireSession, couponRows
<1>5. CASE UNCHANGED offersVars
  BY <1>5, OffersRest DEF offersVars, couponRows
<1> QED
  BY <1>1, <1>2, <1>3, <1>4, <1>5 DEF OffersNext, Trade
\* What a manager chose stays chosen, and a coupon is worth at its provider what
\* its row says (getTenantSettingsRow, updateTenantBillingSettings and
\* upsertCoupon of service.ts).
THEOREM CatalogueOffersKept == OffersSpec => []OffersKept
<1>1. OffersInit => OffersInv
  BY Placeholders DEF OffersInit, OffersInv, MadeRule, OffersKept
<1>2. OffersTypeInv /\ OffersInv /\ [OffersNext]_offersVars => OffersTypeInv' /\ OffersInv'
  BY OffersTypeStep, OffersStep
<1>3. OffersInv => OffersKept
  BY DEF OffersInv
<1> QED
  BY <1>1, <1>2, <1>3, OffersTypeInitially, PTL DEF OffersSpec

-----------------------------------------------------------------------------
(* What is sold *)

\* A step that leaves a sale, and what a request has read, as they are.
SameSale(s) ==
  /\ checkout'[s] = checkout[s] /\ subscription'[s] = subscription[s] /\ invoice'[s] = invoice[s]
  /\ event'[s] = event[s] /\ held'[s] = held[s] /\ basis'[s] = basis[s] /\ agreed'[s] = agreed[s]
  /\ promised'[s] = promised[s] /\ answered'[s] = answered[s]
  /\ s \in edited' <=> s \in edited
  /\ s \in repriced' <=> s \in repriced

LEMMA SaleKeeps ==
  ASSUME NEW s \in Sales, SaleRules(s), SameSale(s), UNCHANGED <<price, coupon>>
  PROVE  SaleRules(s)'
<1>1. SaleRule(s)'
  BY DEF SaleRules, SaleRule, SameSale, Sold, Backed, Subscribed
<1>2. TermsRule(s)' /\ EffectRule(s)'
  BY DEF SaleRules, TermsRule, EffectRule, SameSale
<1>3. SoldRule(s)'
  BY DEF SaleRules, SoldRule, SameSale, Due
<1> QED
  BY <1>1, <1>2, <1>3 DEF SaleRules

\* Requests that have a sale.
Selling(r) == caller[r] \in CheckoutCalls \cup ChangeCalls \cup VisitCalls
LEMMA CallKeeps ==
  ASSUME NEW r \in Callers, CallRules(r), caller'[r] = caller[r], price' = price,
         Selling(r) => SameSale(caller[r].sale)
  PROVE  CallRules(r)'
<1>1. AskRule(r)'
  BY DEF CallRules, AskRule, Selling, SameSale, Sold
<1>2. ChangeRule(r)'
  BY DEF CallRules, ChangeRule, Selling, SameSale, Sold
<1>3. VisitRule(r)'
  BY DEF CallRules, VisitRule, Selling, SameSale, Sold
<1> QED
  BY <1>1, <1>2, <1>3 DEF CallRules

\* A request with no sale has nothing to keep to.
LEMMA NothingSelling ==
  ASSUME NEW r \in Callers, \/ caller'[r] = Waiting
                            \/ caller'[r] \in CouponCalls \cup PageCalls \cup SettingsCalls
  PROVE  CallRules(r)' /\ ~Selling(r)'
BY DEF CallRules, Selling, AskRule, ChangeRule, VisitRule, Waiting, CouponCalls, PageCalls,
       SettingsCalls, CheckoutCalls, VisitCalls, ChangeCalls

\* A checkout that is alone with its sale, and an event that one applies, stay so
\* when only one request moves.
LEMMA AloneKeeps ==
  ASSUME NEW r \in Callers, AloneRule, \A q \in Callers \ {r} : caller'[q] = caller[q],
         caller'[r] \in CheckoutCalls =>
           \/ caller[r] \in CheckoutCalls /\ caller'[r].sale = caller[r].sale
           \/ \A q \in Callers \ {r} : caller[q] \in CheckoutCalls => caller[q].sale # caller'[r].sale,
         Applying(r)' =>
           \A q \in Callers \ {r} :
             Applying(q) => caller[q].sale # caller'[r].sale \/ caller[q].kind # caller'[r].kind
  PROVE  AloneRule'
BY DEF AloneRule, Applying
\* The steps of a request, at one sale or none.
LEMMA OneSale ==
  ASSUME OffersTypeInv, SalesInv, NEW r \in Callers, NEW s, UNCHANGED <<price, coupon>>,
         \A q \in Callers \ {r} : caller'[q] = caller[q],
         \A t \in Sales \ {s} : SameSale(t),
         s \in Sales => SaleRules(s)',
         \A q \in Callers \ {r} : Selling(q) /\ caller[q].sale = s => CallRules(q)',
         CallRules(r)', AloneRule'
  PROVE  SalesInv'
<1>1. ASSUME NEW t \in Sales PROVE SaleRules(t)'
  BY SaleKeeps DEF SalesInv
<1>2. ASSUME NEW q \in Callers PROVE CallRules(q)'
  <2>1. Selling(q) => caller[q].sale \in Sales
    BY DEF Selling, CheckoutCalls, ChangeCalls, VisitCalls
  <2> QED
    BY <2>1, CallKeeps DEF SalesInv
<1> QED
  BY <1>1, <1>2 DEF SalesInv

LEMMA NoSaleStep ==
  ASSUME OffersTypeInv, SalesInv, NEW r \in Callers, UNCHANGED <<price, coupon>>,
         \A q \in Callers \ {r} : caller'[q] = caller[q],
         \A t \in Sales : SameSale(t),
         CallRules(r)', AloneRule'
  PROVE  SalesInv'
<1>1. ASSUME NEW t \in Sales PROVE SaleRules(t)'
  BY SaleKeeps DEF SalesInv
<1>2. ASSUME NEW q \in Callers PROVE CallRules(q)'
  <2>1. Selling(q) => caller[q].sale \in Sales
    BY DEF Selling, CheckoutCalls, ChangeCalls, VisitCalls
  <2> QED
    BY <2>1, CallKeeps DEF SalesInv
<1> QED
  BY <1>1, <1>2 DEF SalesInv

\* A step that leaves sales alone, of a request that has no sale after it.
LEMMA SalesRest ==
  ASSUME OffersTypeInv, SalesInv, NEW r \in Callers, UNCHANGED <<price, coupon>>,
         \A q \in Callers \ {r} : caller'[q] = caller[q],
         UNCHANGED <<saleRows, saleHistory>>,
         caller'[r] = Waiting \/ caller'[r] \in CouponCalls \cup PageCalls \cup SettingsCalls
  PROVE  SalesInv'
<1>1. \A t \in Sales : SameSale(t)
  BY DEF SameSale, saleRows, saleHistory
<1>2. CallRules(r)' /\ ~Selling(r)'
  BY NothingSelling
<1>3. AloneRule'
  BY <1>2, AloneKeeps DEF SalesInv, Selling, Applying
<1> QED
  BY <1>1, <1>2, <1>3, NoSaleStep

LEMMA AdministerSales ==
  ASSUME OffersTypeInv, SalesInv, Administer
  PROVE  SalesInv'
<1>1. ASSUME UNCHANGED <<price, coupon, caller, saleRows, saleHistory>>
      PROVE  SalesInv'
  <2>1. \A t \in Sales : SameSale(t)
    BY <1>1 DEF SameSale, saleRows, saleHistory
  <2>2. AloneRule'
    BY <1>1 DEF SalesInv, AloneRule, Applying
  <2>3. \A q \in Callers : Selling(q) => caller[q].sale \in Sales
    BY DEF Selling, CheckoutCalls, ChangeCalls, VisitCalls
  <2> QED
    BY <1>1, <2>1, <2>2, <2>3, SaleKeeps, CallKeeps DEF SalesInv
<1>2. ASSUME NEW i \in Prices, NEW row \in PriceRows, UpsertPrice(i, row)
      PROVE  SalesInv'
  <2>1. /\ price' = [price EXCEPT ![i] = row] /\ edited' = edited \cup {s \in Sales : i \in basis[s]}
        /\ UNCHANGED <<coupon, caller, saleRows, basis, agreed, promised, repriced, answered>>
    BY <1>2 DEF UpsertPrice, couponRows
  <2>2. \A j \in Prices : /\ price[j] # Nil => price'[j] # Nil
                          /\ j # i => price'[j] = price[j]
    BY <2>1, Placeholders DEF OffersTypeInv, OffersTypeOK
  <2>3. ASSUME NEW s \in Sales, s \notin edited'
        PROVE  s \notin edited /\ \A j \in basis[s] : price'[j] = price[j]
    BY <2>1, <2>2, <2>3 DEF OffersTypeInv, OffersTypeOK
  <2>4. ASSUME NEW s \in Sales PROVE SaleRules(s)'
    <3>1. SaleRules(s)
      BY DEF SalesInv
    <3>2. UNCHANGED <<checkout, subscription, invoice, event, held>>
      BY <2>1 DEF saleRows
    <3>3. ASSUME Sold(s) PROVE checkout[s].price \in Prices
      BY <3>3, Placeholders DEF Sold, OffersTypeInv, OffersTypeOK, SaleRows
    <3>5. SaleRule(s)'
      <4>1. CASE ~Sold(s)
        BY <2>1, <3>1, <3>2, <4>1 DEF SaleRules, SaleRule, Sold
      <4>2. CASE Sold(s)
        <5>1. s \notin edited' =>
                /\ Backed(s, checkout[s].price, checkout[s].ref, checkout[s].quantity)'
                /\ held[s] # Nil => \E j \in Prices : Backed(s, j, held[s].ref, held[s].quantity)'
          <6>1. ASSUME s \notin edited'
                PROVE  /\ Backed(s, checkout[s].price, checkout[s].ref, checkout[s].quantity)
                       /\ held[s] # Nil => \E j \in Prices : Backed(s, j, held[s].ref, held[s].quantity)
            BY <2>3, <3>1, <4>2, <6>1 DEF SaleRules, SaleRule
          <6>2. s \notin edited' => Backed(s, checkout[s].price, checkout[s].ref, checkout[s].quantity)'
            BY <2>1, <2>3, <3>2, <6>1 DEF Backed, Subscribed
          <6>3. s \notin edited' /\ held[s] # Nil =>
                  \E j \in Prices : Backed(s, j, held[s].ref, held[s].quantity)'
            BY <2>1, <2>3, <3>2, <6>1 DEF Backed, Subscribed
          <6> QED
            BY <6>2, <6>3
        <5>2. price'[checkout[s].price] # Nil
          BY <2>2, <3>1, <3>3, <4>2 DEF SaleRules, SaleRule
        <5>3. checkout[s].told => (checkout[s].discount # "none" <=> promised[s] # Nil)
          BY <3>1, <4>2 DEF SaleRules, SaleRule
        <5> QED
          BY <2>1, <3>2, <4>2, <5>1, <5>2, <5>3 DEF SaleRule, Sold, Backed, Subscribed
      <4> QED
        BY <4>1, <4>2
    <3>6. TermsRule(s)' /\ EffectRule(s)'
      BY <2>1, <3>1, <3>2 DEF SaleRules, TermsRule, EffectRule
    <3>7. SoldRule(s)'
      BY <2>1, <2>3, <3>1, <3>2 DEF SaleRules, SoldRule, Due
    <3> QED
      BY <3>5, <3>6, <3>7 DEF SaleRules
  <2>5. ASSUME NEW q \in Callers PROVE CallRules(q)'
    <3>1. CallRules(q)
      BY DEF SalesInv
    <3>2. UNCHANGED <<checkout, subscription, invoice, event, held>>
      BY <2>1 DEF saleRows
    <3>3. AskRule(q)'
      <4>1. caller[q] \in CheckoutCalls => caller[q].price \in Prices /\ caller[q].sale \in Sales
        BY DEF CheckoutCalls
      <4> QED
        BY <2>1, <2>2, <2>3, <3>1, <3>2, <4>1 DEF CallRules, AskRule, Sold
    <3>4. ChangeRule(q)'
      <4>1. caller[q] \in ChangeCalls => caller[q].price \in Prices /\ caller[q].sale \in Sales
        BY DEF ChangeCalls
      <4> QED
        BY <2>1, <2>2, <2>3, <3>1, <3>2, <4>1 DEF CallRules, ChangeRule, Sold
    <3>5. VisitRule(q)'
      <4>1. ASSUME caller[q] \in VisitCalls, caller[q].sale \notin edited'
            PROVE  price'[checkout[caller[q].sale].price] = price[checkout[caller[q].sale].price]
        <5>s. PICK s \in Sales : s = caller[q].sale
          BY <4>1 DEF VisitCalls
        <5>1. Sold(s) /\ s \notin edited
          BY <3>1, <4>1, <5>s, <2>3 DEF CallRules, VisitRule
        <5>2. checkout[s].price \in basis[s]
          BY <5>1 DEF SalesInv, SaleRules, SaleRule, Backed
        <5> QED
          BY <2>3, <4>1, <5>s, <5>2
      <4>2. caller[q] \in VisitCalls => caller[q].sale \in Sales
        BY DEF VisitCalls
      <4> QED
        BY <2>1, <2>3, <3>1, <3>2, <4>1, <4>2 DEF CallRules, VisitRule, Sold
    <3> QED
      BY <3>3, <3>4, <3>5 DEF CallRules
  <2>6. AloneRule'
    BY <2>1 DEF SalesInv, AloneRule, Applying
  <2> QED
    BY <2>4, <2>5, <2>6 DEF SalesInv
<1>3. CASE \/ \E p \in Providers, row \in ProviderRows : UpdatePaymentProvider(p, row)
           \/ \E l \in Plans, row \in PlanRows : UpsertPlan(l, row)
  BY <1>1, <1>3 DEF UpdatePaymentProvider, UpsertPlan, couponRows
<1> QED
  BY <1>2, <1>3 DEF Administer
LEMMA CouponSales ==
  ASSUME OffersTypeInv, SalesInv, NEW r \in Callers,
         \/ \E p \in Providers \cup {Nil}, t \in Terms, typed, active \in BOOLEAN :
              CallUpsertCoupon(r, p, t, typed, active)
         \/ CreateCoupon(r) \/ SaveCoupon(r)
  PROVE  SalesInv'
<1>1. \A q \in Callers \ {r} : caller'[q] = caller[q]
  BY DEF CallUpsertCoupon, CreateCoupon, SaveCoupon, Begin, Move, Return, OffersTypeInv, OffersTypeOK
<1>2. caller'[r] = Waiting \/ caller'[r] \in CouponCalls
  <2>1. CASE CreateCoupon(r)
    <3>1. caller[r] \in CouponCalls
      BY <2>1, CallsAt DEF CreateCoupon, CallerAt, OffersTypeInv, OffersTypeOK
    <3> QED
      BY <2>1, <3>1, CallFields DEF CreateCoupon, Move, Return, OffersTypeInv, OffersTypeOK
  <2>2. CASE SaveCoupon(r)
    BY <2>2 DEF SaveCoupon, Return, OffersTypeInv, OffersTypeOK
  <2>3. ASSUME NEW p \in Providers \cup {Nil}, NEW t \in Terms, NEW typed \in BOOLEAN,
               NEW active \in BOOLEAN, CallUpsertCoupon(r, p, t, typed, active)
        PROVE  caller'[r] \in CouponCalls
    BY <2>3 DEF CallUpsertCoupon, Begin, OffersTypeInv, OffersTypeOK, CouponCalls
  <2> QED
    BY <2>1, <2>2, <2>3
<1>3. CASE UNCHANGED <<price, coupon, saleRows, saleHistory>>
  BY <1>1, <1>2, <1>3, SalesRest
<1>4. CASE SaveCoupon(r)
  <2>1. /\ repriced' = repriced \cup {s \in Sales : promised[s] # Nil}
        /\ UNCHANGED <<price, basis, agreed, edited, promised, answered, checkout, subscription,
                       invoice, event, held>>
    BY <1>4 DEF SaveCoupon, catalogue, saleRows
  <2>2. coupon' # Nil
    <3>1. caller[r] \in CouponCalls
      BY <1>4, CallsAt DEF SaveCoupon, CallerAt, OffersTypeInv, OffersTypeOK
    <3>2. coupon' \in CouponRows
      BY <1>4, <3>1 DEF SaveCoupon, CouponRows, CouponCalls
    <3> QED
      BY <3>2, Placeholders
  <2>3. ASSUME NEW s \in Sales PROVE SaleRules(s)'
    <3>1. SaleRules(s)
      BY DEF SalesInv
    <3>2. SaleRule(s)'
      BY <2>1, <3>1 DEF SaleRules, SaleRule, Sold, Backed, Subscribed
    <3>3. TermsRule(s)' /\ EffectRule(s)'
      BY <2>1, <2>2, <3>1 DEF SaleRules, TermsRule, EffectRule
    <3>4. SoldRule(s)'
      BY <2>1, <3>1 DEF SaleRules, SoldRule, Due
    <3> QED
      BY <3>2, <3>3, <3>4 DEF SaleRules
  <2>4. ASSUME NEW q \in Callers PROVE CallRules(q)'
    <3>1. CASE q = r
      BY <1>2, <3>1, NothingSelling
    <3>2. CASE q # r
      <4>1. CallRules(q) /\ caller'[q] = caller[q]
        BY <1>1, <3>2 DEF SalesInv
      <4>2. AskRule(q)' /\ ChangeRule(q)' /\ VisitRule(q)'
        BY <2>1, <4>1 DEF CallRules, AskRule, ChangeRule, VisitRule, Sold
      <4> QED
        BY <4>2 DEF CallRules
    <3> QED
      BY <3>1, <3>2
  <2>5. AloneRule'
    <3>1. ~Selling(r)'
      BY <1>2, NothingSelling
    <3> QED
      BY <1>1, <3>1, AloneKeeps DEF SalesInv, Selling, Applying
  <2> QED
    BY <2>3, <2>4, <2>5 DEF SalesInv
<1> QED
  BY <1>3, <1>4 DEF CallUpsertCoupon, CreateCoupon, catalogue, couponRows

\* A checkout that has the settings, and asks for its offer next, is alone with
\* its sale, of which there is no session.
LEMMA SettingsSales ==
  ASSUME OffersTypeInv, SalesInv, NEW r \in Callers,
         \/ CallPage(r) \/ InsertDefault(r) \/ (\E p \in Providers : CallUpdateSettings(r, p))
         \/ UpdateSettings(r)
         \/ \E s \in Sales, i \in Prices, n \in Quantities, redeem \in BOOLEAN :
              CallCheckout(r, s, i, n, redeem)
  PROVE  SalesInv'
<1>1. UNCHANGED <<price, coupon, saleRows, saleHistory>>
  BY DEF CallPage, InsertDefault, CallUpdateSettings, UpdateSettings, CallCheckout, ReadTenantSettings,
     catalogue, couponRows
<1>2. \A q \in Callers \ {r} : caller'[q] = caller[q]
  BY SettingsMoves
<1>3. \A t \in Sales : SameSale(t)
  BY <1>1 DEF SameSale, saleRows, saleHistory
<1>4. ASSUME NEW s \in Sales, ~Sold(s), caller'[r] \in CheckoutCalls, caller'[r].sale = s,
             caller'[r].at \in {"default", "offer"},
             \/ caller[r] \in CheckoutCalls /\ caller[r].sale = s
             \/ \A q \in Callers \ {r} : caller[q] \in CheckoutCalls => caller[q].sale # s
      PROVE  SalesInv'
  <2>1. caller'[r] \notin ChangeCalls \cup VisitCalls
    BY <1>4 DEF CheckoutCalls, ChangeCalls, VisitCalls
  <2>2. CallRules(r)'
    <3>1. ~Sold(s)'
      BY <1>3, <1>4 DEF SameSale, Sold
    <3>2. AskRule(r)'
      BY <1>4, <3>1 DEF AskRule, Sold
    <3> QED
      BY <2>1, <3>2 DEF CallRules, ChangeRule, VisitRule
  <2>3. AloneRule'
    BY <1>2, <1>4, <2>1, AloneKeeps DEF SalesInv, Applying
  <2> QED
    BY <1>1, <1>2, <1>3, <2>2, <2>3, NoSaleStep
<1>5. CASE caller'[r] = Waiting \/ caller'[r] \in PageCalls \cup SettingsCalls
  BY <1>1, <1>2, <1>5, SalesRest
<1>6. CASE CallPage(r)
  <2>1. PICK p \in Providers : ReadTenantSettings(r, [op |-> "page", at |-> "", provider |-> Nil], p)
    BY <1>6 DEF CallPage
  <2>2. caller'[r] \in PageCalls \cup {Waiting}
    BY <2>1, SettingsRead DEF OffersTypeInv
  <2> QED
    BY <1>5, <2>2
<1>7. CASE InsertDefault(r)
  <2>1. caller'[r] \in CheckoutCalls \cup {Waiting}
    BY <1>7, DefaultInserted DEF OffersTypeInv
  <2>2. CASE caller'[r] \in CheckoutCalls
    <3>1. /\ caller'[r].at = "offer" /\ caller[r] \in CheckoutCalls /\ caller'[r].sale = caller[r].sale
          /\ caller[r].at = "default"
      BY <1>7, <2>2, DefaultInserted DEF OffersTypeInv
    <3>2. caller[r].sale \in Sales
      BY <3>1 DEF CheckoutCalls
    <3>3. ~Sold(caller[r].sale)
      BY <3>1 DEF SalesInv, CallRules, AskRule
    <3> QED
      BY <1>4, <2>2, <3>1, <3>2, <3>3
  <2> QED
    BY <1>5, <2>1, <2>2
<1>8. CASE UpdateSettings(r) \/ \E p \in Providers : CallUpdateSettings(r, p)
  <2>1. caller'[r] = Waiting \/ caller'[r] \in SettingsCalls
    BY <1>8 DEF CallUpdateSettings, UpdateSettings, Begin, Return, OffersTypeInv, OffersTypeOK, SettingsCalls
  <2> QED
    BY <1>5, <2>1
<1>9. ASSUME NEW s \in Sales, NEW i \in Prices, NEW n \in Quantities, NEW redeem \in BOOLEAN,
             CallCheckout(r, s, i, n, redeem)
      PROVE  SalesInv'
  <2> DEFINE in == [op |-> "checkout", at |-> "", provider |-> Nil, sale |-> s, price |-> i,
                    quantity |-> n, redeem |-> redeem, row |-> Nil, caps |-> {}]
  <2>1. PICK p \in Providers : ReadTenantSettings(r, in, p)
    BY <1>9 DEF CallCheckout
  <2>2. n \in Nat
    BY OffersAssumption
  <2>3. /\ caller'[r] \in PageCalls \cup CheckoutCalls \cup {Waiting}
        /\ caller'[r] \in CheckoutCalls => caller'[r].at \in {"default", "offer"}
                                           /\ caller'[r].sale = s
    <3>1. /\ in \in [op : {"checkout"}, at : {""}, provider : {Nil}, sale : Sales, price : Prices,
                    quantity : Nat, redeem : BOOLEAN, row : {Nil}, caps : {{}}]
          /\ in.sale = s
      BY <2>2
    <3> HIDE DEF in
    <3> QED
      BY <2>1, <3>1, SettingsRead DEF OffersTypeInv
  <2>4. ~Sold(s) /\ \A q \in Callers : caller[q] \in CheckoutCalls => caller[q].sale # s
    BY <1>9 DEF CallCheckout, Sold, CheckoutCalls
  <2> QED
    BY <1>4, <1>5, <2>3, <2>4
<1> QED
  BY <1>6, <1>7, <1>8, <1>9
\* Nobody else has the sale of a checkout without a session.
LEMMA AskingAlone ==
  ASSUME SalesInv, NEW r \in Callers, caller[r] \in CheckoutCalls
  PROVE  /\ \A q \in Callers \ {r} :
              Selling(q) /\ caller[q].sale = caller[r].sale =>
                caller[q] \in ChangeCalls \cup VisitCalls /\ Sold(caller[r].sale)
         /\ ( \A q \in Callers \ {r} : caller'[q] = caller[q] ) /\ ~Applying(r)'
            /\ (caller'[r] \in CheckoutCalls => caller'[r].sale = caller[r].sale) => AloneRule'
<1>1. \A q \in Callers \ {r} : Selling(q) /\ caller[q].sale = caller[r].sale =>
                                 caller[q] \in ChangeCalls \cup VisitCalls /\ Sold(caller[r].sale)
  BY DEF SalesInv, AloneRule, Selling, CallRules, ChangeRule, VisitRule
<1> QED
  BY <1>1, AloneKeeps DEF SalesInv

\* A checkout that goes on to its next reading, with what the rules say of it.
LEMMA ReadOnSales ==
  ASSUME OffersTypeInv, SalesInv, NEW r \in Callers, NEW s \in Sales,
         caller[r] \in CheckoutCalls, caller[r].sale = s, ~Sold(s),
         NEW d \in CheckoutCalls, caller' = [caller EXCEPT ![r] = d], d.sale = s,
         AskRule(r)', TermsRule(s)', \A t \in Sales \ {s} : SameSale(t),
         UNCHANGED <<price, coupon, saleRows, answered>>
  PROVE  SalesInv'
<1>1. caller'[r] = d /\ \A q \in Callers \ {r} : caller'[q] = caller[q]
  BY DEF OffersTypeInv, OffersTypeOK
<1>2. d \notin ChangeCalls \cup VisitCalls
  BY DEF CheckoutCalls, ChangeCalls, VisitCalls
<1>3. ~Sold(s)'
  BY DEF Sold, saleRows
<1>4. SaleRules(s)'
  <2>1. SaleRule(s) /\ EffectRule(s)
    BY DEF SalesInv, SaleRules
  <2>2. SaleRule(s)' /\ SoldRule(s)'
    BY <1>3, <2>1 DEF SaleRule, SoldRule, saleRows
  <2>3. EffectRule(s)'
    BY <2>1 DEF EffectRule, saleRows
  <2> QED
    BY <2>2, <2>3 DEF SaleRules
<1>5. CallRules(r)'
  BY <1>1, <1>2 DEF CallRules, ChangeRule, VisitRule
<1>6. AloneRule'
  BY <1>1, <1>2, AskingAlone DEF Applying
<1> QED
  BY <1>1, <1>3, <1>4, <1>5, <1>6, AskingAlone, OneSale

LEMMA ReadOfferSales ==
  ASSUME OffersTypeInv, SalesInv, NEW r \in Callers, ReadProvider(r) \/ ReadPrice(r) \/ ReadCoupon(r)
  PROVE  SalesInv'
<1>s. PICK s \in Sales : s = caller[r].sale
  BY CheckoutAt DEF ReadProvider, ReadPrice, ReadCoupon
<1> DEFINE c == caller[r]
<1>1. c \in CheckoutCalls /\ c.price \in Prices /\ c.provider \in Providers /\ c.redeem \in BOOLEAN
  BY CheckoutAt DEF ReadProvider, ReadPrice, ReadCoupon
<1>2. c.at \in {"offer", "price", "redeem"} /\ UNCHANGED <<price, plan, coupon, saleRows, agreed, answered>>
  BY DEF ReadProvider, ReadPrice, ReadCoupon, catalogue, couponRows, saleHistory, CallerAt
<1>3. AskRule(r) /\ TermsRule(s)
  BY DEF SalesInv, CallRules, SaleRules
<1>4. ~Sold(s) /\ ~Sold(s)'
  BY <1>s, <1>1, <1>2, <1>3 DEF AskRule, Sold, saleRows
<1>5. CASE Return(r) /\ UNCHANGED <<basis, edited, promised, repriced>>
  <2>1. caller'[r] = Waiting /\ \A q \in Callers \ {r} : caller'[q] = caller[q]
    BY <1>5 DEF Return, OffersTypeInv, OffersTypeOK
  <2> QED
    BY <1>2, <1>5, <2>1, SalesRest DEF saleHistory
<1>6. CASE ReadProvider(r) /\ ~Return(r)
  <2> DEFINE d == [c EXCEPT !.at = "price", !.caps = provider[c.provider].caps]
  <2>1. provider[c.provider].caps \in SUBSET Capabilities
    BY <1>1 DEF OffersTypeInv, OffersTypeOK, ProviderRows
  <2>2. d \in CheckoutCalls /\ d.at = "price" /\ d.sale = s
    BY <1>s, <1>1, <2>1, CallFields DEF CheckoutCalls
  <2>3. caller' = [caller EXCEPT ![r] = d] /\ UNCHANGED <<basis, edited, promised, repriced>>
    BY <1>6 DEF ReadProvider, saleHistory
  <2> HIDE DEF d
  <2>4. caller'[r] = d
    BY <2>3 DEF OffersTypeInv, OffersTypeOK
  <2>5. AskRule(r)' /\ TermsRule(s)' /\ \A t \in Sales : SameSale(t)
    BY <1>2, <1>3, <1>4, <2>2, <2>3, <2>4 DEF AskRule, TermsRule, SameSale, saleRows
  <2> QED
    BY <1>s, <1>1, <1>2, <1>4, <2>2, <2>3, <2>5, ReadOnSales
<1>7. CASE ReadPrice(r) /\ OnOffer(c.price, c.provider)
  <2> DEFINE row == price[c.price]
             at == IF c.redeem THEN "redeem" ELSE "plan"
             d == [c EXCEPT !.at = at, !.row = row]
  <2>1. row \in PriceRows /\ row # Nil /\ row.provider = c.provider
    BY <1>1, <1>7, Placeholders DEF OnOffer, OffersTypeInv, OffersTypeOK
  <2>a. at \in {"redeem", "plan"} /\ at = (IF c.redeem THEN "redeem" ELSE "plan")
    OBVIOUS
  <2>c. row = price[c.price]
    OBVIOUS
  <2>3. /\ caller' = [caller EXCEPT ![r] = d] /\ basis' = [basis EXCEPT ![c.sale] = {c.price}]
        /\ edited' = edited \ {c.sale} /\ promised' = [promised EXCEPT ![c.sale] = Nil]
        /\ repriced' = repriced \ {c.sale}
    BY <1>7 DEF ReadPrice
  <2> HIDE DEF row, at
  <2>b. d \in CheckoutCalls
    BY <1>1, <2>1, <2>a, CallFields
  <2>2. /\ d \in CheckoutCalls /\ d.row = row /\ d.price = c.price /\ d.redeem = c.redeem
        /\ d.at = (IF c.redeem THEN "redeem" ELSE "plan") /\ d.sale = s /\ d.provider = c.provider
    BY <1>s, <1>1, <2>a, <2>b DEF CheckoutCalls
  <2> HIDE DEF d
  <2>4. caller'[r] = d /\ basis'[s] = {c.price} /\ promised'[s] = Nil
    BY <1>s, <2>3 DEF OffersTypeInv, OffersTypeOK
  <2>5. AskRule(r)'
    BY <1>1, <1>2, <1>4, <2>1, <2>2, <2>c, <2>4 DEF AskRule
  <2>6. TermsRule(s)'
    BY <2>4 DEF TermsRule
  <2>7. \A t \in Sales \ {s} : SameSale(t)
    BY <1>s, <1>2, <2>3 DEF SameSale, saleRows, OffersTypeInv, OffersTypeOK
  <2> QED
    BY <1>s, <1>1, <1>2, <1>4, <2>2, <2>3, <2>5, <2>6, <2>7, ReadOnSales
<1>8. CASE ReadCoupon(r) /\ RedeemableAt(c.provider) /\ "coupons" \in c.caps
  <2> DEFINE d == [c EXCEPT !.at = "plan"]
  <2>1. c.at = "redeem"
    BY <1>8 DEF ReadCoupon, CallerAt
  <2>2. /\ d \in CheckoutCalls /\ d.row = c.row /\ d.price = c.price /\ d.redeem = c.redeem
        /\ d.at = "plan" /\ d.sale = s /\ d.provider = c.provider
    BY <1>s, <1>1 DEF CheckoutCalls
  <2>3. /\ caller' = [caller EXCEPT ![r] = d] /\ UNCHANGED <<basis, edited>>
        /\ promised' = [promised EXCEPT ![c.sale] = coupon.terms]
        /\ repriced' = repriced \ {c.sale}
    BY <1>8 DEF ReadCoupon, Move
  <2> HIDE DEF d
  <2>4. caller'[r] = d /\ promised'[s] = coupon.terms
    BY <1>s, <2>3 DEF OffersTypeInv, OffersTypeOK
  <2>5. coupon # Nil /\ coupon.terms # Nil
    BY <1>8, Placeholders DEF RedeemableAt, OffersTypeInv, OffersTypeOK, CouponRows
  <2>6. AskRule(r)'
    BY <1>s, <1>1, <1>2, <1>3, <1>4, <2>1, <2>2, <2>3, <2>4, <2>5 DEF AskRule
  <2>7. TermsRule(s)'
    BY <1>2, <2>4, <2>5 DEF TermsRule
  <2>8. \A t \in Sales \ {s} : SameSale(t)
    BY <1>s, <1>2, <2>3 DEF SameSale, saleRows, OffersTypeInv, OffersTypeOK
  <2> QED
    BY <1>s, <1>1, <1>2, <1>4, <2>2, <2>3, <2>6, <2>7, <2>8, ReadOnSales
<1> QED
  BY <1>5, <1>6, <1>7, <1>8 DEF ReadProvider, ReadPrice, ReadCoupon, saleHistory

LEMMA OpenCheckoutSales ==
  ASSUME OffersTypeInv, SalesInv, NEW r \in Callers, OpenCheckout(r)
  PROVE  SalesInv'
<1>s. PICK s \in Sales : s = caller[r].sale
  BY CheckoutAt DEF OpenCheckout
<1> DEFINE c == caller[r]
           n == Counted(c.row, c.quantity)
           d == [c EXCEPT !.at = "session", !.quantity = n]
           a == [price |-> c.price, plan |-> c.row.plan, quantity |-> n]
<1>1. c \in CheckoutCalls /\ c.at = "plan"
  BY CheckoutAt DEF OpenCheckout, CallerAt
<1>2. UNCHANGED <<price, coupon, saleRows, basis, edited, promised, repriced, answered>>
  BY DEF OpenCheckout, catalogue, couponRows
<1>3. \A q \in Callers \ {r} : caller'[q] = caller[q]
  BY DEF OpenCheckout, Return, OffersTypeInv, OffersTypeOK
<1>4. CASE caller' = [caller EXCEPT ![r] = d] /\ agreed' = [agreed EXCEPT ![c.sale] = {a}]
  <2>1. /\ d.at = "session" /\ d.row = c.row /\ d.price = c.price /\ d.sale = s
        /\ d.redeem = c.redeem /\ d.provider = c.provider /\ d.quantity = n
    BY <1>s, <1>1 DEF CheckoutCalls
  <2>2. d \notin ChangeCalls \cup VisitCalls
    BY <2>1 DEF ChangeCalls, VisitCalls
  <2>3. caller'[r] = d
    BY <1>4 DEF OffersTypeInv, OffersTypeOK
  <2> HIDE DEF d, n
  <2>4. ~Sold(s) /\ ~Sold(s)'
    BY <1>s, <1>1, <1>2 DEF SalesInv, CallRules, AskRule, Sold, saleRows
  <2>5. agreed'[s] = {a}
    BY <1>s, <1>4 DEF OffersTypeInv, OffersTypeOK
  <2>6. \A t \in Sales \ {s} : SameSale(t)
    BY <1>s, <1>2, <1>4 DEF SameSale, saleRows, OffersTypeInv, OffersTypeOK
  <2>7. SaleRules(s)'
    <3>1. SaleRule(s) /\ EffectRule(s) /\ TermsRule(s)
      BY DEF SalesInv, SaleRules
    <3>2. SaleRule(s)' /\ SoldRule(s)'
      BY <1>2, <2>4, <3>1 DEF SaleRule, SoldRule, saleRows
    <3>3. EffectRule(s)' /\ TermsRule(s)'
      BY <1>2, <3>1 DEF EffectRule, TermsRule, saleRows
    <3> QED
      BY <3>2, <3>3 DEF SaleRules
  <2>8. CallRules(r)'
    <3>1. AskRule(r)
      BY DEF SalesInv, CallRules
    <3>2. AskRule(r)'
      BY <1>s, <1>1, <1>2, <2>1, <2>3, <2>4, <2>5, <3>1 DEF AskRule
    <3> QED
      BY <2>2, <2>3, <3>2 DEF CallRules, ChangeRule, VisitRule
  <2>9. AloneRule'
    BY <1>s, <1>1, <1>3, <2>1, <2>2, <2>3, AskingAlone DEF Applying
  <2> QED
    BY <1>s, <1>1, <1>2, <1>3, <2>4, <2>6, <2>7, <2>8, <2>9, AskingAlone, OneSale
<1>5. CASE Return(r) /\ UNCHANGED agreed
  <2>1. caller'[r] = Waiting
    BY <1>5 DEF Return, OffersTypeInv, OffersTypeOK
  <2> QED
    BY <1>2, <1>3, <1>5, <2>1, SalesRest DEF saleHistory
<1> QED
  BY <1>4, <1>5 DEF OpenCheckout
LEMMA InsertSessionSales ==
  ASSUME OffersTypeInv, SalesInv, NEW r \in Callers, InsertSession(r)
  PROVE  SalesInv'
<1>s. PICK s \in Sales : s = caller[r].sale
  BY CheckoutAt DEF InsertSession
<1> DEFINE c == caller[r]
           x == [status |-> "open", provider |-> c.provider, price |-> c.price, plan |-> c.row.plan,
                 mode |-> Mode(c.row), ref |-> c.row.ref, quantity |-> c.quantity,
                 amount |-> c.row.amount * c.quantity, discount |-> "none", told |-> ~c.redeem,
                 expired |-> FALSE]
           d == [c EXCEPT !.at = "discount"]
<1>1. c \in CheckoutCalls /\ c.at = "session" /\ c.price \in Prices /\ c.redeem \in BOOLEAN
  BY CheckoutAt DEF InsertSession, CallerAt
<1>2. UNCHANGED <<price, coupon, subscription, invoice, event, held, saleHistory>>
  BY DEF InsertSession, catalogue, couponRows
<1>3. /\ \A q \in Callers \ {r} : caller'[q] = caller[q]
      /\ IF c.redeem THEN caller'[r] \in CheckoutCalls /\ caller'[r] = d ELSE caller'[r] = Waiting
      /\ checkout'[s] \in SaleRows
  BY <1>s, InsertSessionTypeInv
<1>4. checkout'[s] = x /\ \A t \in Sales \ {s} : checkout'[t] = checkout[t]
  BY <1>s DEF InsertSession, OffersTypeInv, OffersTypeOK
<1>5. /\ x.provider = c.provider /\ x.price = c.price /\ x.ref = c.row.ref /\ x.quantity = c.quantity
      /\ x.discount = "none" /\ x.told = ~c.redeem
  OBVIOUS
<1> HIDE DEF x
<1>6. ~Sold(s) /\ Sold(s)'
  BY <1>s, <1>1, <1>3, Placeholders DEF SalesInv, CallRules, AskRule, Sold
<1>7. \A t \in Sales \ {s} : SameSale(t)
  BY <1>2, <1>4 DEF SameSale, saleHistory
<1>8. /\ c.row # Nil /\ c.row.provider = c.provider /\ price[c.price] # Nil
      /\ promised[s] # Nil <=> c.redeem
      /\ s \notin edited => c.price \in basis[s] /\ price[c.price] = c.row
      /\ [price |-> c.price, plan |-> c.row.plan, quantity |-> c.quantity] \in agreed[s]
  BY <1>s, <1>1 DEF SalesInv, CallRules, AskRule
<1>9. SaleRules(s)'
  <2>1. SaleRule(s) /\ EffectRule(s) /\ TermsRule(s)
    BY DEF SalesInv, SaleRules
  <2>2. UNCHANGED <<basis, agreed, edited, promised, repriced, answered>>
    BY <1>2 DEF saleHistory
  <2>3. /\ subscription[s] = Nil /\ invoice[s] = Nil /\ held[s] = Nil /\ answered[s] = {}
        /\ \A k \in Kinds : event[s][k] = "none"
    BY <1>6, <2>1 DEF SaleRule
  <2>5. SaleRule(s)'
    <3>1. checkout'[s].price = c.price /\ checkout'[s].told = ~c.redeem /\ checkout'[s].discount = "none"
      BY <1>4, <1>5
    <3>2. s \notin edited => Backed(s, checkout[s].price, checkout[s].ref, checkout[s].quantity)'
      BY <1>2, <1>4, <1>5, <1>8, <2>2 DEF Backed, Subscribed
    <3> QED
      BY <1>1, <1>2, <1>6, <1>8, <2>2, <2>3, <3>1, <3>2 DEF SaleRule
  <2>6. EffectRule(s)' /\ SoldRule(s)' /\ TermsRule(s)'
    <3>1. "checkout" \in Kinds /\ "subscription" \in Kinds /\ "invoice" \in Kinds
      BY DEF Kinds
    <3> QED
      BY <1>2, <2>1, <2>2, <2>3, <3>1 DEF EffectRule, SoldRule, TermsRule
  <2> QED
    BY <2>5, <2>6 DEF SaleRules
<1>10. CallRules(r)'
  <2>1. CASE c.redeem
    <3>1. d.at = "discount" /\ d.sale = s
      BY <1>s, <1>1 DEF CheckoutCalls
    <3>2. d \notin ChangeCalls \cup VisitCalls
      BY <3>1 DEF ChangeCalls, VisitCalls
    <3> HIDE DEF d
    <3>3. caller'[r] = d /\ promised' = promised
      BY <1>2, <1>3, <2>1 DEF saleHistory
    <3>4. AskRule(r)'
      BY <1>4, <1>5, <1>6, <1>8, <2>1, <3>1, <3>3 DEF AskRule
    <3> QED
      BY <3>2, <3>3, <3>4 DEF CallRules, ChangeRule, VisitRule
  <2> QED
    BY <1>3, <2>1, NothingSelling
<1>11. AloneRule'
  <2>1. d.at = "discount" /\ d.sale = s
    BY <1>s, <1>1 DEF CheckoutCalls
  <2>2. d \notin VisitCalls /\ Waiting \notin VisitCalls \cup CheckoutCalls
    BY <2>1, Placeholders DEF VisitCalls
  <2> HIDE DEF d
  <2> QED
    BY <1>s, <1>1, <1>3, <2>1, <2>2, AskingAlone DEF Applying
<1> QED
  BY <1>s, <1>1, <1>2, <1>3, <1>6, <1>7, <1>9, <1>10, <1>11, AskingAlone, OneSale

LEMMA InsertDiscountSales ==
  ASSUME OffersTypeInv, SalesInv, NEW r \in Callers, InsertDiscount(r)
  PROVE  SalesInv'
<1>s. PICK s \in Sales : s = caller[r].sale
  BY CheckoutAt DEF InsertDiscount
<1> DEFINE x == [checkout[s] EXCEPT !.discount = "pending_checkout", !.told = TRUE]
<1>1. caller[r] \in CheckoutCalls /\ caller[r].at = "discount"
  BY CheckoutAt DEF InsertDiscount, CallerAt
<1>2. UNCHANGED <<price, coupon, subscription, invoice, event, held, saleHistory>>
  BY DEF InsertDiscount, catalogue, couponRows
<1>3. caller'[r] = Waiting /\ \A q \in Callers \ {r} : caller'[q] = caller[q]
  BY DEF InsertDiscount, Return, OffersTypeInv, OffersTypeOK
<1>4. Sold(s) /\ ~checkout[s].told /\ promised[s] # Nil /\ checkout[s] \in SaleRows
  BY <1>s, <1>1, Placeholders DEF SalesInv, CallRules, AskRule, Sold, OffersTypeInv, OffersTypeOK
<1>5. checkout'[s] = x /\ \A t \in Sales \ {s} : checkout'[t] = checkout[t]
  BY <1>s DEF InsertDiscount, OffersTypeInv, OffersTypeOK
<1>6. /\ x.provider = checkout[s].provider /\ x.price = checkout[s].price /\ x.ref = checkout[s].ref
      /\ x.quantity = checkout[s].quantity /\ x.amount = checkout[s].amount /\ x # NoSale
      /\ x.status = checkout[s].status /\ x.discount = "pending_checkout"
  BY <1>4 DEF SaleRows, NoSale
<1> HIDE DEF x
<1>7. Sold(s)'
  BY <1>5, <1>6 DEF Sold
<1>8. \A t \in Sales \ {s} : SameSale(t)
  BY <1>2, <1>5 DEF SameSale, saleHistory
<1>9. UNCHANGED <<basis, agreed, edited, promised, repriced, answered>>
  BY <1>2 DEF saleHistory
<1>10. SaleRules(s)'
  <2>1. SaleRules(s)
    BY DEF SalesInv
  <2>2. SaleRule(s)'
    BY <1>2, <1>4, <1>5, <1>6, <1>7, <1>9, <2>1 DEF SaleRules, SaleRule, Backed, Subscribed
  <2>3. EffectRule(s)' /\ TermsRule(s)'
    BY <1>2, <1>5, <1>6, <1>9, <2>1 DEF SaleRules, EffectRule, TermsRule
  <2>4. SoldRule(s)'
    BY <1>2, <1>5, <1>6, <1>9, <2>1 DEF SaleRules, SoldRule, Due
  <2> QED
    BY <2>2, <2>3, <2>4 DEF SaleRules
<1>11. ASSUME NEW q \in Callers \ {r}, Selling(q), caller[q].sale = s
       PROVE  CallRules(q)'
  <2>1. caller[q] \in ChangeCalls \cup VisitCalls /\ CallRules(q)
    BY <1>s, <1>1, <1>11, AskingAlone DEF SalesInv
  <2>2. caller[q] \in ChangeCalls /\ caller[q] \notin CheckoutCalls \cup VisitCalls
    BY <1>4, <1>11, <2>1 DEF CallRules, VisitRule, ChangeCalls, CheckoutCalls, VisitCalls
  <2>3. ChangeRule(q)'
    BY <1>2, <1>3, <1>5, <1>6, <1>7, <1>9, <1>11, <2>1, <2>2 DEF CallRules, ChangeRule
  <2> QED
    BY <1>3, <2>2, <2>3 DEF CallRules, AskRule, VisitRule
<1>12. CallRules(r)' /\ ~Applying(r)' /\ caller'[r] \notin CheckoutCalls
  BY <1>3, NothingSelling, Placeholders DEF Applying
<1>13. AloneRule'
  BY <1>1, <1>3, <1>12, AskingAlone
<1> QED
  BY <1>2, <1>3, <1>8, <1>10, <1>11, <1>12, <1>13, OneSale
\* Requests of other sales, and of a sale whose session, prices and promise a step
\* leaves as they are, but for prices it adds to its basis.
LEMMA OthersKeep ==
  ASSUME SalesInv, NEW q \in Callers, NEW s \in Sales, Selling(q), caller[q].sale = s,
         caller'[q] = caller[q], price' = price, agreed[s] \subseteq agreed'[s], basis[s] \subseteq basis'[s],
         promised'[s] = promised[s], s \in edited' <=> s \in edited, s \in repriced' <=> s \in repriced,
         checkout'[s] = checkout[s], event'[s] = event[s]
  PROVE  CallRules(q)'
<1>1. CallRules(q)
  BY DEF SalesInv
<1>2. AskRule(q)' /\ ChangeRule(q)'
  BY <1>1 DEF CallRules, AskRule, ChangeRule, Sold
<1>3. VisitRule(q)'
  BY <1>1 DEF CallRules, VisitRule, Sold
<1> QED
  BY <1>2, <1>3 DEF CallRules

LEMMA ChangeSales ==
  ASSUME OffersTypeInv, SalesInv, NEW r \in Callers,
         \/ \E s \in Sales, i \in Prices, n \in Quantities : CallChangePlan(r, s, i, n)
         \/ ChangePlan(r)
  PROVE  SalesInv'
<1>1. UNCHANGED <<price, coupon, checkout, subscription, invoice, event, edited, promised, repriced,
                  answered>>
  BY DEF CallChangePlan, ChangePlan, catalogue, couponRows, saleRows
<1>2. ASSUME NEW s \in Sales, NEW i \in Prices, NEW n \in Quantities, CallChangePlan(r, s, i, n)
      PROVE  SalesInv'
  <2> DEFINE c == [at |-> "change", sale |-> s, price |-> i, row |-> price[i],
                   quantity |-> Counted(price[i], n)]
  <2>1. caller'[r] = c /\ \A q \in Callers \ {r} : caller'[q] = caller[q]
    BY <1>2 DEF CallChangePlan, Begin, OffersTypeInv, OffersTypeOK
  <2>2. Sold(s) /\ price[i] # Nil /\ price[i].provider = checkout[s].provider
    BY <1>2 DEF CallChangePlan, OnOffer, OffersTypeInv, SaleThere
  <2>3. /\ basis'[s] = basis[s] \cup {i} /\ \A t \in Sales \ {s} : basis'[t] = basis[t]
        /\ UNCHANGED <<held, agreed>>
    BY <1>2 DEF CallChangePlan, OffersTypeInv, OffersTypeOK, saleRows
  <2>4. \A t \in Sales \ {s} : SameSale(t)
    BY <1>1, <2>3 DEF SameSale
  <2>5. SaleRules(s)'
    <3>1. SaleRules(s)
      BY DEF SalesInv
    <3>2. SaleRule(s)'
      BY <1>1, <2>3, <3>1 DEF SaleRules, SaleRule, Sold, Backed, Subscribed
    <3>3. TermsRule(s)' /\ EffectRule(s)'
      BY <1>1, <3>1 DEF SaleRules, TermsRule, EffectRule
    <3>4. SoldRule(s)'
      BY <1>1, <2>3, <3>1 DEF SaleRules, SoldRule, Due
    <3> QED
      BY <3>2, <3>3, <3>4 DEF SaleRules
  <2>6. \A q \in Callers \ {r} : Selling(q) /\ caller[q].sale = s => CallRules(q)'
    BY <1>1, <2>1, <2>3, OthersKeep
  <2>7. CallRules(r)'
    <3>1. caller'[r].at = "change" /\ caller'[r].sale = s /\ caller'[r].price = i /\ caller'[r].row = price[i]
      BY <2>1
    <3>2. caller'[r] \notin CheckoutCalls \cup VisitCalls
      BY <3>1 DEF CheckoutCalls, VisitCalls
    <3>3. ChangeRule(r)'
      BY <1>1, <2>2, <2>3, <3>1 DEF ChangeRule, Sold
    <3> QED
      BY <3>2, <3>3 DEF CallRules, AskRule, VisitRule
  <2>8. AloneRule'
    <3>1. caller'[r].at = "change"
      BY <2>1
    <3>2. caller'[r] \notin CheckoutCalls /\ ~Applying(r)'
      BY <3>1 DEF CheckoutCalls, Applying
    <3> QED
      BY <2>1, <3>2, AloneKeeps DEF SalesInv
  <2> QED
    BY <1>1, <2>1, <2>4, <2>5, <2>6, <2>7, <2>8, OneSale
<1>3. CASE ChangePlan(r)
  <2>s. PICK s \in Sales : s = caller[r].sale
    BY <1>3, CallsAt DEF ChangePlan, CallerAt, OffersTypeInv, OffersTypeOK, ChangeCalls
  <2> DEFINE c == caller[r]
             a == [price |-> c.price, plan |-> c.row.plan, quantity |-> c.quantity]
             b == [ref |-> c.row.ref, quantity |-> c.quantity]
  <2>1. c \in ChangeCalls /\ c.row # Nil /\ c.price \in Prices
    BY <1>3, CallsAt, Placeholders DEF ChangePlan, CallerAt, OffersTypeInv, OffersTypeOK, ChangeCalls
  <2>2. /\ Sold(s) /\ c.row.provider = checkout[s].provider
        /\ s \notin edited => c.price \in basis[s] /\ price[c.price] = c.row
    BY <2>s, <2>1 DEF SalesInv, CallRules, ChangeRule
  <2>3. caller'[r] = Waiting /\ \A q \in Callers \ {r} : caller'[q] = caller[q]
    BY <1>3 DEF ChangePlan, Return, OffersTypeInv, OffersTypeOK
  <2>4. /\ agreed'[s] = agreed[s] \cup {a} /\ \A t \in Sales \ {s} : agreed'[t] = agreed[t]
        /\ held'[s] \in {held[s], b} /\ \A t \in Sales \ {s} : held'[t] = held[t]
        /\ basis' = basis
    BY <1>3, <2>s DEF ChangePlan, OffersTypeInv, OffersTypeOK
  <2>5. \A t \in Sales \ {s} : SameSale(t)
    BY <1>1, <2>4 DEF SameSale
  <2>6. SaleRules(s)'
    <3>1. SaleRules(s)
      BY DEF SalesInv
    <3>2. SaleRule(s)'
      <4>1. s \notin edited => Backed(s, checkout[s].price, checkout[s].ref, checkout[s].quantity)'
        BY <1>1, <2>2, <2>4, <3>1 DEF SaleRules, SaleRule, Backed, Subscribed
      <4>2. s \notin edited /\ held'[s] # Nil =>
              \E i \in Prices : Backed(s, i, held[s].ref, held[s].quantity)'
        <5>1. CASE held'[s] = held[s]
          BY <1>1, <2>2, <2>4, <3>1, <5>1 DEF SaleRules, SaleRule, Backed, Subscribed
        <5>2. CASE held'[s] = b
          <6>1. held'[s].ref = c.row.ref /\ held'[s].quantity = c.quantity
            BY <5>2
          <6>2. PICK i \in Prices : i = c.price
            BY <2>1
          <6>3. s \notin edited => Backed(s, i, held[s].ref, held[s].quantity)'
            BY <1>1, <2>1, <2>2, <2>4, <6>1, <6>2 DEF Backed, Subscribed
          <6> QED
            BY <1>1, <6>3
        <5> QED
          BY <2>4, <5>1, <5>2
      <4> QED
        BY <1>1, <2>2, <3>1, <4>1, <4>2 DEF SaleRules, SaleRule, Sold
    <3>3. TermsRule(s)' /\ EffectRule(s)'
      BY <1>1, <3>1 DEF SaleRules, TermsRule, EffectRule
    <3>4. SoldRule(s)'
      BY <1>1, <2>4, <3>1 DEF SaleRules, SoldRule, Due
    <3> QED
      BY <3>2, <3>3, <3>4 DEF SaleRules
  <2>7. \A q \in Callers \ {r} : Selling(q) /\ caller[q].sale = s => CallRules(q)'
    BY <1>1, <2>3, <2>4, OthersKeep
  <2>8. CallRules(r)' /\ ~Applying(r)' /\ caller'[r] \notin CheckoutCalls
    BY <2>3, NothingSelling, Placeholders DEF Applying
  <2>9. AloneRule'
    BY <2>3, <2>8, AloneKeeps DEF SalesInv
  <2> QED
    BY <1>1, <2>3, <2>5, <2>6, <2>7, <2>8, <2>9, OneSale
<1> QED
  BY <1>2, <1>3
\* The steps of a provider, and of time.
LEMMA SellSales ==
  ASSUME OffersTypeInv, SalesInv, NEW s \in Sales, Sell(s) \/ HearOfSubscription(s) \/ ExpireSession(s)
  PROVE  SalesInv'
<1>1. /\ UNCHANGED <<price, coupon, invoice, event, caller, basis, agreed, edited, promised, repriced,
                     answered>>
      /\ ~ExpireSession(s) => checkout' = checkout
  BY DEF Sell, HearOfSubscription, ExpireSession, catalogue, couponRows, saleHistory
<1>2. Sold(s) /\ checkout[s] \in SaleRows
  <2>1. Sold(s)
    BY DEF Sell, HearOfSubscription, ExpireSession, Sold, OffersTypeInv, SaleThere, NoSale
  <2> QED
    BY <2>1, Placeholders DEF Sold, OffersTypeInv, OffersTypeOK
<1>3. \A t \in Sales \ {s} : SameSale(t)
  BY <1>1 DEF SameSale, Sell, HearOfSubscription, ExpireSession, OffersTypeInv, OffersTypeOK
<1>4. SaleRules(s)
  BY DEF SalesInv
<1>5. /\ checkout'[s].provider = checkout[s].provider /\ checkout'[s].price = checkout[s].price
      /\ checkout'[s].ref = checkout[s].ref /\ checkout'[s].quantity = checkout[s].quantity
      /\ checkout'[s].amount = checkout[s].amount /\ checkout'[s].status = checkout[s].status
      /\ checkout'[s].discount = checkout[s].discount /\ checkout'[s].told = checkout[s].told
      /\ Sold(s)'
  <2>1. CASE ExpireSession(s)
    <3> DEFINE x == [checkout[s] EXCEPT !.expired = TRUE]
    <3>1. checkout'[s] = x
      BY <2>1 DEF ExpireSession, OffersTypeInv, OffersTypeOK
    <3>2. /\ x.provider = checkout[s].provider /\ x.price = checkout[s].price
          /\ x.ref = checkout[s].ref /\ x.quantity = checkout[s].quantity
          /\ x.amount = checkout[s].amount /\ x.status = checkout[s].status
          /\ x.discount = checkout[s].discount /\ x.told = checkout[s].told /\ x # NoSale
      BY <1>2 DEF SaleRows, NoSale
    <3> QED
      BY <3>1, <3>2 DEF Sold
  <2> QED
    BY <1>1, <1>2, <2>1 DEF Sold
<1>6. s \notin edited /\ held'[s] # Nil =>
        \E i \in Prices : Backed(s, i, held[s].ref, held[s].quantity)'
  <2>1. CASE Sell(s)
    <3>1. held'[s] = [ref |-> checkout[s].ref, quantity |-> checkout[s].quantity]
      BY <2>1 DEF Sell, OffersTypeInv, OffersTypeOK
    <3>2. held'[s].ref = checkout[s].ref /\ held'[s].quantity = checkout[s].quantity
      BY <3>1
    <3>3. PICK i \in Prices : i = checkout[s].price
      BY <1>2 DEF SaleRows
    <3>4. s \notin edited => Backed(s, i, held[s].ref, held[s].quantity)'
      BY <1>1, <1>2, <1>4, <1>5, <3>2, <3>3 DEF SaleRules, SaleRule, Backed, Subscribed
    <3> QED
      BY <1>1, <3>4
  <2>2. CASE held' = held
    BY <1>1, <1>2, <1>4, <1>5, <2>2 DEF SaleRules, SaleRule, Backed, Subscribed
  <2> QED
    BY <2>1, <2>2 DEF HearOfSubscription, ExpireSession
<1>7. SaleRule(s)'
  BY <1>1, <1>2, <1>4, <1>5, <1>6 DEF SaleRules, SaleRule, Backed, Subscribed
<1>8. subscription[s] # Nil => subscription'[s] # Nil
  <2>1. CASE HearOfSubscription(s)
    <3>1. Sold(s) => subscription' \in [Sales -> SubscriptionRows \cup {Nil}]
      BY <2>1, SellTypeInv DEF OffersTypeInv, OffersTypeOK
    <3>2. PICK i \in FoundBy(checkout[s].provider, held[s].ref) :
            subscription' = [subscription EXCEPT ![s] = Subscribed(i, held[s].quantity)]
      BY <2>1 DEF HearOfSubscription
    <3>3. i \in Prices /\ price[i] \in PriceRows /\ held[s].quantity \in Nat
      BY <2>1, <3>2, Placeholders DEF FoundBy, OffersTypeInv, OffersTypeOK, HearOfSubscription, Bills
    <3>4. Subscribed(i, held[s].quantity) \in SubscriptionRows
      BY <3>3 DEF Subscribed, SubscriptionRows, PriceRows
    <3> QED
      BY <3>2, <3>4, Placeholders DEF OffersTypeInv, OffersTypeOK
  <2> QED
    BY <2>1 DEF Sell, ExpireSession
<1>9. TermsRule(s)' /\ EffectRule(s)'
  BY <1>1, <1>4, <1>5, <1>8 DEF SaleRules, TermsRule, EffectRule
<1>10. SoldRule(s)'
  <2>1. subscription'[s] # Nil /\ s \notin edited => subscription'[s] \in agreed[s]
    <3>1. CASE HearOfSubscription(s)
      <4>1. PICK i \in FoundBy(checkout[s].provider, held[s].ref) :
              subscription' = [subscription EXCEPT ![s] = Subscribed(i, held[s].quantity)]
        BY <3>1 DEF HearOfSubscription
      <4>2. ASSUME s \notin edited PROVE Subscribed(i, held[s].quantity) \in agreed[s]
        <5>1. PICK j \in Prices : Backed(s, j, held[s].ref, held[s].quantity)
          BY <1>2, <1>4, <3>1, <4>2 DEF SaleRules, SaleRule, HearOfSubscription
        <5>2. i = j
          BY <4>1, <5>1, Placeholders DEF FoundBy, Backed, OffersTypeInv, OffersTypeOK, PricesIndexed
        <5> QED
          BY <5>1, <5>2 DEF Backed
      <4> QED
        BY <4>1, <4>2 DEF OffersTypeInv, OffersTypeOK
    <3> QED
      BY <1>4, <3>1 DEF Sell, ExpireSession, SaleRules, SoldRule
  <2> QED
    BY <1>1, <1>4, <1>5, <2>1 DEF SaleRules, SoldRule, Due
<1>11. ASSUME NEW q \in Callers PROVE CallRules(q)'
  <2>1. CallRules(q) /\ caller'[q] = caller[q]
    BY <1>1 DEF SalesInv
  <2>2. CASE Selling(q) /\ caller[q].sale = s
    <3>1. AskRule(q)'
      BY <1>1, <1>2, <1>5, <2>1, <2>2 DEF CallRules, AskRule
    <3>2. ChangeRule(q)' /\ VisitRule(q)'
      BY <1>1, <1>2, <1>5, <2>1, <2>2 DEF CallRules, ChangeRule, VisitRule
    <3> QED
      BY <3>1, <3>2 DEF CallRules
  <2>3. CASE ~(Selling(q) /\ caller[q].sale = s)
    <3>1. Selling(q) => caller[q].sale \in Sales
      BY DEF Selling, CheckoutCalls, ChangeCalls, VisitCalls
    <3> QED
      BY <1>1, <1>3, <2>1, <2>3, <3>1, CallKeeps
  <2> QED
    BY <2>2, <2>3
<1>12. \A t \in Sales : SaleRules(t)'
  <2>1. SaleRules(s)'
    BY <1>7, <1>9, <1>10 DEF SaleRules
  <2> QED
    BY <1>1, <1>3, <2>1, SaleKeeps DEF SalesInv
<1>13. AloneRule'
  BY <1>1 DEF SalesInv, AloneRule, Applying
<1> QED
  BY <1>11, <1>12, <1>13 DEF SalesInv
LEMMA DieSales ==
  ASSUME OffersTypeInv, SalesInv, NEW r \in Callers, DieOnCall(r)
  PROVE  SalesInv'
<1>1. caller'[r] = Waiting /\ \A q \in Callers \ {r} : caller'[q] = caller[q]
  BY DEF DieOnCall, Return, OffersTypeInv, OffersTypeOK
<1>2. UNCHANGED <<price, coupon, saleRows, saleHistory>>
  BY DEF DieOnCall, catalogue, couponRows
<1> QED
  BY <1>1, <1>2, SalesRest

\* The page of a mock checkout is for a session that was told of.
LEMMA VisitSales ==
  ASSUME OffersTypeInv, SalesInv, NEW r \in Callers, (\E s \in Sales : Visit(r, s)) \/ ReadTerms(r)
  PROVE  SalesInv'
<1>1. UNCHANGED <<price, coupon, saleRows, saleHistory>>
  BY DEF Visit, ReadTerms, catalogue, couponRows
<1>2. \A t \in Sales : SameSale(t)
  BY <1>1 DEF SameSale, saleRows, saleHistory
<1>3. ASSUME NEW s \in Sales, NEW c \in VisitCalls, caller' = [caller EXCEPT ![r] = c], c.sale = s,
             c.at # "apply", Sold(s), checkout[s].told, checkout[s].provider = Mock,
             s \notin edited => c.ref = price[checkout[s].price].ref,
             c.at # "terms" /\ s \notin repriced => c.terms = promised[s],
             ~c.blind => \A k \in c.done : event[s][k] = "processed"
      PROVE  SalesInv'
  <2>1. caller'[r] = c /\ \A q \in Callers \ {r} : caller'[q] = caller[q]
    BY <1>3 DEF OffersTypeInv, OffersTypeOK
  <2>2. c \notin CheckoutCalls \cup ChangeCalls
    BY DEF CheckoutCalls, ChangeCalls, VisitCalls
  <2>3. CallRules(r)'
    <3>1. SameSale(s)
      BY <1>2
    <3>2. VisitRule(r)'
      BY <1>1, <1>3, <2>1, <3>1 DEF VisitRule, SameSale, Sold, saleHistory
    <3> QED
      BY <2>1, <2>2, <3>2 DEF CallRules, AskRule, ChangeRule
  <2>4. AloneRule'
    BY <1>3, <2>1, <2>2, AloneKeeps DEF SalesInv, Applying
  <2> QED
    BY <1>1, <1>2, <2>1, <2>3, <2>4, NoSaleStep
<1>4. ASSUME NEW s \in Sales, Visit(r, s)
      PROVE  SalesInv'
  <2> DEFINE row == checkout[s]
             c == [at |-> "terms", sale |-> s, ref |-> price[row.price].ref, terms |-> Nil,
                   trial |-> plan[row.plan].trial, kind |-> "checkout", blind |-> FALSE, done |-> {}]
  <2>1. row.told /\ row.provider = Mock /\ Sold(s)
    BY <1>4 DEF Visit, Sold, NoSale
  <2>2. caller' = [caller EXCEPT ![r] = c]
    BY <1>4 DEF Visit, Begin
  <2>3. c.sale = s /\ c.at = "terms" /\ c.ref = price[row.price].ref /\ c.done = {}
    OBVIOUS
  <2>4. c \in VisitCalls
    <3>1. caller'[r] = c
      BY <2>2 DEF OffersTypeInv, OffersTypeOK
    <3>2. c # Waiting
      BY <2>3 DEF Waiting
    <3> QED
      BY <1>4, <3>1, <3>2, VisitTypeInv
  <2> HIDE DEF c
  <2> QED
    BY <1>3, <2>1, <2>2, <2>3, <2>4
<1>5. CASE ReadTerms(r)
  <2>s. PICK s \in Sales : s = caller[r].sale
    BY <1>5, VisitAt DEF ReadTerms
  <2> DEFINE t == IF Discounted(caller[r].sale) THEN coupon.terms ELSE Nil
             d == [caller[r] EXCEPT !.at = "claim", !.terms = t]
  <2>1. caller[r] \in VisitCalls /\ Sold(s)
    BY <1>5, <2>s, VisitAt DEF ReadTerms
  <2>2. VisitRule(r) /\ TermsRule(s) /\ SaleRule(s)
    BY DEF SalesInv, CallRules, SaleRules
  <2>3. s \notin repriced => t = promised[s]
    BY <2>s, <2>1, <2>2 DEF VisitRule, TermsRule, SaleRule, Discounted
  <2>4. t \in Terms \cup {Nil}
    BY <2>s, <2>1 DEF Discounted, OffersTypeInv, OffersTypeOK, SaleThere, CouponRows
  <2>5. /\ d \in VisitCalls /\ d.sale = s /\ d.at = "claim" /\ d.terms = t /\ d.ref = caller[r].ref
        /\ d.blind = caller[r].blind /\ d.done = caller[r].done
    <3> HIDE DEF t
    <3>1. d \in VisitCalls
      BY <2>1, <2>4, VisitFields
    <3> QED
      BY <2>s, <2>1, <3>1 DEF VisitCalls
  <2>6. caller' = [caller EXCEPT ![r] = d]
    BY <1>5 DEF ReadTerms, OffersTypeInv, OffersTypeOK
  <2> HIDE DEF d, t
  <2>7. /\ checkout[s].told /\ checkout[s].provider = Mock
        /\ s \notin edited => d.ref = price[checkout[s].price].ref
        /\ ~d.blind => \A k \in d.done : event[s][k] = "processed"
    BY <2>s, <2>1, <2>2, <2>5 DEF VisitRule
  <2> QED
    BY <1>3, <2>1, <2>3, <2>5, <2>6, <2>7
<1> QED
  BY <1>4, <1>5

-----------------------------------------------------------------------------
(* The events of a visit *)

LEMMA VisitHas ==
  ASSUME NEW q \in Callers, NEW s \in Sales,
         caller'[q] \in VisitCalls =>
           /\ caller'[q].sale = s /\ Sold(s)' /\ checkout'[s].told /\ checkout'[s].provider = Mock
           /\ s \notin edited' => caller'[q].ref = price'[checkout'[s].price].ref
           /\ caller'[q].at # "terms" /\ s \notin repriced' => caller'[q].terms = promised'[s]
           /\ ~caller'[q].blind => \A k \in caller'[q].done : event'[s][k] = "processed"
           /\ caller'[q].at = "apply" => event'[s][caller'[q].kind] = "processing"
  PROVE  VisitRule(q)'
BY DEF VisitRule, Sold

LEMMA VisitStep ==
  ASSUME OffersTypeInv, SalesInv, NEW r \in Callers, NEW s \in Sales,
         caller[r] \in VisitCalls, caller[r].sale = s,
         UNCHANGED <<price, coupon, held, basis, agreed, edited, promised, repriced>>,
         \A q \in Callers \ {r} : caller'[q] = caller[q],
         \A t \in Sales \ {s} : /\ checkout'[t] = checkout[t] /\ subscription'[t] = subscription[t]
                                /\ invoice'[t] = invoice[t] /\ event'[t] = event[t]
                                /\ answered'[t] = answered[t],
         /\ checkout'[s].provider = checkout[s].provider /\ checkout'[s].price = checkout[s].price
         /\ checkout'[s].ref = checkout[s].ref /\ checkout'[s].quantity = checkout[s].quantity
         /\ checkout'[s].told = checkout[s].told /\ Sold(s)'
         /\ checkout'[s].discount # "none" <=> checkout[s].discount # "none",
         \A k \in Kinds : event[s][k] = "processed" => event'[s][k] = "processed",
         \A q \in Callers \ {r} :
           Applying(q) /\ caller[q].sale = s => event'[s][caller[q].kind] = event[s][caller[q].kind],
         EffectRule(s)', SoldRule(s)', CallRules(r)', AloneRule'
  PROVE  SalesInv'
<1>1. \A t \in Sales \ {s} : SameSale(t)
  BY DEF SameSale
<1>2. Sold(s) /\ checkout[s].told /\ SaleRules(s)
  BY DEF SalesInv, CallRules, VisitRule
<1>3. SaleRules(s)'
  <2>1. SaleRule(s)'
    BY <1>2 DEF SaleRules, SaleRule, Backed, Subscribed
  <2>2. TermsRule(s)'
    BY <1>2 DEF SaleRules, TermsRule
  <2> QED
    BY <2>1, <2>2 DEF SaleRules
<1>4. ASSUME NEW q \in Callers \ {r}, Selling(q), caller[q].sale = s
      PROVE  CallRules(q)'
  <2>1. CallRules(q) /\ caller'[q] = caller[q]
    BY DEF SalesInv
  <2>2. caller[q] \notin CheckoutCalls
    BY <1>2, <1>4, <2>1 DEF CallRules, AskRule
  <2>3. ChangeRule(q)'
    BY <1>2, <1>4, <2>1 DEF CallRules, ChangeRule
  <2>4. VisitRule(q)'
    <3>1. caller[q] \in VisitCalls => caller[q].done \subseteq Kinds
      BY DEF VisitCalls
    <3>2. ASSUME caller[q] \in VisitCalls, ~caller[q].blind
          PROVE  \A k \in caller[q].done : event'[s][k] = "processed"
      BY <1>4, <2>1, <3>1, <3>2 DEF CallRules, VisitRule
    <3>3. ASSUME caller[q] \in VisitCalls, caller[q].at = "apply"
          PROVE  event'[s][caller[q].kind] = "processing"
      BY <1>4, <2>1, <3>3 DEF CallRules, VisitRule, Applying
    <3>4. ASSUME caller[q] \in VisitCalls, s \notin edited
          PROVE  caller[q].ref = price'[checkout'[s].price].ref
      BY <1>4, <2>1, <3>4 DEF CallRules, VisitRule
    <3>5. ASSUME caller[q] \in VisitCalls, caller[q].at # "terms", s \notin repriced
          PROVE  caller[q].terms = promised[s]
      BY <1>4, <2>1, <3>5 DEF CallRules, VisitRule
    <3>6. caller[q] \in VisitCalls => checkout[s].provider = Mock
      BY <1>4, <2>1 DEF CallRules, VisitRule
    <3>7. CASE caller[q] \in VisitCalls
      <4>1. caller'[q].sale = s /\ Sold(s)' /\ checkout'[s].told /\ checkout'[s].provider = Mock
        BY <1>2, <1>4, <2>1, <3>6, <3>7
      <4>2. /\ s \notin edited' => caller'[q].ref = price'[checkout'[s].price].ref
            /\ caller'[q].at # "terms" /\ s \notin repriced' => caller'[q].terms = promised'[s]
            /\ ~caller'[q].blind => \A k \in caller'[q].done : event'[s][k] = "processed"
            /\ caller'[q].at = "apply" => event'[s][caller'[q].kind] = "processing"
        BY <2>1, <3>2, <3>3, <3>4, <3>5, <3>7
      <4> QED
        BY <4>1, <4>2, VisitHas
    <3>8. CASE caller[q] \notin VisitCalls
      BY <2>1, <3>8 DEF VisitRule
    <3> QED
      BY <3>7, <3>8
  <2> QED
    BY <2>1, <2>2, <2>3, <2>4 DEF CallRules, AskRule
<1> QED
  BY <1>1, <1>3, <1>4, OneSale

\* A visit that goes on, or ends, stands for events that were processed.
LEMMA VisitProceeds ==
  ASSUME OffersTypeInv, SalesInv, NEW r \in Callers, NEW s \in Sales, NEW c \in VisitCalls,
         c.sale = s, c.at # "terms", Proceed(r, c), VisitRule(r), caller[r] \in VisitCalls,
         caller[r].sale = s, c.ref = caller[r].ref, c.terms = caller[r].terms, caller[r].at # "terms",
         UNCHANGED <<price, edited, promised, repriced>>,
         checkout'[s].provider = checkout[s].provider /\ checkout'[s].price = checkout[s].price,
         checkout'[s].told = checkout[s].told /\ Sold(s)',
         \A k \in Kinds : event[s][k] = "processed" => event'[s][k] = "processed",
         ~c.blind => \A k \in c.done \cup {c.kind} : event'[s][k] = "processed"
  PROVE  /\ CallRules(r)' /\ AloneRule'
         /\ \A k \in answered'[s] : event'[s][k] = "processed"
         /\ \A t \in Sales \ {s} : answered'[t] = answered[t]
         /\ \A q \in Callers \ {r} : caller'[q] = caller[q]
<1>1. \A q \in Callers \ {r} : caller'[q] = caller[q]
  BY VisitGoesOn
<1>2. \A k \in answered[s] : event'[s][k] = "processed"
  <2>1. answered[s] \subseteq Kinds
    BY DEF OffersTypeInv, OffersTypeOK
  <2> QED
    BY <2>1 DEF SalesInv, SaleRules, EffectRule
<1>3. CASE /\ caller'[r] = Waiting
           /\ answered' = IF c.blind THEN answered
                          ELSE [answered EXCEPT ![c.sale] = @ \cup (c.done \cup {c.kind})]
  <2>1. CallRules(r)' /\ caller'[r] \notin CheckoutCalls /\ ~Applying(r)'
    BY <1>3, NothingSelling, Placeholders DEF Applying
  <2>2. AloneRule'
    BY <1>1, <2>1, AloneKeeps DEF SalesInv
  <2>3. \A k \in answered'[s] : event'[s][k] = "processed"
    BY <1>2, <1>3 DEF OffersTypeInv, OffersTypeOK
  <2>4. \A t \in Sales \ {s} : answered'[t] = answered[t]
    BY <1>3 DEF OffersTypeInv, OffersTypeOK
  <2> QED
    BY <1>1, <2>1, <2>2, <2>3, <2>4
<1>4. CASE /\ caller'[r] \in VisitCalls /\ answered' = answered
           /\ caller'[r] = [c EXCEPT !.at = "claim", !.kind = After(c), !.done = c.done \cup {c.kind}]
           /\ caller'[r].sale = c.sale
  <2> DEFINE d == [c EXCEPT !.at = "claim", !.kind = After(c), !.done = c.done \cup {c.kind}]
  <2>1. /\ d.at = "claim" /\ d.sale = s /\ d.ref = c.ref /\ d.terms = c.terms /\ d.blind = c.blind
        /\ d.done = c.done \cup {c.kind}
    BY DEF VisitCalls
  <2>2. caller'[r] = d /\ d \in VisitCalls
    BY <1>4
  <2> HIDE DEF d
  <2>3. d \notin CheckoutCalls \cup ChangeCalls
    BY <2>2 DEF CheckoutCalls, ChangeCalls, VisitCalls
  <2>4. VisitRule(r)'
    BY <2>1, <2>2 DEF VisitRule
  <2>5. CallRules(r)'
    BY <2>2, <2>3, <2>4 DEF CallRules, AskRule, ChangeRule
  <2>6. AloneRule'
    BY <1>1, <2>1, <2>2, <2>3, AloneKeeps DEF SalesInv, Applying
  <2> QED
    BY <1>1, <1>2, <1>4, <2>5, <2>6
<1> QED
  BY <1>3, <1>4, VisitGoesOn
\* What the request of a visit has at an event.
LEMMA VisitHolds ==
  ASSUME OffersTypeInv, SalesInv, NEW r \in Callers, NEW s \in Sales, s = caller[r].sale,
         CallerAt(r, "claim") \/ CallerAt(r, "apply")
  PROVE  /\ caller[r] \in VisitCalls /\ VisitRule(r) /\ Sold(s) /\ checkout[s] \in SaleRows
         /\ checkout[s].told /\ checkout[s].provider = Mock
         /\ s \notin edited => caller[r].ref = price[checkout[s].price].ref
         /\ s \notin repriced => caller[r].terms = promised[s]
         /\ ~caller[r].blind => \A k \in caller[r].done : event[s][k] = "processed"
         /\ CallerAt(r, "apply") => event[s][caller[r].kind] = "processing"
         /\ SaleRules(s) /\ caller[r].at # "terms"
<1>1. caller[r] \in VisitCalls /\ checkout[s] \in SaleRows
  BY VisitAt
<1>2. VisitRule(r) /\ SaleRules(s)
  BY DEF SalesInv, CallRules
<1> QED
  BY <1>1, <1>2 DEF VisitRule, CallerAt

LEMMA ClaimSales ==
  ASSUME OffersTypeInv, SalesInv, NEW r \in Callers, ClaimEvent(r)
  PROVE  SalesInv'
<1>0. CallerAt(r, "claim")
  BY DEF ClaimEvent
<1>s. PICK s \in Sales : s = caller[r].sale
  BY <1>0, VisitAt
<1>k. PICK k \in Kinds : k = caller[r].kind
  BY <1>0, VisitAt
<1> DEFINE c == caller[r]
<1>1. UNCHANGED <<price, coupon, checkout, subscription, invoice, held, basis, agreed, edited, promised,
                  repriced>>
  BY DEF ClaimEvent, catalogue, couponRows
<1>2. /\ c \in VisitCalls /\ VisitRule(r) /\ Sold(s) /\ checkout[s] \in SaleRows
      /\ SaleRules(s) /\ c.at # "terms" /\ c.at = "claim"
      /\ ~c.blind => \A l \in c.done : event[s][l] = "processed"
  BY <1>0, <1>s, VisitHolds DEF CallerAt
<1>3. Sold(s)'
  BY <1>1, <1>2 DEF Sold
<1>4. SoldRule(s)'
  BY <1>1, <1>2 DEF SaleRules, SoldRule, Due
<1>5. CASE Return(r) /\ UNCHANGED <<event, answered>>
  <2>1. caller'[r] = Waiting /\ \A q \in Callers \ {r} : caller'[q] = caller[q]
    BY <1>5 DEF Return, OffersTypeInv, OffersTypeOK
  <2> QED
    BY <1>1, <1>5, <2>1, SalesRest DEF saleRows, saleHistory
<1>6. CASE Claimed(s, k) /\ event' = [event EXCEPT ![s][k] = "processing"] /\ Move(r, "apply")
           /\ UNCHANGED answered
  <2> DEFINE d == [c EXCEPT !.at = "apply"]
  <2>1. /\ d \in VisitCalls /\ d.at = "apply" /\ d.sale = s /\ d.kind = k /\ d.ref = c.ref
        /\ d.terms = c.terms /\ d.blind = c.blind /\ d.done = c.done
    <3>1. d \in VisitCalls
      BY <1>2, VisitFields
    <3> QED
      BY <1>2, <1>s, <1>k, <3>1 DEF VisitCalls
  <2>2. caller'[r] = d /\ \A q \in Callers \ {r} : caller'[q] = caller[q]
    BY <1>6 DEF Move, OffersTypeInv, OffersTypeOK
  <2> HIDE DEF d
  <2>3. /\ event'[s][k] = "processing" /\ event[s][k] \in {"none", "failed"}
        /\ \A l \in Kinds : l # k => event'[s][l] = event[s][l]
        /\ \A t \in Sales \ {s} : event'[t] = event[t]
    BY <1>6 DEF Claimed, OffersTypeInv, OffersTypeOK
  <2>4. \A q \in Callers \ {r} : Applying(q) /\ caller[q].sale = s => caller[q].kind # k /\ caller[q].kind \in Kinds
    BY <2>3 DEF SalesInv, CallRules, VisitRule, Applying, VisitCalls
  <2>5. EffectRule(s)'
    <3>1. answered[s] \subseteq Kinds /\ "checkout" \in Kinds /\ "subscription" \in Kinds /\ "invoice" \in Kinds
      BY DEF OffersTypeInv, OffersTypeOK, Kinds
    <3> QED
      BY <1>1, <1>2, <1>6, <2>3, <3>1 DEF SaleRules, EffectRule
  <2>6. CallRules(r)'
    <3>1. d \notin CheckoutCalls \cup ChangeCalls
      BY <2>1 DEF CheckoutCalls, ChangeCalls, VisitCalls
    <3>2. c.done \subseteq Kinds
      BY <1>2 DEF VisitCalls
    <3>3. VisitRule(r)'
      <4>1. caller'[r].sale = s /\ Sold(s)' /\ checkout'[s].told /\ checkout'[s].provider = Mock
        BY <1>0, <1>s, <1>1, <1>3, <2>1, <2>2, VisitHolds
      <4>2. /\ s \notin edited' => caller'[r].ref = price'[checkout'[s].price].ref
            /\ caller'[r].at # "terms" /\ s \notin repriced' => caller'[r].terms = promised'[s]
        BY <1>0, <1>s, <1>1, <2>1, <2>2, VisitHolds
      <4>3. /\ ~caller'[r].blind => \A l \in caller'[r].done : event'[s][l] = "processed"
            /\ caller'[r].at = "apply" => event'[s][caller'[r].kind] = "processing"
        BY <1>2, <2>1, <2>2, <2>3, <3>2
      <4> QED
        BY <4>1, <4>2, <4>3, VisitHas
    <3> QED
      BY <2>2, <3>1, <3>3 DEF CallRules, AskRule, ChangeRule
  <2>7. AloneRule'
    <3>1. caller'[r] \notin CheckoutCalls
      BY <2>1, <2>2 DEF CheckoutCalls, VisitCalls
    <3> QED
      BY <2>1, <2>2, <2>4, <3>1, AloneKeeps DEF SalesInv
  <2>8. \A l \in Kinds : event[s][l] = "processed" => event'[s][l] = "processed"
    BY <2>3
  <2> QED
    BY <1>s, <1>1, <1>2, <1>3, <1>4, <1>6, <2>2, <2>3, <2>4, <2>5, <2>6, <2>7, <2>8, VisitStep
<1>7. CASE ~Claimed(s, k) /\ UNCHANGED event
           /\ Proceed(r, [c EXCEPT !.blind = @ \/ event[s][c.kind] = "processing"])
  <2> DEFINE b == c.blind \/ event[s][k] = "processing"
             d == [c EXCEPT !.blind = b]
  <2>1. b \in BOOLEAN
    OBVIOUS
  <2> HIDE DEF b
  <2>2. /\ d \in VisitCalls /\ d.at = "claim" /\ d.sale = s /\ d.kind = k /\ d.ref = c.ref
        /\ d.terms = c.terms /\ d.blind = b /\ d.done = c.done
    <3>1. d \in VisitCalls
      BY <1>2, <2>1, VisitFields
    <3> QED
      BY <1>2, <1>s, <1>k, <3>1 DEF VisitCalls
  <2>3. Proceed(r, d)
    BY <1>k, <1>7 DEF b
  <2> HIDE DEF d
  <2>4. ~b => \A l \in c.done \cup {k} : event'[s][l] = "processed"
    <3>1. event[s][k] \in {"none", "processing", "processed", "failed"}
      BY DEF OffersTypeInv, OffersTypeOK
    <3>2. ~b => ~c.blind /\ event[s][k] # "processing"
      BY DEF b
    <3>3. event[s][k] \notin {"none", "failed"} /\ event' = event
      BY <1>7 DEF Claimed
    <3> QED
      BY <1>2, <3>1, <3>2, <3>3
  <2>5. /\ CallRules(r)' /\ AloneRule'
        /\ \A l \in answered'[s] : event'[s][l] = "processed"
        /\ \A t \in Sales \ {s} : answered'[t] = answered[t]
        /\ \A q \in Callers \ {r} : caller'[q] = caller[q]
    BY <1>s, <1>1, <1>2, <1>3, <1>7, <2>2, <2>3, <2>4, VisitProceeds
  <2>6. EffectRule(s)'
    BY <1>1, <1>2, <1>7, <2>5 DEF SaleRules, EffectRule
  <2> QED
    BY <1>s, <1>1, <1>2, <1>3, <1>4, <1>7, <2>5, <2>6, VisitStep
<1> QED
  BY <1>s, <1>k, <1>5, <1>6, <1>7 DEF ClaimEvent
\* What was charged is for the sale's amount.
LEMMA UnappliedSales ==
  ASSUME OffersTypeInv, SalesInv, NEW r \in Callers, Unapplied(r)
  PROVE  SalesInv'
<1>0. CallerAt(r, "apply")
  BY DEF Unapplied
<1>s. PICK s \in Sales : s = caller[r].sale
  BY <1>0, VisitAt
<1>1. UNCHANGED <<price, coupon, checkout, subscription, invoice, held, saleHistory>>
  BY DEF Unapplied, catalogue, couponRows
<1>2. caller'[r] = Waiting /\ \A q \in Callers \ {r} : caller'[q] = caller[q]
  BY DEF Unapplied, Return, OffersTypeInv, OffersTypeOK
<1>3. /\ event'[s]["subscription"] = "failed"
      /\ \A l \in Kinds : l # "subscription" => event'[s][l] = event[s][l]
      /\ \A t \in Sales \ {s} : event'[t] = event[t]
  BY <1>s DEF Unapplied, OffersTypeInv, OffersTypeOK, Kinds
<1>4. /\ caller[r] \in VisitCalls /\ Sold(s) /\ SaleRules(s) /\ caller[r].kind = "subscription"
      /\ event[s]["subscription"] = "processing"
  BY <1>0, <1>s, VisitHolds DEF Unapplied
<1>5. \A q \in Callers \ {r} : Applying(q) /\ caller[q].sale = s =>
                                 caller[q].kind # "subscription" /\ caller[q].kind \in Kinds
  BY <1>0, <1>s, <1>4 DEF SalesInv, AloneRule, Applying, VisitCalls, CallerAt
<1>6. \A l \in Kinds : event[s][l] = "processed" => event'[s][l] = "processed"
  BY <1>3, <1>4
<1>7. EffectRule(s)'
  <2>1. answered[s] \subseteq Kinds /\ "checkout" \in Kinds /\ "subscription" \in Kinds /\ "invoice" \in Kinds
    BY DEF OffersTypeInv, OffersTypeOK, Kinds
  <2> QED
    BY <1>1, <1>3, <1>4, <1>6, <2>1 DEF SaleRules, EffectRule, saleHistory
<1>8. SoldRule(s)' /\ Sold(s)'
  BY <1>1, <1>4 DEF SaleRules, SoldRule, Due, Sold, saleHistory
<1>9. CallRules(r)' /\ ~Applying(r)' /\ caller'[r] \notin CheckoutCalls
  BY <1>2, NothingSelling, Placeholders DEF Applying
<1>10. AloneRule'
  BY <1>2, <1>9, AloneKeeps DEF SalesInv
<1> QED
  BY <1>s, <1>1, <1>2, <1>3, <1>4, <1>5, <1>6, <1>7, <1>8, <1>9, <1>10, VisitStep DEF saleHistory

\* An event that is applied has its effect, for what was agreed and promised.
LEMMA AppliedSales ==
  ASSUME OffersTypeInv, SalesInv, NEW r \in Callers,
         ApplyCompleted(r) \/ ApplySubscribed(r) \/ ApplyInvoiced(r)
  PROVE  SalesInv'
<1> DEFINE c == caller[r]
<1>k. PICK k \in Kinds : Applied(r, k) /\ (ApplyCompleted(r) <=> k = "checkout")
                         /\ (ApplySubscribed(r) <=> k = "subscription")
                         /\ (ApplyInvoiced(r) <=> k = "invoice")
  BY DEF ApplyCompleted, ApplySubscribed, ApplyInvoiced, Applied, Kinds
<1>0. CallerAt(r, "apply") /\ c.kind = k
  BY <1>k DEF Applied
<1>s. PICK s \in Sales : s = c.sale
  BY <1>0, VisitAt
<1>1. UNCHANGED <<price, coupon, held, basis, agreed, edited, promised, repriced>>
  BY <1>k DEF Applied, catalogue, couponRows
<1>2. /\ c \in VisitCalls /\ VisitRule(r) /\ Sold(s) /\ checkout[s] \in SaleRows
      /\ checkout[s].provider = Mock /\ c.at # "terms" /\ event[s][k] = "processing" /\ SaleRules(s)
      /\ s \notin edited => c.ref = price[checkout[s].price].ref
      /\ s \notin repriced => c.terms = promised[s]
      /\ ~c.blind => \A l \in c.done : event[s][l] = "processed"
  BY <1>0, <1>s, VisitHolds
<1>3. /\ event'[s][k] = "processed"
      /\ \A l \in Kinds : l # k => event'[s][l] = event[s][l]
      /\ \A t \in Sales \ {s} : event'[t] = event[t]
  BY <1>s, <1>k DEF Applied, OffersTypeInv, OffersTypeOK
<1>4. \A l \in Kinds : event[s][l] = "processed" => event'[s][l] = "processed"
  BY <1>3
<1>5. \A q \in Callers \ {r} : Applying(q) /\ caller[q].sale = s =>
                                 caller[q].kind # k /\ caller[q].kind \in Kinds
  BY <1>0, <1>s, <1>2 DEF SalesInv, AloneRule, Applying, VisitCalls, CallerAt
<1>6. /\ checkout'[s].provider = checkout[s].provider /\ checkout'[s].price = checkout[s].price
      /\ checkout'[s].ref = checkout[s].ref /\ checkout'[s].quantity = checkout[s].quantity
      /\ checkout'[s].told = checkout[s].told /\ checkout'[s].amount = checkout[s].amount
      /\ checkout'[s].discount # "none" <=> checkout[s].discount # "none"
      /\ Sold(s)' /\ checkout'[s].status = IF k = "checkout" THEN "complete" ELSE checkout[s].status
      /\ \A t \in Sales \ {s} : checkout'[t] = checkout[t]
  <2>1. CASE k = "checkout"
    <3> DEFINE x == [checkout[s] EXCEPT !.status = "complete",
                       !.discount = IF @ = "pending_checkout" THEN "active" ELSE @]
    <3>1. /\ x.provider = checkout[s].provider /\ x.price = checkout[s].price
          /\ x.ref = checkout[s].ref /\ x.quantity = checkout[s].quantity
          /\ x.told = checkout[s].told /\ x.amount = checkout[s].amount
          /\ x.discount # "none" <=> checkout[s].discount # "none"
          /\ x # NoSale /\ x.status = "complete"
      BY <1>2 DEF SaleRows, NoSale
    <3>2. checkout' = [checkout EXCEPT ![s] = x]
      BY <1>s, <1>k, <2>1 DEF ApplyCompleted, OffersTypeInv, OffersTypeOK
    <3> HIDE DEF x
    <3>3. checkout'[s] = x /\ \A t \in Sales \ {s} : checkout'[t] = checkout[t]
      BY <3>2 DEF OffersTypeInv, OffersTypeOK
    <3> QED
      BY <2>1, <3>1, <3>3 DEF Sold
  <2>2. CASE k # "checkout"
    <3>1. checkout' = checkout
      BY <1>k, <2>2 DEF ApplySubscribed, ApplyInvoiced, Kinds
    <3> QED
      BY <1>2, <2>2, <3>1 DEF Sold
  <2> QED
    BY <2>1, <2>2
<1>7. /\ k = "subscription" => subscription'[s] # Nil
      /\ k = "subscription" /\ s \notin edited => subscription'[s] \in agreed[s]
      /\ k # "subscription" => subscription' = subscription
      /\ \A t \in Sales \ {s} : subscription'[t] = subscription[t]
  <2>1. CASE k = "subscription"
    <3>1. PICK i \in FoundBy(Mock, c.ref) :
            subscription' = [subscription EXCEPT ![s] = Subscribed(i, checkout[s].quantity)]
      BY <1>s, <1>k, <2>1 DEF ApplySubscribed
    <3>2. i \in Prices /\ price[i] \in PriceRows /\ checkout[s].quantity \in Nat
      BY <1>2, <3>1 DEF FoundBy, OffersTypeInv, OffersTypeOK, SaleRows
    <3>3. Subscribed(i, checkout[s].quantity) \in SubscriptionRows
      BY <3>2 DEF Subscribed, SubscriptionRows, PriceRows
    <3>4. ASSUME s \notin edited PROVE Subscribed(i, checkout[s].quantity) \in agreed[s]
      <4>1. Backed(s, checkout[s].price, checkout[s].ref, checkout[s].quantity)
        BY <1>2, <3>4 DEF SaleRules, SaleRule
      <4>2. PICK j \in Prices : j = checkout[s].price
        BY <1>2 DEF SaleRows
      <4>3. /\ price[j] # Nil /\ price[j].provider = Mock /\ price[j].ref = c.ref
            /\ price[i] # Nil /\ price[i].provider = Mock /\ price[i].ref = c.ref /\ c.ref # Nil
        BY <1>2, <3>1, <3>4, <4>1, <4>2 DEF FoundBy, Backed
      <4>4. i = checkout[s].price
        BY <3>2, <4>2, <4>3 DEF OffersTypeInv, OffersTypeOK, PricesIndexed
      <4> QED
        BY <4>1, <4>4 DEF Backed
    <3> QED
      BY <2>1, <3>1, <3>3, <3>4, Placeholders DEF OffersTypeInv, OffersTypeOK
  <2> QED
    BY <1>k, <2>1 DEF ApplyCompleted, ApplyInvoiced, Kinds
<1>8. /\ k = "invoice" => invoice'[s] # Nil /\ invoice'[s].total = Due(s, c.terms)
      /\ k # "invoice" => invoice' = invoice
      /\ \A t \in Sales \ {s} : invoice'[t] = invoice[t]
  <2>1. CASE k = "invoice"
    <3> DEFINE y == [total |-> Due(s, c.terms), price |-> FoundBy(Mock, c.ref)]
    <3>1. c.terms \in Terms \cup {Nil}
      BY <1>2 DEF VisitCalls
    <3>2. y \in InvoiceRows /\ y.total = Due(s, c.terms)
      BY <1>2, <3>1, DueNumber DEF InvoiceRows, FoundBy
    <3>3. invoice' = [invoice EXCEPT ![s] = y]
      BY <1>s, <1>k, <2>1 DEF ApplyInvoiced
    <3> HIDE DEF y
    <3> QED
      BY <2>1, <3>2, <3>3, Placeholders DEF OffersTypeInv, OffersTypeOK
  <2> QED
    BY <1>k, <2>1 DEF ApplyCompleted, ApplySubscribed, Kinds
<1>9. /\ CallRules(r)' /\ AloneRule'
      /\ \A l \in answered'[s] : event'[s][l] = "processed"
      /\ \A t \in Sales \ {s} : answered'[t] = answered[t]
      /\ \A q \in Callers \ {r} : caller'[q] = caller[q]
  <2>1. ~c.blind => \A l \in c.done \cup {c.kind} : event'[s][l] = "processed"
    <3>1. c.done \subseteq Kinds
      BY <1>2 DEF VisitCalls
    <3> QED
      BY <1>0, <1>2, <1>3, <1>4, <3>1
  <2>2. Proceed(r, c)
    BY <1>k DEF Applied
  <2> HIDE DEF c
  <2> QED
    BY <1>s, <1>1, <1>2, <1>4, <1>6, <2>1, <2>2, VisitProceeds DEF c
<1>10. EffectRule(s)'
  <2>1. EffectRule(s)
    BY <1>2 DEF SaleRules
  <2>2. "checkout" \in Kinds /\ "subscription" \in Kinds /\ "invoice" \in Kinds
    BY DEF Kinds
  <2> QED
    BY <1>3, <1>6, <1>7, <1>8, <1>9, <2>1, <2>2 DEF EffectRule
<1>11. SoldRule(s)'
  <2>1. SoldRule(s)
    BY <1>2 DEF SaleRules
  <2>2. subscription'[s] # Nil => subscription'[s] \in agreed'[s] \/ s \in edited'
    BY <1>1, <1>7, <2>1 DEF SoldRule
  <2>3. invoice'[s] # Nil => s \in repriced' \/ invoice'[s].total = Due(s, promised[s])
    BY <1>1, <1>2, <1>8, <2>1 DEF SoldRule
  <2>4. Due(s, promised[s])' = Due(s, promised[s])
    BY <1>1, <1>6 DEF Due
  <2> QED
    BY <2>2, <2>3, <2>4 DEF SoldRule
<1> QED
  BY <1>s, <1>1, <1>2, <1>3, <1>4, <1>5, <1>6, <1>7, <1>8, <1>9, <1>10, <1>11, VisitStep

-----------------------------------------------------------------------------
LEMMA SalesStep ==
  ASSUME OffersTypeInv, SalesInv, [OffersNext]_offersVars
  PROVE  SalesInv'
<1>1. CASE Administer
  BY <1>1, AdministerSales
<1>2. ASSUME NEW r \in Callers, Manage(r)
      PROVE  SalesInv'
  <2>1. CASE \/ \E p \in Providers \cup {Nil}, t \in Terms, typed, active \in BOOLEAN :
                  CallUpsertCoupon(r, p, t, typed, active)
             \/ CreateCoupon(r) \/ SaveCoupon(r)
    BY <2>1, CouponSales
  <2>2. CASE \/ CallPage(r) \/ InsertDefault(r) \/ (\E p \in Providers : CallUpdateSettings(r, p))
             \/ UpdateSettings(r)
             \/ \E s \in Sales, i \in Prices, n \in Quantities, redeem \in BOOLEAN :
                  CallCheckout(r, s, i, n, redeem)
    BY <2>2, SettingsSales
  <2>3. CASE \/ \E s \in Sales, i \in Prices, n \in Quantities : CallChangePlan(r, s, i, n)
             \/ ChangePlan(r)
    BY <2>3, ChangeSales
  <2> QED
    BY <1>2, <2>1, <2>2, <2>3, ReadOfferSales, OpenCheckoutSales, InsertSessionSales,
       InsertDiscountSales DEF Manage
<1>3. ASSUME NEW r \in Callers, Shop(r)
      PROVE  SalesInv'
  BY <1>3, VisitSales, ClaimSales, AppliedSales, UnappliedSales DEF Shop
<1>4. CASE UNCHANGED offersVars
  <2>1. UNCHANGED <<price, coupon, caller, saleRows, saleHistory>>
    BY <1>4 DEF offersVars, catalogue, couponRows
  <2>2. \A t \in Sales : SameSale(t)
    BY <2>1 DEF SameSale, saleRows, saleHistory
  <2>3. AloneRule'
    BY <2>1 DEF SalesInv, AloneRule, Applying
  <2>4. \A q \in Callers : Selling(q) => caller[q].sale \in Sales
    BY DEF Selling, CheckoutCalls, ChangeCalls, VisitCalls
  <2> QED
    BY <2>1, <2>2, <2>3, <2>4, SaleKeeps, CallKeeps DEF SalesInv
<1> QED
  BY <1>1, <1>2, <1>3, <1>4, SellSales, DieSales DEF OffersNext, Trade

\* A subscription is for what was agreed and an invoice for what was promised, and
\* the success page is for events that had their effect (createCheckoutSession,
\* changeSubscriptionPlan and processWebhookEvent of service.ts, and the page of a
\* mock checkout).
THEOREM SalesAsOffered == OffersSpec => []SoldAsOffered
<1>1. OffersInit => SalesInv
  <2> SUFFICES ASSUME OffersInit PROVE SalesInv
    OBVIOUS
  <2>1. \A r \in Callers : CallRules(r)
    BY Placeholders DEF OffersInit, CallRules, AskRule, ChangeRule, VisitRule
  <2>2. AloneRule
    BY Placeholders DEF OffersInit, AloneRule, Applying
  <2>3. \A s \in Sales : SaleRules(s)
    BY DEF OffersInit, SaleRules, SaleRule, TermsRule, EffectRule, SoldRule, Sold, Kinds
  <2> QED
    BY <2>1, <2>2, <2>3 DEF SalesInv
<1>2. OffersTypeInv /\ SalesInv /\ [OffersNext]_offersVars => OffersTypeInv' /\ SalesInv'
  BY OffersTypeStep, SalesStep
<1>3. SalesInv => SoldAsOffered
  BY DEF SalesInv, SaleRules, SoldRule, EffectRule, SoldAsOffered
<1> QED
  BY <1>1, <1>2, <1>3, OffersTypeInitially, PTL DEF OffersSpec
===============================================================================
