--------------------------- MODULE MessagingProofs ---------------------------
(***************************************************************************)
(* Machine-checked proofs about JobQueue and Messaging, for every value of *)
(* their constants.  A step of a handler is a step of the queue's worker   *)
(* or none that the queue sees, so the queue's theorems hold of the        *)
(* composition (MessagingUsesQueue), and the messages' own invariant rests *)
(* on them.                                                                *)
(***************************************************************************)
EXTENDS Messaging, FiniteSetTheorems, TLAPS

-----------------------------------------------------------------------------
(* The queue *)

\* The id materializeDueCronJobs gives to a new job is one of an absent row.
LEMMA NewJobIsSpare ==
  ASSUME NEW lag, NEW s \in DueSchedules(lag)
  PROVE  NewJob(s) \in Spare(s)
BY DEF DueSchedules, NewJob

\* A worker holds a job exactly from the claim to the end of runWorkerOnce.
HeldPc == \A w \in Workers : held[w] = NoJob <=> pc[w] \in {"down", "poll", "claim"}
TypeInv == TypeOK /\ HeldPc

\* Every statement of the job tables and every step of a worker keeps the
\* state well typed.
LEMMA TypeStep ==
  ASSUME TypeInv, [Next]_vars
  PROVE  TypeInv'
<1> USE ConstantsAssumption
    DEF TypeInv, HeldPc, TypeOK, Statuses, Pcs, Lags, rowVars, cronVars, histVars, faultVars
<1>1. ASSUME NEW j \in Jobs, NEW b \in Budgets, NEW d \in Delays, Enqueue(j, b, d)
      PROVE TypeInv'
  BY <1>1 DEF Enqueue, Insert
<1>2. ASSUME NEW w \in Workers, Start(w) PROVE TypeInv'
  BY <1>2 DEF Start, Register
<1>3. ASSUME NEW w \in Workers, Materialize(w) PROVE TypeInv'
  BY <1>3 DEF Materialize, Insert
<1>4. ASSUME NEW w \in Workers, NEW lag \in Lags, ClaimNothing(w, lag) PROVE TypeInv'
  BY <1>4 DEF ClaimNothing, StatusAfterReclaim, DueAfterReclaim, AgeAfterReclaim,
              OwnerAfterReclaim
<1>5. ASSUME NEW w \in Workers, NEW j \in Jobs, NEW lag \in Lags, ClaimJob(w, j, lag) PROVE TypeInv'
  <2>1. HeldPc'
    BY <1>5 DEF ClaimJob
  <2>2. TypeOK'
    <3>1. /\ StatusAfterReclaim(ServedBy[w], lag) \in [Jobs -> Statuses]
          /\ DueAfterReclaim(ServedBy[w], lag) \in [Jobs -> Int]
          /\ AgeAfterReclaim(ServedBy[w], lag) \in [Jobs -> Nat]
          /\ OwnerAfterReclaim(ServedBy[w], lag) \in [Jobs -> Workers \cup {NoWorker}]
      BY DEF StatusAfterReclaim, DueAfterReclaim, AgeAfterReclaim, OwnerAfterReclaim
    <3>2. /\ status' \in [Jobs -> Statuses] /\ due' \in [Jobs -> Int] /\ age' \in [Jobs -> Nat]
          /\ owner' \in [Jobs -> Workers \cup {NoWorker}] /\ attempts' \in [Jobs -> Nat]
      BY <1>5, <3>1 DEF ClaimJob
    <3>3. /\ pc' \in [Workers -> Pcs] /\ held' \in [Workers -> Jobs \cup {NoJob}]
          /\ overrun' \subseteq Jobs /\ UNCHANGED <<maxAttempts, cronVars, starts, succeeded, unacked, faultVars>>
      BY <1>5 DEF ClaimJob
    <3> QED
      BY <3>2, <3>3
  <2> QED
    BY <2>1, <2>2
<1>6. ASSUME NEW w \in Workers, CallHandler(w) PROVE TypeInv'
  BY <1>6 DEF CallHandler
<1>7. ASSUME NEW w \in Workers, NoHandler(w) PROVE TypeInv'
  BY <1>7 DEF NoHandler
<1>8. ASSUME NEW w \in Workers, HandlerReturns(w) PROVE TypeInv'
  BY <1>8 DEF HandlerReturns
<1>9. ASSUME NEW w \in Workers, HandlerThrows(w) PROVE TypeInv'
  BY <1>9 DEF HandlerThrows
<1>10. ASSUME NEW w \in Workers, Complete(w) PROVE TypeInv'
  BY <1>10 DEF Complete, MarkCompleted, LoopAgain
<1>11. ASSUME NEW w \in Workers, CompleteRaises(w) PROVE TypeInv'
  <2>1. held[w] \in Jobs
    BY <1>11 DEF CompleteRaises
  <2>2. CASE UNCHANGED <<rowVars, unacked>>
    BY <1>11, <2>2 DEF CompleteRaises
  <2>3. CASE MarkCompleted(held[w]) /\ unacked' = unacked \cup {held[w]}
    BY <1>11, <2>1, <2>3 DEF CompleteRaises, MarkCompleted
  <2> QED
    BY <1>11, <2>2, <2>3 DEF CompleteRaises
<1>12. ASSUME NEW w \in Workers, Fail(w) PROVE TypeInv'
  BY <1>12 DEF Fail, SetFailed, LoopAgain
<1>13. ASSUME NEW w \in Workers, Crash(w) PROVE TypeInv'
  BY <1>13 DEF Crash
<1>14. ASSUME NEW w \in Workers, Quit(w) PROVE TypeInv'
  BY <1>14 DEF Quit
<1>15. CASE Tick
  BY <1>15 DEF Tick
<1>16. CASE UNCHANGED vars
  BY <1>16 DEF vars
<1> QED
  BY <1>1, <1>2, <1>3, <1>4, <1>5, <1>6, <1>7, <1>8, <1>9, <1>10, <1>11, <1>12,
     <1>13, <1>14, <1>15, <1>16 DEF Next, WorkerStep, Fault, Claim, Handle

LEMMA TypeInit == Init => TypeInv
BY ConstantsAssumption DEF Init, TypeInv, HeldPc, TypeOK, Statuses, Pcs

LEMMA TypeInvariant == Spec => []TypeInv
BY TypeInit, TypeStep, PTL DEF Spec

THEOREM TypeCorrect == Spec => []TypeOK
BY TypeInvariant, PTL DEF TypeInv

-----------------------------------------------------------------------------
\* The inductive invariant, in parts.

\* What the status of a row says about its counters.
RowInv ==
  \A j \in Jobs :
    /\ status[j] = "absent" => attempts[j] = 0 /\ maxAttempts[j] = 0
    /\ attempts[j] <= maxAttempts[j]
    /\ status[j] = "queued" => attempts[j] < maxAttempts[j]
    /\ status[j] = "failed" => attempts[j] = maxAttempts[j]
    /\ status[j] = "completed" => j \in succeeded

\* What a worker knows of the job it holds, however late it is.
HeldInv ==
  \A w \in Workers : held[w] # NoJob =>
    /\ status[held[w]] # "absent" /\ attempts[held[w]] > 0
    /\ pc[w] = "completing" => held[w] \in succeeded

\* Every handler call is paid for by an attempt; so is every call a worker is
\* about to make.
Claimants(j) == {w \in Workers : pc[w] = "claimed" /\ held[w] = j}
StartInv == \A j \in Jobs : starts[j] + Cardinality(Claimants(j)) <= attempts[j]

\* As long as no worker overran its lease on a job, its holder is its owner and
\* the lock is fresh, or its completion took effect unseen.
LeaseInv ==
  \A w \in Workers : held[w] # NoJob /\ held[w] \notin overrun =>
    \/ /\ status[held[w]] = "running" /\ owner[held[w]] = w
       /\ age[held[w]] < StaleAfter
    \/ /\ status[held[w]] = "completed" /\ pc[w] = "failing"
       /\ held[w] \in unacked

\* A schedule that fired waits for what is left of its interval.
CronInv ==
  \A s \in Schedules :
    /\ sinceRun[s] <= Interval[s] + MaxLag /\ nextIn[s] >= -MaxLag
    /\ sinceRun[s] + (IF known[s] THEN nextIn[s] ELSE 0) >= Interval[s]

-----------------------------------------------------------------------------
\* The rows a transaction of materializeDueCronJobs inserts were absent.
Born(lag) == {NewJob(s) : s \in DueSchedules(lag)}

LEMMA BornAbsent == ASSUME NEW lag PROVE \A j \in Born(lag) : j \in Jobs /\ status[j] = "absent"
BY NewJobIsSpare, ConstantsAssumption DEF Born, Spare, DueSchedules

\* The rows the two UPDATEs of reclaimStaleJobs touch.
LEMMA ReclaimedRows ==
  ASSUME TypeInv, NEW q, NEW lag \in Lags, NEW j \in Jobs
  PROVE  /\ j \in Stale(q, lag) => status[j] = "running" /\ age[j] >= StaleAfter
         /\ j \in Requeued(q, lag) <=> j \in Stale(q, lag) /\ attempts[j] < maxAttempts[j]
         /\ j \in Exhausted(q, lag) <=> j \in Stale(q, lag) /\ attempts[j] >= maxAttempts[j]
BY ConstantsAssumption DEF Stale, Requeued, Exhausted, Lags, TypeInv, TypeOK

\* The row claimNextJob selects: queued, or just requeued.
LEMMA FrontRow ==
  ASSUME NEW q, NEW lag, NEW j \in Front(q, lag)
  PROVE  j \in Jobs /\ (status[j] = "queued" \/ j \in Requeued(q, lag))
BY DEF Front, Ready, StatusAfterReclaim

LEMMA RowsStep ==
  ASSUME TypeInv, RowInv, HeldInv, [Next]_vars
  PROVE  RowInv' /\ HeldInv'
<1> USE ConstantsAssumption DEF TypeInv, HeldPc, TypeOK, Statuses, Pcs, RowInv, HeldInv,
    rowVars, cronVars, histVars, faultVars
<1>1. ASSUME NEW j \in Jobs, NEW b \in Budgets, NEW d \in Delays, Enqueue(j, b, d)
      PROVE RowInv' /\ HeldInv'
  BY <1>1 DEF Enqueue, Insert
<1>2. ASSUME NEW w \in Workers, Start(w)
      PROVE RowInv' /\ HeldInv'
  BY <1>2 DEF Start, Register
<1>3. ASSUME NEW w \in Workers, Materialize(w)
      PROVE RowInv' /\ HeldInv'
  <2>1. PICK lag \in Lags :
          /\ Insert(Born(lag), CronBudget, -lag) /\ UNCHANGED histVars
          /\ pc' = [pc EXCEPT ![w] = "claim"] /\ held' = held /\ pc[w] = "poll"
    BY <1>3 DEF Materialize, Born
  <2> QED
    BY <2>1, BornAbsent DEF Insert
<1>4. ASSUME NEW w \in Workers, NEW lag \in Lags, ClaimNothing(w, lag)
      PROVE RowInv' /\ HeldInv'
  <2>1. \A k \in Jobs : status'[k] = IF k \in Requeued(ServedBy[w], lag) THEN "queued"
                                    ELSE IF k \in Exhausted(ServedBy[w], lag) THEN "failed"
                                    ELSE status[k]
    BY <1>4 DEF ClaimNothing, StatusAfterReclaim
  <2>2. UNCHANGED <<attempts, maxAttempts, succeeded, held>> /\ pc' = [pc EXCEPT ![w] = "poll"]
    BY <1>4 DEF ClaimNothing
  <2>3. \A k \in Jobs :
          /\ k \in Requeued(ServedBy[w], lag) => status[k] = "running" /\ attempts[k] < maxAttempts[k]
          /\ k \in Exhausted(ServedBy[w], lag) => status[k] = "running" /\ attempts[k] >= maxAttempts[k]
    BY ReclaimedRows
  <2>4. RowInv'
    <3>1. \A k \in Jobs : status[k] \in Statuses /\ attempts[k] \in Nat /\ maxAttempts[k] \in Nat
      OBVIOUS
    <3>2. ASSUME NEW k \in Jobs
          PROVE  /\ status'[k] = "absent" => attempts[k] = 0 /\ maxAttempts[k] = 0
                 /\ attempts[k] <= maxAttempts[k]
                 /\ status'[k] = "queued" => attempts[k] < maxAttempts[k]
                 /\ status'[k] = "failed" => attempts[k] = maxAttempts[k]
                 /\ status'[k] = "completed" => k \in succeeded
      <4>1. /\ status[k] = "absent" => attempts[k] = 0 /\ maxAttempts[k] = 0
            /\ attempts[k] <= maxAttempts[k]
            /\ status[k] = "queued" => attempts[k] < maxAttempts[k]
            /\ status[k] = "failed" => attempts[k] = maxAttempts[k]
            /\ status[k] = "completed" => k \in succeeded
        OBVIOUS
      <4>2. CASE k \in Requeued(ServedBy[w], lag)
        <5>1. status'[k] = "queued" /\ attempts[k] < maxAttempts[k]
          BY <2>1, <2>3, <4>2
        <5> QED
          BY <4>1, <5>1
      <4>3. CASE k \in Exhausted(ServedBy[w], lag) /\ k \notin Requeued(ServedBy[w], lag)
        <5>1. status'[k] = "failed" /\ attempts[k] >= maxAttempts[k]
          BY <2>1, <2>3, <4>3
        <5>2. attempts[k] \in Nat /\ maxAttempts[k] \in Nat /\ attempts[k] <= maxAttempts[k]
          BY <3>1, <4>1
        <5>3. attempts[k] = maxAttempts[k]
          <6> HIDE DEF TypeInv, HeldPc, TypeOK, Statuses, Pcs, RowInv, HeldInv,
                       rowVars, cronVars, histVars, faultVars
          <6> QED
            BY <5>1, <5>2
        <5>4. status[k] = "running"
          BY <2>3, <4>3
        <5> QED
          BY <4>1, <5>1, <5>2, <5>3, <5>4
      <4>4. CASE k \notin Exhausted(ServedBy[w], lag) /\ k \notin Requeued(ServedBy[w], lag)
        BY <2>1, <4>1, <4>4
      <4> QED
        BY <4>2, <4>3, <4>4
    <3> QED
      BY <2>2, <3>2
  <2>5. HeldInv'
    BY <2>1, <2>2, <2>3
  <2> QED
    BY <2>4, <2>5
<1>5. ASSUME NEW w \in Workers, NEW j \in Jobs, NEW lag \in Lags, ClaimJob(w, j, lag)
      PROVE RowInv' /\ HeldInv'
  <2>1. \A k \in Jobs : status'[k] = IF k = j THEN "running"
                                    ELSE IF k \in Requeued(ServedBy[w], lag) THEN "queued"
                                    ELSE IF k \in Exhausted(ServedBy[w], lag) THEN "failed"
                                    ELSE status[k]
    BY <1>5 DEF ClaimJob, StatusAfterReclaim
  <2>2. attempts[j] < maxAttempts[j]
    BY <1>5, ReclaimedRows, FrontRow DEF ClaimJob
  <2>3. RowInv'
    <3>1. /\ maxAttempts' = maxAttempts /\ succeeded' = succeeded
          /\ \A k \in Jobs : attempts'[k] = IF k = j THEN attempts[j] + 1 ELSE attempts[k]
      BY <1>5 DEF ClaimJob
    <3>2. \A k \in Jobs : attempts[k] \in Nat /\ maxAttempts[k] \in Nat
      OBVIOUS
    <3>3. ASSUME NEW k \in Jobs
          PROVE  /\ status'[k] = "absent" => attempts'[k] = 0 /\ maxAttempts'[k] = 0
                 /\ attempts'[k] <= maxAttempts'[k]
                 /\ status'[k] = "queued" => attempts'[k] < maxAttempts'[k]
                 /\ status'[k] = "failed" => attempts'[k] = maxAttempts'[k]
                 /\ status'[k] = "completed" => k \in succeeded'
      BY <2>1, <2>2, <3>1, <3>2, ReclaimedRows, SMTT(30)
    <3> QED
      BY <3>3
  <2>4. HeldInv'
    BY <1>5, <2>1, <2>2, ReclaimedRows DEF ClaimJob
  <2> QED
    BY <2>3, <2>4
<1>6. ASSUME NEW w \in Workers, CallHandler(w)
      PROVE RowInv' /\ HeldInv'
  BY <1>6 DEF CallHandler
<1>7. ASSUME NEW w \in Workers, NoHandler(w)
      PROVE RowInv' /\ HeldInv'
  BY <1>7 DEF NoHandler
<1>8. ASSUME NEW w \in Workers, HandlerReturns(w)
      PROVE RowInv' /\ HeldInv'
  BY <1>8 DEF HandlerReturns
<1>9. ASSUME NEW w \in Workers, HandlerThrows(w)
      PROVE RowInv' /\ HeldInv'
  BY <1>9 DEF HandlerThrows
<1>10. ASSUME NEW w \in Workers, Complete(w)
      PROVE RowInv' /\ HeldInv'
  BY <1>10 DEF Complete, MarkCompleted, LoopAgain
<1>11. ASSUME NEW w \in Workers, CompleteRaises(w)
      PROVE RowInv' /\ HeldInv'
  BY <1>11 DEF CompleteRaises, MarkCompleted
<1>12. ASSUME NEW w \in Workers, Fail(w)
      PROVE RowInv' /\ HeldInv'
  <2>1. /\ held[w] \in Jobs /\ attempts' = attempts /\ maxAttempts' = maxAttempts
        /\ succeeded' = succeeded
    BY <1>12 DEF Fail, SetFailed
  <2>2. \A k \in Jobs : status'[k] = IF k # held[w] THEN status[k]
                                     ELSE IF MayRetry(held[w]) THEN "queued" ELSE "failed"
    BY <1>12 DEF Fail, SetFailed
  <2>3. \A v \in Workers : /\ held'[v] = IF v = w THEN NoJob ELSE held[v]
                           /\ pc'[v] = IF v = w THEN "poll" ELSE pc[v]
    BY <1>12 DEF Fail, LoopAgain
  <2>4. attempts[held[w]] <= maxAttempts[held[w]] /\ attempts[held[w]] > 0
    BY <1>12, <2>1 DEF Fail
  <2>5. RowInv'
    BY <2>1, <2>2, <2>4, SMTT(30) DEF MayRetry
  <2>6. HeldInv'
    BY <2>1, <2>2, <2>3
  <2> QED
    BY <2>5, <2>6
<1>13. ASSUME NEW w \in Workers, Crash(w)
      PROVE RowInv' /\ HeldInv'
  BY <1>13 DEF Crash
<1>14. ASSUME NEW w \in Workers, Quit(w)
      PROVE RowInv' /\ HeldInv'
  BY <1>14 DEF Quit
<1>15. CASE Tick
  BY <1>15 DEF Tick
<1>16. CASE UNCHANGED vars
  BY <1>16 DEF vars
<1> QED
  BY <1>1, <1>2, <1>3, <1>4, <1>5, <1>6, <1>7, <1>8, <1>9, <1>10, <1>11, <1>12,
     <1>13, <1>14, <1>15, <1>16 DEF Next, WorkerStep, Fault, Claim, Handle

LEMMA CronStep ==
  ASSUME TypeInv, CronInv, [Next]_vars
  PROVE  CronInv'
<1> USE ConstantsAssumption DEF TypeInv, TypeOK, CronInv, Lags,
    rowVars, cronVars, histVars, faultVars
<1>1. ASSUME NEW j \in Jobs, NEW b \in Budgets, NEW d \in Delays, Enqueue(j, b, d)
      PROVE CronInv'
  BY <1>1 DEF Enqueue
<1>2. ASSUME NEW w \in Workers, Start(w)
      PROVE CronInv'
  BY <1>2 DEF Start, Register
<1>3. ASSUME NEW w \in Workers, Materialize(w)
      PROVE CronInv'
  BY <1>3 DEF Materialize, DueSchedules
<1>4. ASSUME NEW w \in Workers, NEW lag \in Lags, ClaimNothing(w, lag)
      PROVE CronInv'
  BY <1>4 DEF ClaimNothing
<1>5. ASSUME NEW w \in Workers, NEW j \in Jobs, NEW lag \in Lags, ClaimJob(w, j, lag)
      PROVE CronInv'
  BY <1>5 DEF ClaimJob
<1>6. ASSUME NEW w \in Workers, CallHandler(w)
      PROVE CronInv'
  BY <1>6 DEF CallHandler
<1>7. ASSUME NEW w \in Workers, NoHandler(w)
      PROVE CronInv'
  BY <1>7 DEF NoHandler
<1>8. ASSUME NEW w \in Workers, HandlerReturns(w)
      PROVE CronInv'
  BY <1>8 DEF HandlerReturns
<1>9. ASSUME NEW w \in Workers, HandlerThrows(w)
      PROVE CronInv'
  BY <1>9 DEF HandlerThrows
<1>10. ASSUME NEW w \in Workers, Complete(w)
      PROVE CronInv'
  BY <1>10 DEF Complete
<1>11. ASSUME NEW w \in Workers, CompleteRaises(w)
      PROVE CronInv'
  BY <1>11 DEF CompleteRaises
<1>12. ASSUME NEW w \in Workers, Fail(w)
      PROVE CronInv'
  BY <1>12 DEF Fail
<1>13. ASSUME NEW w \in Workers, Crash(w)
      PROVE CronInv'
  BY <1>13 DEF Crash
<1>14. ASSUME NEW w \in Workers, Quit(w)
      PROVE CronInv'
  BY <1>14 DEF Quit
<1>15. CASE Tick
  BY <1>15 DEF Tick
<1>16. CASE UNCHANGED vars
  BY <1>16 DEF vars
<1> QED
  BY <1>1, <1>2, <1>3, <1>4, <1>5, <1>6, <1>7, <1>8, <1>9, <1>10, <1>11, <1>12,
     <1>13, <1>14, <1>15, <1>16 DEF Next, WorkerStep, Fault, Claim, Handle

LEMMA LeaseStep ==
  ASSUME TypeInv, LeaseInv, LeaseExclusion, [Next]_vars
  PROVE  LeaseInv' /\ LeaseExclusion'
<1> USE ConstantsAssumption DEF TypeInv, HeldPc, TypeOK, Statuses, Pcs, LeaseInv, LeaseExclusion,
    rowVars, cronVars, histVars, faultVars
<1>1. ASSUME NEW j \in Jobs, NEW b \in Budgets, NEW d \in Delays, Enqueue(j, b, d)
      PROVE LeaseInv' /\ LeaseExclusion'
  BY <1>1 DEF Enqueue, Insert
<1>2. ASSUME NEW w \in Workers, Start(w)
      PROVE LeaseInv' /\ LeaseExclusion'
  BY <1>2 DEF Start, Register
<1>3. ASSUME NEW w \in Workers, Materialize(w)
      PROVE LeaseInv' /\ LeaseExclusion'
  <2>1. PICK lag \in Lags :
          /\ Insert(Born(lag), CronBudget, -lag) /\ UNCHANGED histVars
          /\ pc' = [pc EXCEPT ![w] = "claim"] /\ held' = held /\ pc[w] = "poll"
    BY <1>3 DEF Materialize, Born
  <2> QED
    BY <2>1, BornAbsent DEF Insert
<1>4. ASSUME NEW w \in Workers, NEW lag \in Lags, ClaimNothing(w, lag)
      PROVE LeaseInv' /\ LeaseExclusion'
  BY <1>4, ReclaimedRows
     DEF ClaimNothing, StatusAfterReclaim, AgeAfterReclaim, OwnerAfterReclaim
<1>5. ASSUME NEW w \in Workers, NEW j \in Jobs, NEW lag \in Lags, ClaimJob(w, j, lag)
      PROVE LeaseInv' /\ LeaseExclusion'
  <2>1. \A k \in Jobs \ {j} : k \notin Stale(ServedBy[w], lag)
          => status'[k] = status[k] /\ age'[k] = age[k] /\ owner'[k] = owner[k]
    BY <1>5, ReclaimedRows DEF ClaimJob, StatusAfterReclaim, AgeAfterReclaim, OwnerAfterReclaim
  <2>2. status'[j] = "running" /\ age'[j] = lag /\ owner'[j] = w
    BY <1>5 DEF ClaimJob, StatusAfterReclaim, AgeAfterReclaim, OwnerAfterReclaim
  <2>3. \A v \in Workers : held[v] = j => j \in overrun
    BY <1>5, ReclaimedRows, FrontRow, SMTT(30) DEF ClaimJob
  <2>4. /\ pc' = [pc EXCEPT ![w] = "claimed"] /\ held' = [held EXCEPT ![w] = j]
        /\ overrun' = (IF lag >= StaleAfter THEN overrun \cup {j} ELSE overrun)
        /\ unacked' = unacked /\ pc[w] = "claim"
    BY <1>5 DEF ClaimJob
  <2>5. LeaseExclusion'
    BY <2>3, <2>4
  <2>6. ASSUME NEW v \in Workers, held'[v] # NoJob, held'[v] \notin overrun'
        PROVE  \/ /\ status'[held'[v]] = "running" /\ owner'[held'[v]] = v
                  /\ age'[held'[v]] < StaleAfter
               \/ /\ status'[held'[v]] = "completed" /\ pc'[v] = "failing"
                  /\ held'[v] \in unacked'
    <3>1. CASE v = w
      BY <2>2, <2>4, <2>6, <3>1 DEF Lags
    <3>2. CASE v # w
      <4>1. /\ held'[v] = held[v] /\ pc'[v] = pc[v] /\ held[v] \in Jobs \ {j}
            /\ held[v] \notin overrun
        BY <2>3, <2>4, <2>6, <3>2
      <4>2. held[v] \notin Stale(ServedBy[w], lag)
        BY <4>1, ReclaimedRows
      <4> QED
        BY <2>1, <2>4, <4>1, <4>2
    <3> QED
      BY <3>1, <3>2
  <2>7. LeaseInv'
    BY <2>6
  <2> QED
    BY <2>5, <2>7
<1>6. ASSUME NEW w \in Workers, CallHandler(w)
      PROVE LeaseInv' /\ LeaseExclusion'
  BY <1>6 DEF CallHandler
<1>7. ASSUME NEW w \in Workers, NoHandler(w)
      PROVE LeaseInv' /\ LeaseExclusion'
  BY <1>7 DEF NoHandler
<1>8. ASSUME NEW w \in Workers, HandlerReturns(w)
      PROVE LeaseInv' /\ LeaseExclusion'
  BY <1>8 DEF HandlerReturns
<1>9. ASSUME NEW w \in Workers, HandlerThrows(w)
      PROVE LeaseInv' /\ LeaseExclusion'
  BY <1>9 DEF HandlerThrows
<1>10. ASSUME NEW w \in Workers, Complete(w)
      PROVE LeaseInv' /\ LeaseExclusion'
  BY <1>10 DEF Complete, MarkCompleted, LoopAgain
<1>11. ASSUME NEW w \in Workers, CompleteRaises(w)
      PROVE LeaseInv' /\ LeaseExclusion'
  BY <1>11 DEF CompleteRaises, MarkCompleted
<1>12. ASSUME NEW w \in Workers, Fail(w)
      PROVE LeaseInv' /\ LeaseExclusion'
  BY <1>12 DEF Fail, SetFailed, MayRetry, LoopAgain
<1>13. ASSUME NEW w \in Workers, Crash(w)
      PROVE LeaseInv' /\ LeaseExclusion'
  BY <1>13 DEF Crash
<1>14. ASSUME NEW w \in Workers, Quit(w)
      PROVE LeaseInv' /\ LeaseExclusion'
  BY <1>14 DEF Quit
<1>15. CASE Tick
  BY <1>15 DEF Tick
<1>16. CASE UNCHANGED vars
  BY <1>16 DEF vars
<1> QED
  BY <1>1, <1>2, <1>3, <1>4, <1>5, <1>6, <1>7, <1>8, <1>9, <1>10, <1>11, <1>12,
     <1>13, <1>14, <1>15, <1>16 DEF Next, WorkerStep, Fault, Claim, Handle

-----------------------------------------------------------------------------
LEMMA ClaimantsFinite ==
  ASSUME NEW j
  PROVE  /\ IsFiniteSet(Claimants(j)) /\ Cardinality(Claimants(j)) \in Nat
         /\ IsFiniteSet(Claimants(j)') /\ Cardinality(Claimants(j)') \in Nat
<1>1. Claimants(j) \subseteq Workers /\ Claimants(j)' \subseteq Workers
  BY DEF Claimants
<1>2. IsFiniteSet(Claimants(j)) /\ IsFiniteSet(Claimants(j)')
  BY <1>1, FS_Subset, ConstantsAssumption
<1> QED
  BY <1>2, FS_CardinalityType

\* A step that starts no handler, takes no attempt back and makes nobody a
\* claimant cannot break the budget.
LEMMA QuietStep ==
  ASSUME TypeInv, StartInv, starts' = starts,
         \A j \in Jobs : attempts'[j] = attempts[j],
         \A j \in Jobs : Claimants(j)' \subseteq Claimants(j)
  PROVE  StartInv'
<1> SUFFICES ASSUME NEW j \in Jobs
             PROVE starts[j] + Cardinality(Claimants(j)') <= attempts[j]
  BY DEF StartInv
<1>1. Cardinality(Claimants(j)') <= Cardinality(Claimants(j))
  BY ClaimantsFinite, FS_Subset
<1>2. starts[j] \in Nat /\ attempts[j] \in Nat
  BY DEF TypeInv, TypeOK
<1>3. starts[j] + Cardinality(Claimants(j)) <= attempts[j]
  BY DEF StartInv
<1> QED
  BY <1>1, <1>2, <1>3, ClaimantsFinite

\* A claim pays for the claimant it makes.
LEMMA ClaimPays ==
  ASSUME TypeInv, StartInv, NEW w \in Workers, NEW j \in Jobs, NEW lag \in Lags, ClaimJob(w, j, lag)
  PROVE  StartInv'
<1> SUFFICES ASSUME NEW k \in Jobs
             PROVE starts'[k] + Cardinality(Claimants(k)') <= attempts'[k]
  BY DEF StartInv
<1>1. /\ starts' = starts /\ pc[w] = "claim"
      /\ pc' = [pc EXCEPT ![w] = "claimed"] /\ held' = [held EXCEPT ![w] = j]
      /\ attempts' = [attempts EXCEPT ![j] = @ + 1]
  BY DEF ClaimJob, histVars
<1>2. starts[k] \in Nat /\ attempts[k] \in Nat
  BY DEF TypeInv, TypeOK
<1>3. starts[k] + Cardinality(Claimants(k)) <= attempts[k]
  BY DEF StartInv
<1>4. CASE k = j
  <2>1. w \notin Claimants(j) /\ Claimants(j)' = Claimants(j) \cup {w}
    BY <1>1 DEF Claimants, TypeInv, TypeOK
  <2>2. Cardinality(Claimants(j)') = Cardinality(Claimants(j)) + 1
    BY <2>1, ClaimantsFinite, FS_AddElement
  <2>3. attempts'[k] = attempts[k] + 1
    BY <1>1, <1>4 DEF TypeInv, TypeOK
  <2> QED
    BY <1>1, <1>2, <1>3, <1>4, <2>2, <2>3, ClaimantsFinite
<1>5. CASE k # j
  <2>1. Claimants(k)' = Claimants(k)
    BY <1>1, <1>5 DEF Claimants, TypeInv, TypeOK
  <2>2. attempts'[k] = attempts[k]
    BY <1>1, <1>5 DEF TypeInv, TypeOK
  <2> QED
    BY <1>1, <1>3, <2>1, <2>2
<1> QED
  BY <1>4, <1>5

\* A handler call uses up what its claim paid.
LEMMA CallIsPaid ==
  ASSUME TypeInv, StartInv, NEW w \in Workers, CallHandler(w)
  PROVE  StartInv'
<1> SUFFICES ASSUME NEW k \in Jobs
             PROVE starts'[k] + Cardinality(Claimants(k)') <= attempts'[k]
  BY DEF StartInv
<1>1. /\ pc[w] = "claimed" /\ pc' = [pc EXCEPT ![w] = "handling"] /\ held' = held
      /\ starts' = [starts EXCEPT ![held[w]] = @ + 1] /\ attempts' = attempts
  BY DEF CallHandler, rowVars
<1>2. starts[k] \in Nat /\ attempts[k] \in Nat
  BY DEF TypeInv, TypeOK
<1>3. starts[k] + Cardinality(Claimants(k)) <= attempts[k]
  BY DEF StartInv
<1>4. CASE k = held[w]
  <2>1. w \in Claimants(k) /\ Claimants(k)' = Claimants(k) \ {w}
    BY <1>1, <1>4 DEF Claimants, TypeInv, TypeOK
  <2>2. Cardinality(Claimants(k)') = Cardinality(Claimants(k)) - 1
    BY <2>1, ClaimantsFinite, FS_RemoveElement
  <2>3. starts'[k] = starts[k] + 1
    BY <1>1, <1>4 DEF TypeInv, TypeOK
  <2> QED
    BY <1>1, <1>2, <1>3, <2>2, <2>3, ClaimantsFinite
<1>5. CASE k # held[w]
  <2>1. Claimants(k)' = Claimants(k)
    BY <1>1, <1>5 DEF Claimants, TypeInv, TypeOK
  <2>2. starts'[k] = starts[k]
    BY <1>1, <1>5 DEF TypeInv, TypeOK
  <2> QED
    BY <1>1, <1>3, <2>1, <2>2
<1> QED
  BY <1>4, <1>5

LEMMA StartStep ==
  ASSUME TypeInv, RowInv, StartInv, [Next]_vars
  PROVE  StartInv'
<1> USE DEF rowVars, cronVars, histVars, faultVars
<1>1. ASSUME NEW j \in Jobs, NEW b \in Budgets, NEW d \in Delays, Enqueue(j, b, d)
      PROVE StartInv'
  <2>1. /\ starts' = starts
        /\ \A k \in Jobs : attempts'[k] = attempts[k]
        /\ \A k \in Jobs : Claimants(k)' \subseteq Claimants(k)
    BY <1>1 DEF Enqueue, Insert, RowInv, Claimants, TypeInv, TypeOK
  <2> QED
    BY <2>1, QuietStep
<1>2. ASSUME NEW w \in Workers, Materialize(w)
      PROVE StartInv'
  <2>1. PICK lag \in Lags :
        /\ Insert(Born(lag), CronBudget, -lag) /\ starts' = starts
        /\ pc' = [pc EXCEPT ![w] = "claim"] /\ held' = held
    BY <1>2 DEF Materialize, Born
  <2>2. /\ \A k \in Jobs : attempts'[k] = attempts[k]
        /\ \A k \in Jobs : Claimants(k)' \subseteq Claimants(k)
    BY <2>1, BornAbsent DEF Insert, RowInv, Claimants, TypeInv, TypeOK
  <2> QED
    BY <2>1, <2>2, QuietStep
<1>3. ASSUME NEW w \in Workers, NEW j \in Jobs, NEW lag \in Lags, ClaimJob(w, j, lag)
      PROVE StartInv'
  BY <1>3, ClaimPays
<1>4. ASSUME NEW w \in Workers, CallHandler(w)
      PROVE StartInv'
  BY <1>4, CallIsPaid
<1>5. ASSUME NEW w \in Workers,
             \/ Start(w) \/ (\E lag \in Lags : ClaimNothing(w, lag)) \/ NoHandler(w) \/ HandlerReturns(w)
             \/ HandlerThrows(w) \/ Complete(w) \/ Fail(w) \/ Crash(w) \/ Quit(w)
             \/ CompleteRaises(w)
      PROVE StartInv'
  <2>1. starts' = starts /\ attempts' = attempts
    BY <1>5 DEF Start, ClaimNothing, NoHandler, HandlerReturns, HandlerThrows, Complete,
       MarkCompleted, Fail, SetFailed, Crash, Quit, CompleteRaises
  <2>2. /\ \E x \in Pcs \ {"claimed"} : pc' = [pc EXCEPT ![w] = x]
        /\ held' = held \/ held' = [held EXCEPT ![w] = NoJob]
    BY <1>5 DEF Start, ClaimNothing, NoHandler, HandlerReturns, HandlerThrows, Complete,
       LoopAgain, Fail, Crash, Quit, CompleteRaises, Pcs
  <2>3. \A k \in Jobs : Claimants(k)' \subseteq Claimants(k)
    BY <2>2, ConstantsAssumption DEF Claimants, TypeInv, TypeOK
  <2> QED
    BY <2>1, <2>3, QuietStep
<1>6. CASE Tick \/ UNCHANGED vars
  <2>1. /\ starts' = starts /\ attempts' = attempts
        /\ \A k \in Jobs : Claimants(k)' \subseteq Claimants(k)
    BY <1>6 DEF Tick, vars, Claimants
  <2> QED
    BY <2>1, QuietStep
<1> QED
  BY <1>1, <1>2, <1>3, <1>4, <1>5, <1>6 DEF Next, WorkerStep, Fault, Claim, Handle

-----------------------------------------------------------------------------
IInv == RowInv /\ HeldInv /\ StartInv /\ LeaseInv /\ LeaseExclusion /\ CronInv

LEMMA Initially == Init => IInv
<1> SUFFICES ASSUME Init PROVE IInv
  OBVIOUS
<1> USE ConstantsAssumption DEF Init
<1>1. RowInv /\ HeldInv /\ LeaseInv /\ LeaseExclusion /\ CronInv
  BY DEF RowInv, HeldInv, LeaseInv, LeaseExclusion, CronInv
<1>2. StartInv
  <2>1. \A j \in Jobs : Claimants(j) = {}
    BY DEF Claimants
  <2>2. \A j \in Jobs : Cardinality(Claimants(j)) = 0
    BY <2>1, FS_EmptySet, Zenon
  <2> QED
    BY <2>2 DEF StartInv
<1> QED
  BY <1>1, <1>2 DEF IInv

LEMMA QueueStep ==
  ASSUME TypeInv, IInv, [Next]_vars
  PROVE  IInv'
BY RowsStep, CronStep, LeaseStep, StartStep DEF IInv

LEMMA Inductive == Spec => []IInv
BY QueueStep, Initially, TypeInvariant, PTL DEF Spec

\* At most max_attempts handler calls per job, whatever late answers, reclaims
\* and crashes there are (claimNextJob, failJob, reclaimStaleJobs).
THEOREM BudgetKept == Spec => []AttemptBudget
<1>1. TypeInv /\ IInv => AttemptBudget
  <2> SUFFICES ASSUME TypeInv, IInv, NEW j \in Jobs
               PROVE  starts[j] <= attempts[j]
    BY DEF IInv, RowInv, AttemptBudget
  <2>1. starts[j] + Cardinality(Claimants(j)) <= attempts[j]
    BY DEF IInv, StartInv
  <2> QED
    BY <2>1, ClaimantsFinite DEF TypeInv, TypeOK
<1> QED
  BY <1>1, TypeInvariant, Inductive, PTL

\* Two workers share a job only after a lease on it was overrun (claimNextJob).
THEOREM LeaseIsExclusive == Spec => []LeaseExclusion
BY Inductive, PTL DEF IInv

\* No row says completed before a handler run of its job returned
\* (runWorkerOnce, completeJob).
THEOREM CompletedWasHandled == Spec => []CompletedMeansHandled
<1>1. IInv => CompletedMeansHandled
  BY DEF IInv, RowInv, CompletedMeansHandled
<1> QED
  BY <1>1, Inductive, PTL

-----------------------------------------------------------------------------
Settled(j) == status[j] \in {"completed", "failed"} /\ j \notin overrun \cup unacked

LEMMA SettledStep ==
  ASSUME TypeInv, LeaseInv, [Next]_vars, NEW j \in Jobs, Settled(j)
  PROVE  status'[j] = status[j]
<1> USE ConstantsAssumption DEF Settled, rowVars, cronVars, histVars, faultVars
<1>1. \A w \in Workers : held[w] # j
  BY DEF LeaseInv
<1>2. ASSUME NEW k \in Jobs, NEW b \in Budgets, NEW d \in Delays, Enqueue(k, b, d)
      PROVE status'[j] = status[j]
  BY <1>2 DEF Enqueue, Insert
<1>3. ASSUME NEW w \in Workers, Materialize(w)
      PROVE status'[j] = status[j]
  <2>1. PICK lag \in Lags : Insert(Born(lag), CronBudget, -lag)
    BY <1>3 DEF Materialize, Born
  <2> QED
    BY <2>1, BornAbsent DEF Insert
<1>4. ASSUME NEW w \in Workers, NEW lag \in Lags, ClaimNothing(w, lag)
      PROVE status'[j] = status[j]
  BY <1>4, ReclaimedRows DEF ClaimNothing, StatusAfterReclaim
<1>5. ASSUME NEW w \in Workers, NEW k \in Jobs, NEW lag \in Lags, ClaimJob(w, k, lag)
      PROVE status'[j] = status[j]
  BY <1>5, ReclaimedRows, FrontRow DEF ClaimJob, StatusAfterReclaim
<1>6. ASSUME NEW w \in Workers, Complete(w) \/ CompleteRaises(w) \/ Fail(w)
      PROVE status'[j] = status[j]
  BY <1>1, <1>6 DEF Complete, CompleteRaises, MarkCompleted, Fail, SetFailed, TypeInv, TypeOK
<1>7. ASSUME NEW w \in Workers,
             Start(w) \/ Handle(w) \/ Crash(w) \/ Quit(w)
      PROVE status'[j] = status[j]
  BY <1>7 DEF Start, Handle, CallHandler, NoHandler, HandlerReturns, HandlerThrows, Crash, Quit
<1>8. CASE Tick \/ UNCHANGED vars
  BY <1>8 DEF Tick, vars
<1> QED
  BY <1>2, <1>3, <1>4, <1>5, <1>6, <1>7, <1>8 DEF Next, WorkerStep, Fault, Claim

\* completeJob and failJob, though unguarded, reopen a settled job only after an
\* overrun lease or a lost answer.
THEOREM SettledJobsStay == Spec => SettledStays
<1>1. TypeInv /\ IInv /\ [Next]_vars =>
        [\A j \in Jobs :
           /\ status[j] \in {"completed", "failed"}
           /\ j \notin overrun \cup unacked
           => status'[j] = status[j]]_vars
  BY SettledStep DEF IInv, Settled
<1> QED
  BY <1>1, TypeInvariant, Inductive, PTL DEF Spec, SettledStays

LEMMA CadenceStep ==
  ASSUME TypeInv, HeldInv, CronInv, [Next]_vars, NEW s \in Schedules, NEW j \in CronIds[s],
         status[j] = "absent", status'[j] = "queued"
  PROVE  sinceRun[s] - sinceRun'[s] >= Interval[s]
<1> USE ConstantsAssumption DEF rowVars, cronVars, histVars, faultVars
<1>1. j \in Jobs /\ j \in CronJobs
  BY DEF CronJobs
<1>2. ASSUME NEW k \in Jobs, NEW b \in Budgets, NEW d \in Delays, Enqueue(k, b, d)
      PROVE FALSE
  BY <1>1, <1>2 DEF Enqueue, Insert
<1>3. ASSUME NEW w \in Workers, Materialize(w)
      PROVE sinceRun[s] - sinceRun'[s] >= Interval[s]
  <2>1. PICK lag \in Lags :
          /\ Insert(Born(lag), CronBudget, -lag)
          /\ sinceRun' = [r \in Schedules |-> IF r \in DueSchedules(lag) THEN lag ELSE sinceRun[r]]
    BY <1>3 DEF Materialize, Born
  <2>2. j \in Born(lag)
    BY <1>1, <2>1 DEF Insert
  <2>3. PICK r \in DueSchedules(lag) : j = NewJob(r)
    BY <2>2 DEF Born
  <2>4. r \in Schedules /\ j \in CronIds[r]
    BY <2>3, NewJobIsSpare DEF Spare, DueSchedules
  <2>5. r = s
    BY <2>4
  <2> QED
    BY <2>1, <2>3, <2>5 DEF DueSchedules, CronInv, TypeInv, TypeOK, Lags
<1>4. ASSUME NEW w \in Workers, NEW lag \in Lags, ClaimNothing(w, lag)
      PROVE FALSE
  BY <1>1, <1>4, ReclaimedRows DEF ClaimNothing, StatusAfterReclaim
<1>5. ASSUME NEW w \in Workers, NEW k \in Jobs, NEW lag \in Lags, ClaimJob(w, k, lag)
      PROVE FALSE
  BY <1>1, <1>5, ReclaimedRows DEF ClaimJob, StatusAfterReclaim
<1>6. ASSUME NEW w \in Workers, Complete(w) \/ CompleteRaises(w)
      PROVE FALSE
  BY <1>1, <1>6 DEF Complete, CompleteRaises, MarkCompleted, TypeInv, TypeOK
<1>7. ASSUME NEW w \in Workers, Start(w) \/ Handle(w) \/ Crash(w) \/ Quit(w)
      PROVE FALSE
  BY <1>7 DEF Start, Handle, CallHandler, NoHandler, HandlerReturns, HandlerThrows, Crash, Quit
<1>8. ASSUME Tick \/ UNCHANGED vars
      PROVE FALSE
  BY <1>8 DEF Tick, vars
<1>9. ASSUME NEW w \in Workers, Fail(w)
      PROVE FALSE
  BY <1>1, <1>9 DEF Fail, SetFailed, HeldInv, TypeInv, HeldPc, TypeOK
<1> QED
  BY <1>2, <1>3, <1>4, <1>5, <1>6, <1>7, <1>8, <1>9 DEF Next, WorkerStep, Fault, Claim

\* A schedule never inserts two jobs less than its interval apart, however many
\* workers materialise and re-register it.
THEOREM CadenceKept == Spec => CronCadence
<1>1. TypeInv /\ IInv /\ [Next]_vars =>
        [\A s \in Schedules :
           (\E j \in CronIds[s] : status[j] = "absent" /\ status'[j] = "queued")
           => sinceRun[s] - sinceRun'[s] >= Interval[s]]_vars
  BY CadenceStep DEF IInv
<1> QED
  BY <1>1, TypeInvariant, Inductive, PTL DEF Spec, CronCadence

-----------------------------------------------------------------------------
\* What a step of the queue does to job j is one of the ledger's moves.
JobMove(j) == \/ Ledger!Same(j) \/ Ledger!Submit(j) \/ Ledger!Grant(j)
              \/ Ledger!Close(j) \/ Ledger!Die(j) \/ Ledger!Reopen(j)

\* A reclaim that takes no attempt moves a job only to its death.
LEMMA ReclaimMove ==
  ASSUME TypeInv, RowInv, NEW q, NEW lag \in Lags, NEW j \in Jobs, status' \in [Jobs -> Statuses],
         attempts'[j] = attempts[j], maxAttempts'[j] = maxAttempts[j],
         status'[j] = IF j \in Requeued(q, lag) THEN "queued"
                      ELSE IF j \in Exhausted(q, lag) THEN "failed" ELSE status[j]
  PROVE  JobMove(j)
<1>1. Phase[j] = IF status[j] = "absent" THEN "none"
                 ELSE IF status[j] = "completed" THEN "done"
                 ELSE IF status[j] = "failed" THEN "dead" ELSE "open"
  BY DEF Phase
<1>2. Phase'[j] = IF status'[j] = "absent" THEN "none"
                  ELSE IF status'[j] = "completed" THEN "done"
                  ELSE IF status'[j] = "failed" THEN "dead" ELSE "open"
  BY DEF Phase
<1>3. CASE j \in Exhausted(q, lag)
  <2>1. j \notin Requeued(q, lag) /\ status[j] = "running" /\ attempts[j] >= maxAttempts[j]
    <3>1. attempts[j] \in Nat /\ maxAttempts[j] \in Nat
      BY DEF TypeInv, TypeOK
    <3> QED
      BY <1>3, <3>1, ReclaimedRows
  <2>2. status'[j] = "failed" /\ attempts[j] = maxAttempts[j]
    BY <1>3, <2>1 DEF RowInv, TypeInv, TypeOK
  <2> QED
    BY <1>1, <1>2, <2>1, <2>2 DEF JobMove, Ledger!Die
<1>4. CASE j \notin Exhausted(q, lag)
  <2>1. status'[j] = status[j] \/ (status[j] = "running" /\ status'[j] = "queued")
    BY <1>4, ReclaimedRows
  <2> QED
    BY <1>1, <1>2, <2>1 DEF JobMove, Ledger!Same
<1> QED
  BY <1>3, <1>4

LEMMA MoveStep ==
  ASSUME TypeInv, RowInv, HeldInv, Next, NEW j \in Jobs
  PROVE  JobMove(j)
<1> USE ConstantsAssumption
    DEF JobMove, Ledger!Same, Ledger!Submit, Ledger!Grant, Ledger!Close, Ledger!Die,
        Ledger!Reopen, Phase, TypeInv, TypeOK, Statuses, rowVars, cronVars, histVars,
        faultVars
<1>1. ASSUME NEW k \in Jobs, NEW b \in Budgets, NEW d \in Delays, Enqueue(k, b, d)
      PROVE JobMove(j)
  BY <1>1 DEF Enqueue, Insert, RowInv
<1>2. ASSUME NEW w \in Workers, Materialize(w)
      PROVE JobMove(j)
  <2>1. PICK lag \in Lags : Insert(Born(lag), CronBudget, -lag)
    BY <1>2 DEF Materialize, Born
  <2> QED
    BY <2>1, BornAbsent DEF Insert
<1>3. ASSUME NEW w \in Workers, NEW lag \in Lags, ClaimNothing(w, lag)
      PROVE JobMove(j)
  <2>1. /\ attempts' = attempts /\ maxAttempts' = maxAttempts
        /\ status'[j] = IF j \in Requeued(ServedBy[w], lag) THEN "queued"
                        ELSE IF j \in Exhausted(ServedBy[w], lag) THEN "failed" ELSE status[j]
        /\ status' \in [Jobs -> Statuses]
    BY <1>3 DEF ClaimNothing, StatusAfterReclaim
  <2> QED
    BY <2>1, ReclaimMove
<1>4. ASSUME NEW w \in Workers, NEW k \in Jobs, NEW lag \in Lags, ClaimJob(w, k, lag)
      PROVE JobMove(j)
  <2>1. /\ maxAttempts' = maxAttempts
        /\ attempts'[j] = IF j = k THEN attempts[j] + 1 ELSE attempts[j]
        /\ status'[j] = IF j = k THEN "running"
                        ELSE IF j \in Requeued(ServedBy[w], lag) THEN "queued"
                        ELSE IF j \in Exhausted(ServedBy[w], lag) THEN "failed" ELSE status[j]
    BY <1>4 DEF ClaimJob, StatusAfterReclaim
  <2>2. CASE j = k
    BY <1>4, <2>1, <2>2, ReclaimedRows, FrontRow DEF ClaimJob, RowInv
  <2>3. CASE j # k
    <3>1. status' \in [Jobs -> Statuses]
      BY <1>4 DEF ClaimJob, StatusAfterReclaim
    <3> QED
      BY <2>1, <2>3, <3>1, ReclaimMove
  <2> QED
    BY <2>2, <2>3
<1>5. ASSUME NEW w \in Workers, Complete(w) \/ CompleteRaises(w)
      PROVE JobMove(j)
  BY <1>5 DEF Complete, CompleteRaises, MarkCompleted, HeldInv, HeldPc
<1>6. ASSUME NEW w \in Workers, Fail(w)
      PROVE JobMove(j)
  BY <1>6 DEF Fail, SetFailed, MayRetry, RowInv, HeldInv, HeldPc
<1>7. ASSUME NEW w \in Workers, Start(w) \/ Handle(w) \/ Crash(w) \/ Quit(w)
      PROVE JobMove(j)
  BY <1>7 DEF Start, Handle, CallHandler, NoHandler, HandlerReturns, HandlerThrows, Crash, Quit
<1>8. CASE Tick
  BY <1>8 DEF Tick
<1> QED
  BY <1>1, <1>2, <1>3, <1>4, <1>5, <1>6, <1>7, <1>8 DEF Next, WorkerStep, Fault, Claim

LEMMA WinStep ==
  ASSUME TypeInv, HeldInv, Next
  PROVE  Ledger!NewWins
<1>1. CASE \E w \in Workers : HandlerReturns(w)
  BY <1>1, ConstantsAssumption
     DEF HandlerReturns, HeldInv, HeldPc, TypeInv, TypeOK, Ledger!NewWins
<1>2. CASE ~ \E w \in Workers : HandlerReturns(w)
  <2>1. \A w \in Workers : Materialize(w) \/ Claim(w) \/ Fail(w) => succeeded' = succeeded
    BY DEF Materialize, Claim, ClaimNothing, ClaimJob, Fail, histVars
  <2>2. \A w \in Workers : Start(w) \/ Complete(w) \/ CompleteRaises(w) \/ Crash(w) \/ Quit(w)
          => succeeded' = succeeded
    BY DEF Start, Complete, CompleteRaises, Crash, Quit, histVars
  <2>3. \A w \in Workers : Handle(w) => succeeded' = succeeded
    BY <1>2 DEF Handle, CallHandler, NoHandler, HandlerThrows, histVars
  <2>4. succeeded' = succeeded
    BY <2>1, <2>2, <2>3 DEF Next, Enqueue, WorkerStep, Fault, Tick, histVars
  <2> QED
    BY <2>4 DEF Ledger!NewWins
<1> QED
  BY <1>1, <1>2

\* The queue with all its faults implements the ledger of promises.
THEOREM QueueImplementsLedger == Spec => LedgerSpec
<1>1. Init => Ledger!Init
  BY DEF Init, Ledger!Init, Phase
<1>2. TypeInv /\ IInv /\ [Next]_vars => [Ledger!Next]_(Ledger!lvars)
  <2>1. ASSUME TypeInv, IInv, Next PROVE Ledger!Next
    BY <2>1, MoveStep, WinStep DEF Ledger!Next, JobMove, IInv
  <2>2. ASSUME UNCHANGED vars PROVE UNCHANGED Ledger!lvars
    BY <2>2 DEF vars, rowVars, histVars, Ledger!lvars, Phase
  <2> QED
    BY <2>1, <2>2
<1> QED
  BY <1>1, <1>2, TypeInvariant, Inductive, PTL DEF Spec, LedgerSpec, Ledger!Spec

-----------------------------------------------------------------------------
(* The messages *)

\* A send job names its delivery.
LEMMA DeliveryOfJob ==
  ASSUME NEW w \in Workers, NEW d \in Deliveries, held[w] = SendJob[d]
  PROVE  DeliveryOf(w) = d
BY MessagingAssumption DEF DeliveryOf

LEMMA FreshIsFree ==
  ASSUME \E d \in Deliveries : dStatus[d] = "none"
  PROVE  FreshDelivery \in Deliveries /\ dStatus[FreshDelivery] = "none"
BY DEF FreshDelivery

-----------------------------------------------------------------------------
(* The invariant, in parts. *)

OutboxStages == {"dispatch", "mark", "dispatchError"}
SendStages == {"send", "accepted", "sendFailed", "audit", "refused", "refusedStale", "expire"}

\* Which job a handler is inside, by where it is.
HolderInv ==
  \A w \in Workers :
    /\ stage[w] \in OutboxStages => held[w] \in CronJobs
    /\ stage[w] \in {"mark", "dispatchError"} => cur[w] \in Events
    /\ stage[w] \in SendStages => \E d \in Deliveries : held[w] = SendJob[d]

\* A delivery has its row and its job from the same transaction, and no other
\* job outside the schedules exists.
JobRows ==
  /\ \A d \in Deliveries : dStatus[d] = "none" <=> status[SendJob[d]] = "absent"
  /\ \A j \in Jobs \ CronJobs : status[j] # "absent" => \E d \in Deliveries : j = SendJob[d]

\* A delivery that is queued has never been claimed.
DeliveryRows ==
  \A d \in Deliveries :
    /\ dStatus[d] = "none" <=> dEvent[d] = NoEvent
    /\ dStatus[d] \in {"none", "queued"} => dAttempts[d] = 0

\* One delivery for each event, and an event that is marked, or about to be, has it.
EventInv ==
  /\ \A c, d \in Deliveries : c # d /\ dEvent[c] = dEvent[d] => dEvent[c] = NoEvent
  /\ \A e \in Events : evStatus[e] = "dispatched" => Existing(e) # {}
  /\ \A w \in Workers : stage[w] = "mark" => Existing(cur[w]) # {}

MessageRows == HolderInv /\ JobRows /\ DeliveryRows /\ EventInv
MsgInv == MsgTypeOK /\ HeldPc /\ IInv /\ MessageRows

\* A worker in a send stage is about the delivery of its job.
LEMMA SenderOf ==
  ASSUME MsgInv, NEW w \in Workers, stage[w] \in SendStages
  PROVE  DeliveryOf(w) \in Deliveries /\ held[w] = SendJob[DeliveryOf(w)]
BY DeliveryOfJob DEF MsgInv, MessageRows, HolderInv

LEMMA BeginnerOf ==
  ASSUME MsgInv, NEW w \in Workers, pc[w] = "handling", held[w] \notin CronJobs
  PROVE  DeliveryOf(w) \in Deliveries /\ held[w] = SendJob[DeliveryOf(w)]
<1>1. held[w] \in Jobs \ CronJobs /\ status[held[w]] # "absent"
  BY DEF MsgInv, HeldPc, IInv, HeldInv, MsgTypeOK, TypeOK
<1>2. \E d \in Deliveries : held[w] = SendJob[d]
  BY <1>1 DEF MsgInv, MessageRows, JobRows
<1> QED
  BY <1>2, DeliveryOfJob

-----------------------------------------------------------------------------
(* A step of the messaging service is a step of the queue or none. *)

\* What queueEmail does to an event that has no delivery yet.
Queued(e, d) ==
  /\ d \in Deliveries /\ dStatus[d] = "none" /\ Existing(e) = {}
  /\ dStatus' = [dStatus EXCEPT ![d] = "queued"] /\ dAge' = [dAge EXCEPT ![d] = 0]
  /\ dEvent' = [dEvent EXCEPT ![d] = e] /\ dAttempts' = dAttempts
  /\ Insert({SendJob[d]}, DeliveryBudget + 1, 0)

LEMMA QueueEmailCases ==
  ASSUME NEW e, QueueEmail(e)
  PROVE  \/ Existing(e) # {} /\ UNCHANGED <<rowVars, deliveryVars>>
         \/ \E d \in Deliveries : Queued(e, d)
BY FreshIsFree DEF QueueEmail, Queued

LEMMA QueueEmailEnqueues ==
  ASSUME MsgInv, NEW e, NEW d, Queued(e, d),
         UNCHANGED <<cronVars, pc, held, histVars, faultVars>>
  PROVE  Enqueue(SendJob[d], DeliveryBudget + 1, 0)
BY MessagingAssumption DEF Queued, Enqueue, MsgInv, MessageRows, JobRows

LEMMA QueueingIsQueueStep ==
  ASSUME MsgInv, NEW e, QueueEmail(e), UNCHANGED <<cronVars, pc, held, histVars, faultVars>>
  PROVE  [Next]_vars
<1>1. CASE UNCHANGED <<rowVars, deliveryVars>>
  BY <1>1 DEF vars
<1>2. CASE \E d \in Deliveries : Queued(e, d)
  <2>1. PICK d \in Deliveries : Queued(e, d)
    BY <1>2
  <2>2. Enqueue(SendJob[d], DeliveryBudget + 1, 0)
    BY <2>1, QueueEmailEnqueues
  <2> QED
    BY <2>2, MessagingAssumption DEF Next
<1> QED
  BY <1>1, <1>2, QueueEmailCases

LEMMA MessagingStepIsQueueStep ==
  ASSUME MsgInv, [MsgNext]_allVars
  PROVE  [Next]_vars
<1>1. ASSUME NEW e \in Events, NEW k \in Kinds, Emit(e, k)
      PROVE [Next]_vars
  BY <1>1 DEF Emit
<1>2. ASSUME NEW w \in Workers, Begin(w) \/ Loop(w) \/ Die(w)
      PROVE [Next]_vars
  BY <1>2 DEF Begin, Loop, Die, Next, WorkerStep, Fault, Handle
<1>3. ASSUME NEW w \in Workers, HandlerReturns(w) \/ HandlerThrows(w)
      PROVE [Next]_vars
  BY <1>3 DEF Next, WorkerStep, Handle
<1>4. ASSUME NEW w \in Workers, Dispatch(w)
      PROVE [Next]_vars
  <2>1. ASSUME NEW e \in Events, QueueEvent(w, e) PROVE [Next]_vars
    BY <2>1, QueueingIsQueueStep DEF QueueEvent
  <2> QED
    BY <1>3, <1>4, <2>1
       DEF Dispatch, SelectEvents, DispatchDone, MarkDispatched, RecordDispatchError,
           RejectRecipient, Return
<1>5. ASSUME NEW w \in Workers, DispatchError(w)
      PROVE [Next]_vars
  <2>1. ASSUME NEW e \in Events, QueueEventRaises(w, e) PROVE [Next]_vars
    BY <2>1, QueueingIsQueueStep DEF QueueEventRaises, DbError
  <2> QED
    BY <1>3, <1>5, <2>1
       DEF DispatchError, MarkDispatchedRaises, RejectRaises, DispatchRaises, DbError, DbErrorThrown,
           Throw
<1>6. ASSUME NEW w \in Workers, Deliver(w)
      PROVE [Next]_vars
  BY <1>3, <1>6
     DEF Deliver, ClaimDelivery, ClaimRefused, FindSent, FindTimedOut, FindBusy, FindSettled,
         Expire, Send, MarkSent, MarkFailed, Audit, Return, Throw
<1>7. ASSUME NEW w \in Workers, DeliverError(w)
      PROVE [Next]_vars
  BY <1>3, <1>7 DEF DeliverError, MarkSentRaises, ClaimLost, ExpireLost, DeliverRaises, DbError,
     DbErrorThrown, Throw
<1>8. CASE MsgTick
  BY <1>8 DEF MsgTick, Next
<1>9. CASE UNCHANGED allVars
  BY <1>9 DEF allVars
<1> QED
  BY <1>1, <1>2, <1>4, <1>5, <1>6, <1>7, <1>8, <1>9 DEF MsgNext

-----------------------------------------------------------------------------
(* Steps of the workers' loop outside the handlers. *)

\* Such a step leaves the rows of send jobs in place, handlers with their jobs,
\* and completes only jobs whose handler has returned.
LoopFrame ==
  /\ \A j \in Jobs \ CronJobs : status'[j] = "absent" <=> status[j] = "absent"
  /\ \A v \in Workers : pc'[v] = "handling" /\ pc[v] = "handling" => held'[v] = held[v]
  /\ \A v \in Workers : pc'[v] = "completing" => pc[v] = "completing" /\ held'[v] = held[v]
  /\ \A j \in Jobs : status'[j] = "completed" =>
       status[j] = "completed" \/ \E v \in Workers : pc[v] = "completing" /\ held[v] = j
  /\ overrun \subseteq overrun' /\ unacked \subseteq unacked'

LEMMA LoopKeepsFrame ==
  ASSUME MsgInv, NEW w \in Workers, Begin(w) \/ Loop(w) \/ Crash(w)
  PROVE  LoopFrame
<1> USE ConstantsAssumption DEF MsgInv, MsgTypeOK, TypeInv, HeldPc, TypeOK, Pcs, Statuses, LoopFrame,
        rowVars, cronVars, histVars, faultVars
<1>1. CASE CallHandler(w) \/ NoHandler(w) \/ Crash(w) \/ Quit(w) \/ Start(w)
  BY <1>1 DEF CallHandler, NoHandler, Crash, Quit, Start
<1>2. CASE Materialize(w)
  <2>1. PICK lag \in Lags : Insert(Born(lag), CronBudget, -lag) /\ UNCHANGED histVars
        /\ pc' = [pc EXCEPT ![w] = "claim"] /\ held' = held
    BY <1>2 DEF Materialize, Born
  <2>2. Born(lag) \subseteq CronJobs
    BY NewJobIsSpare DEF Born, Spare, DueSchedules, CronJobs
  <2> QED
    BY <2>1, <2>2, BornAbsent DEF Insert
<1>3. ASSUME NEW lag \in Lags, ClaimNothing(w, lag)
      PROVE LoopFrame
  BY <1>3, ReclaimedRows DEF ClaimNothing, StatusAfterReclaim
<1>4. ASSUME NEW j \in Jobs, NEW lag \in Lags, ClaimJob(w, j, lag)
      PROVE LoopFrame
  <2>1. status[j] # "absent"
    BY <1>4, FrontRow, ReclaimedRows DEF ClaimJob
  <2>2. /\ \A k \in Jobs : status'[k] = IF k = j THEN "running"
                                       ELSE IF k \in Requeued(ServedBy[w], lag) THEN "queued"
                                       ELSE IF k \in Exhausted(ServedBy[w], lag) THEN "failed"
                                       ELSE status[k]
        /\ pc' = [pc EXCEPT ![w] = "claimed"] /\ held' = [held EXCEPT ![w] = j]
        /\ pc[w] = "claim" /\ overrun \subseteq overrun' /\ unacked' = unacked
    BY <1>4 DEF ClaimJob, StatusAfterReclaim
  <2>3. ASSUME NEW k \in Jobs
        PROVE  \/ k = j /\ status'[k] = "running"
               \/ status'[k] = status[k]
               \/ status[k] = "running" /\ status'[k] \in {"queued", "failed"}
    <3>1. k \in Requeued(ServedBy[w], lag) \cup Exhausted(ServedBy[w], lag) => status[k] = "running"
      BY ReclaimedRows
    <3> QED
      BY <2>2, <3>1
  <2> QED
    <3>1. /\ \A k \in Jobs : status'[k] = "absent" <=> status[k] = "absent"
          /\ \A k \in Jobs : status'[k] = "completed" => status[k] = "completed"
      BY <2>1, <2>3
    <3>2. \A v \in Workers \ {w} : pc'[v] = pc[v] /\ held'[v] = held[v]
      BY <2>2
    <3>3. pc[w] = "claim" /\ pc'[w] = "claimed"
      BY <2>2
    <3> QED
      BY <2>2, <3>1, <3>2, <3>3
<1>5. CASE Complete(w)
  BY <1>5 DEF Complete, MarkCompleted, LoopAgain, IInv, HeldInv
<1>6. CASE CompleteRaises(w)
  BY <1>6 DEF CompleteRaises, MarkCompleted, IInv, HeldInv
<1>7. CASE Fail(w)
  <2>1. status[held[w]] # "absent" /\ held[w] \in Jobs
    BY <1>7 DEF Fail, IInv, HeldInv
  <2> QED
    BY <1>7, <2>1 DEF Fail, SetFailed, LoopAgain
<1> QED
  BY <1>1, <1>2, <1>3, <1>4, <1>5, <1>6, <1>7 DEF Begin, Loop, Claim

\* What is left of the messages' variables by such a step of worker w.
LEMMA LoopKeepsStages ==
  ASSUME MsgInv, NEW w \in Workers, Begin(w) \/ Loop(w) \/ Die(w)
  PROVE  /\ UNCHANGED <<eventVars, deliveryVars, sends, accepted, slow>> /\ doubt \subseteq doubt'
         /\ stage' \in [Workers -> Stages]
         /\ \A v \in Workers :
              /\ (stage'[v] = "idle") <=> (pc'[v] # "handling")
              /\ stage'[v] \notin {"idle", "begin"} =>
                   /\ stage'[v] = stage[v] /\ pc[v] = "handling" /\ pc'[v] = "handling"
                   /\ held'[v] = held[v] /\ cur'[v] = cur[v]
              /\ stage[v] = "accepted" =>
                   (stage'[v] = "accepted" /\ held'[v] = held[v]) \/ DeliveryOf(v) \in doubt'
<1> USE ConstantsAssumption DEF MsgInv, MsgTypeOK, HeldPc, TypeOK, Pcs, Stages, Goto,
        rowVars, cronVars, histVars, faultVars, msgVars, sendHist
<1>1. CASE Begin(w)
  BY <1>1 DEF Begin, CallHandler
<1>2. CASE Die(w)
  BY <1>2 DEF Die, Crash, At
<1>3. CASE Loop(w)
  <2>1. ASSUME NEW v \in Workers
        PROVE  /\ (pc'[v] = "handling") <=> (pc[v] = "handling")
               /\ pc[v] = "handling" => held'[v] = held[v]
    <3>1. pc[w] \notin {"handling"} /\ \E x \in Pcs \ {"handling"} : pc' = [pc EXCEPT ![w] = x]
      BY <1>3 DEF Loop, Start, Materialize, Claim, ClaimNothing, ClaimJob, NoHandler, Complete,
         LoopAgain, Fail, CompleteRaises, Quit
    <3>2. held' = held \/ \E x : held' = [held EXCEPT ![w] = x]
      BY <1>3 DEF Loop, Start, Materialize, Claim, ClaimNothing, ClaimJob, NoHandler, Complete,
         LoopAgain, Fail, CompleteRaises, Quit
    <3> QED
      BY <3>1, <3>2
  <2>2. UNCHANGED msgVars
    BY <1>3 DEF Loop
  <2> QED
    BY <2>1, <2>2
<1> QED
  BY <1>1, <1>2, <1>3

LEMMA LoopKeepsRows ==
  ASSUME MsgInv, TypeOK', NEW w \in Workers, Begin(w) \/ Loop(w) \/ Die(w), errors' = errors
  PROVE  MsgTypeOK' /\ MessageRows'
<1>1. LoopFrame
  BY LoopKeepsFrame DEF Die
<1>2. todo' \in [Workers -> SUBSET Events] /\ cur' \in [Workers -> Events \cup {NoEvent}]
      /\ doubt' \subseteq Deliveries
  <2>1. CASE Die(w)
    <3>1. At(w, "accepted") => DeliveryOf(w) \in Deliveries
      BY SenderOf DEF At, SendStages
    <3> QED
      BY <2>1, <3>1 DEF Die, MsgInv, MsgTypeOK
  <2>2. CASE Begin(w) \/ Loop(w)
    BY <2>2 DEF Begin, Loop, msgVars, sendHist, MsgInv, MsgTypeOK
  <2> QED
    BY <2>1, <2>2
<1>3. MsgTypeOK'
  BY <1>2, LoopKeepsStages DEF MsgInv, MsgTypeOK, eventVars, deliveryVars
<1>4. HolderInv'
  BY LoopKeepsStages DEF MsgInv, MessageRows, HolderInv, OutboxStages, SendStages
<1>5. JobRows'
  BY <1>1, LoopKeepsStages, MessagingAssumption
     DEF LoopFrame, MsgInv, MessageRows, JobRows, deliveryVars
<1>6. DeliveryRows' /\ EventInv'
  BY LoopKeepsStages
     DEF MsgInv, MessageRows, DeliveryRows, EventInv, Existing, eventVars, deliveryVars
<1> QED
  BY <1>3, <1>4, <1>5, <1>6 DEF MessageRows

-----------------------------------------------------------------------------
(* Steps of processEmailDelivery. *)

\* They are about the delivery of the job, which is in the table.
LEMMA DeliverHolds ==
  ASSUME MsgInv, NEW w \in Workers, Deliver(w) \/ DeliverError(w)
  PROVE  /\ pc[w] = "handling" /\ stage[w] \in SendStages \cup {"begin"} /\ held[w] \notin CronJobs
         /\ DeliveryOf(w) \in Deliveries /\ held[w] = SendJob[DeliveryOf(w)]
         /\ dStatus[DeliveryOf(w)] # "none"
<1>1. /\ pc[w] = "handling" /\ stage[w] \in SendStages \cup {"begin"}
      /\ stage[w] = "begin" => held[w] \notin CronJobs
  <2>1. CASE DeliverRaises(w)
    BY <2>1, ConstantsAssumption
       DEF DeliverRaises, At, MsgInv, MsgTypeOK, Stages, SendStages, MessageRows, HolderInv, OutboxStages
  <2> QED
    BY <2>1 DEF Deliver, DeliverError, ClaimDelivery, ClaimRefused, FindSent, FindTimedOut, FindBusy,
       FindSettled, Refused, Expire, Send, MarkSent, MarkFailed, Audit, MarkSentRaises, ClaimLost,
       ExpireLost, At, SendStages
<1>2. DeliveryOf(w) \in Deliveries /\ held[w] = SendJob[DeliveryOf(w)]
  BY <1>1, SenderOf, BeginnerOf
<1>3. status[held[w]] # "absent"
  BY <1>1 DEF MsgInv, HeldPc, IInv, HeldInv
<1> QED
  BY <1>1, <1>2, <1>3, MessagingAssumption DEF MsgInv, MessageRows, JobRows

\* They change nothing of the queue but the worker's pc, and nothing of the
\* messages but that delivery d.
OnlyDelivery(w, d) ==
  /\ UNCHANGED <<rowVars, held, overrun, unacked, eventVars, todo, cur, dEvent, slow>>
  /\ \A v \in Workers \ {w} : pc'[v] = pc[v] /\ stage'[v] = stage[v]
  /\ \A c \in Deliveries \ {d} :
       /\ dStatus'[c] = dStatus[c] /\ dAttempts'[c] = dAttempts[c] /\ dAge'[c] = dAge[c]
       /\ sends'[c] = sends[c] /\ accepted'[c] = accepted[c]
  /\ dStatus'[d] = "queued" => dStatus[d] = "queued" /\ dAttempts'[d] = dAttempts[d]
  /\ dStatus'[d] # "none"
  /\ doubt \subseteq doubt' /\ doubt' \subseteq doubt \cup {d}

LEMMA HandlerLeft ==
  ASSUME NEW w \in Workers, Return(w) \/ Throw(w)
  PROVE  /\ pc[w] = "handling" /\ Goto(w, "idle")
         /\ \E x \in {"completing", "failing"} : pc' = [pc EXCEPT ![w] = x]
         /\ UNCHANGED <<rowVars, held, overrun, unacked>>
BY DEF Return, Throw, HandlerReturns, HandlerThrows, Goto, rowVars, cronVars, histVars, faultVars

LEMMA DeliverySet ==
  ASSUME MsgTypeOK, NEW d \in Deliveries, NEW s \in {"sending", "sent", "failed"}, SetDelivery(d, s)
  PROVE  /\ dStatus' \in [Deliveries -> {"none", "queued", "sending", "sent", "failed"}]
         /\ dAge' \in [Deliveries -> 0..ClaimTimeout] /\ dEvent' = dEvent
         /\ dStatus'[d] = s /\ dAge'[d] = 0
         /\ \A c \in Deliveries \ {d} : dStatus'[c] = dStatus[c] /\ dAge'[c] = dAge[c]
BY MessagingAssumption DEF MsgTypeOK, SetDelivery

LEMMA DeliverFrame ==
  ASSUME MsgInv, TypeOK', NEW w \in Workers, (Deliver(w) /\ errors' = errors) \/ DeliverError(w)
  PROVE  MsgTypeOK' /\ OnlyDelivery(w, DeliveryOf(w)) /\ stage'[w] \in SendStages \cup {"idle"}
<1> DEFINE d == DeliveryOf(w)
<1>1. /\ pc[w] = "handling" /\ d \in Deliveries /\ stage[w] # "idle" /\ MsgTypeOK
      /\ dStatus[d] # "none"
      /\ pc \in [Workers -> Pcs]
  BY DeliverHolds DEF MsgInv, SendStages, MsgTypeOK, TypeOK
<1>2. errors' \in 0..MaxErrors
  BY <1>1, MessagingAssumption
     DEF MsgTypeOK, DeliverError, MarkSentRaises, ClaimLost, ExpireLost, DeliverRaises, DbError,
         DbErrorThrown, StatementFails
<1> HIDE DEF d
<1> USE <1>1, <1>2
    DEF MsgTypeOK, OnlyDelivery, Stages, SendStages, Goto, eventVars, deliveryVars,
        sendHist, rowVars, cronVars, histVars, faultVars, vars
<1>3. CASE ClaimDelivery(w)
  <2>1. SetDelivery(d, "sending") /\ dAttempts' = [dAttempts EXCEPT ![d] = @ + 1]
        /\ Goto(w, "send") /\ UNCHANGED <<vars, eventVars, todo, cur, sendHist>>
    BY <1>3 DEF ClaimDelivery, d
  <2>2. MsgTypeOK' /\ OnlyDelivery(w, d) /\ stage'[w] \in SendStages \cup {"idle"}
    BY <2>1, DeliverySet
  <2> QED
    BY <2>2 DEF d
<1>11. CASE ClaimLost(w)
  <2>1. /\ SetDelivery(d, "sending") /\ dAttempts' = [dAttempts EXCEPT ![d] = @ + 1]
        /\ Throw(w) /\ UNCHANGED <<eventVars, todo, cur, sendHist>>
    BY <1>11 DEF ClaimLost, DbErrorThrown, d
  <2>2. /\ \E x \in {"completing", "failing"} : pc' = [pc EXCEPT ![w] = x]
        /\ stage' = [stage EXCEPT ![w] = "idle"] /\ UNCHANGED <<rowVars, held, overrun, unacked>>
    BY <2>1, HandlerLeft
  <2>3. MsgTypeOK'
    BY <2>1, <2>2, DeliverySet
  <2>4. OnlyDelivery(w, d) /\ stage'[w] \in SendStages \cup {"idle"}
    BY <2>1, <2>2, DeliverySet
  <2> QED
    BY <2>3, <2>4 DEF d
<1>4. CASE ClaimRefused(w) \/ FindSent(w) \/ FindTimedOut(w)
  BY <1>4 DEF ClaimRefused, FindSent, FindTimedOut, d
<1>5. CASE FindBusy(w) \/ FindSettled(w) \/ Audit(w) \/ DeliverRaises(w)
  <2>1. (Return(w) \/ Throw(w)) /\ UNCHANGED <<eventVars, deliveryVars, todo, cur, sendHist>>
    BY <1>5 DEF FindBusy, FindSettled, Audit, DeliverRaises, DbErrorThrown
  <2> QED
    BY <2>1, HandlerLeft DEF d
<1>6. CASE Expire(w)
  BY <1>6, HandlerLeft, DeliverySet, SMTT(30) DEF Expire, d
<1>7. ASSUME NEW ok \in BOOLEAN, Send(w, ok)
      PROVE MsgTypeOK' /\ OnlyDelivery(w, d) /\ stage'[w] \in SendStages \cup {"idle"}
  BY <1>7 DEF Send, d
<1>8. CASE MarkSent(w)
  BY <1>8, DeliverySet DEF MarkSent, d
<1>9. CASE MarkSentRaises(w)
  BY <1>9, DeliverySet DEF MarkSentRaises, DbError, d
<1>10. CASE MarkFailed(w) \/ ExpireLost(w)
  <2>1. SetDelivery(d, "failed") /\ (Return(w) \/ Throw(w))
        /\ UNCHANGED <<dAttempts, eventVars, todo, cur, sendHist>>
    BY <1>10 DEF MarkFailed, ExpireLost, DbErrorThrown, d
  <2>2. /\ \E x \in {"completing", "failing"} : pc' = [pc EXCEPT ![w] = x]
        /\ stage' = [stage EXCEPT ![w] = "idle"] /\ UNCHANGED <<rowVars, held, overrun, unacked>>
    BY <2>1, HandlerLeft
  <2>3. MsgTypeOK'
    BY <2>1, <2>2, DeliverySet
  <2>4. OnlyDelivery(w, d) /\ stage'[w] \in SendStages \cup {"idle"}
    BY <2>1, <2>2, DeliverySet
  <2> QED
    BY <2>3, <2>4 DEF d
<1> QED
  BY <1>3, <1>4, <1>5, <1>6, <1>7, <1>8, <1>9, <1>10, <1>11 DEF Deliver, DeliverError, d

LEMMA DeliverKeepsRows ==
  ASSUME MsgInv, TypeOK', NEW w \in Workers, (Deliver(w) /\ errors' = errors) \/ DeliverError(w)
  PROVE  MessageRows'
<1>1. /\ DeliveryOf(w) \in Deliveries /\ held[w] = SendJob[DeliveryOf(w)]
      /\ dStatus[DeliveryOf(w)] # "none" /\ held[w] \notin CronJobs
  BY DeliverHolds
<1>2. OnlyDelivery(w, DeliveryOf(w)) /\ stage'[w] \in SendStages \cup {"idle"}
  BY DeliverFrame
<1>3. HolderInv'
  BY <1>1, <1>2 DEF OnlyDelivery, MsgInv, MessageRows, HolderInv, OutboxStages, SendStages
<1>4. JobRows' /\ DeliveryRows'
  BY <1>1, <1>2, MessagingAssumption
     DEF OnlyDelivery, rowVars, MsgInv, MessageRows, JobRows, DeliveryRows
<1>5. EventInv'
  BY <1>2 DEF OnlyDelivery, eventVars, MsgInv, MessageRows, EventInv, Existing, SendStages
<1> QED
  BY <1>3, <1>4, <1>5 DEF MessageRows

-----------------------------------------------------------------------------
(* Steps of dispatchOutbox, of the producers and of the clock. *)

LEMMA QueueEventKeepsRows ==
  ASSUME MsgInv, TypeOK', NEW w \in Workers, NEW e \in Events,
         (QueueEvent(w, e) /\ errors' = errors) \/ QueueEventRaises(w, e)
  PROVE  MsgTypeOK' /\ MessageRows'
<1>1. /\ pc[w] = "handling" /\ stage[w] = "dispatch" /\ held[w] \in CronJobs /\ MsgTypeOK /\ e \in todo[w]
      /\ UNCHANGED <<cronVars, pc, held, histVars, faultVars, eventVars, sendHist>>
  BY DEF QueueEvent, QueueEventRaises, At, MsgInv, MessageRows, HolderInv, OutboxStages, DbError,
     vars
<1>2. /\ todo' = [todo EXCEPT ![w] = @ \ {e}] /\ cur' = [cur EXCEPT ![w] = e]
      /\ \E x \in {"mark", "dispatchError"} : stage' = [stage EXCEPT ![w] = x]
      /\ errors' \in 0..MaxErrors
  BY <1>1, MessagingAssumption
     DEF QueueEvent, QueueEventRaises, Take, Goto, DbError, StatementFails, MsgTypeOK
<1>3. stage'[w] = "mark" => QueueEmail(e)
  BY <1>1, <1>2 DEF QueueEvent, QueueEventRaises, Goto, MsgTypeOK
<1>4. UNCHANGED <<rowVars, deliveryVars>> \/ QueueEmail(e)
  BY DEF QueueEvent, QueueEventRaises, DbError, vars
<1>5. CASE UNCHANGED <<rowVars, deliveryVars>> /\ (stage'[w] = "mark" => Existing(e) # {})
  <2> USE <1>1, <1>2, <1>5 DEF rowVars, deliveryVars, eventVars, sendHist
  <2>1. MsgTypeOK'
    BY DEF MsgTypeOK, Stages
  <2>2. HolderInv'
    BY DEF HolderInv, MsgInv, MessageRows, OutboxStages, SendStages, MsgTypeOK
  <2>3. JobRows' /\ DeliveryRows'
    BY DEF JobRows, DeliveryRows, MsgInv, MessageRows
  <2>4. EventInv'
    BY DEF EventInv, Existing, MsgInv, MessageRows, MsgTypeOK
  <2> QED
    BY <2>1, <2>2, <2>3, <2>4 DEF MessageRows
<1>6. ASSUME NEW d \in Deliveries, Queued(e, d)
      PROVE MsgTypeOK' /\ MessageRows'
  <2> USE <1>1, <1>2, <1>6 DEF Queued, eventVars, sendHist
  <2>1. MsgTypeOK'
    BY MessagingAssumption DEF MsgTypeOK, Stages
  <2>2. HolderInv'
    BY DEF HolderInv, MsgInv, MessageRows, OutboxStages, SendStages, MsgTypeOK
  <2>3. JobRows'
    <3>1. /\ \A j \in Jobs : status'[j] = IF j = SendJob[d] THEN "queued" ELSE status[j]
          /\ \A c \in Deliveries : dStatus'[c] = IF c = d THEN "queued" ELSE dStatus[c]
      BY DEF Insert, MsgTypeOK
    <3> QED
      BY <3>1, MessagingAssumption DEF JobRows, MsgInv, MessageRows
  <2>5. \A c \in Deliveries : dEvent'[c] = IF c = d THEN e ELSE dEvent[c]
    BY DEF MsgTypeOK
  <2>4. DeliveryRows'
    BY <2>5, MessagingAssumption DEF DeliveryRows, MsgInv, MessageRows, MsgTypeOK
  <2>6. Existing(e)' # {} /\ \A k \in Events : Existing(k) # {} => Existing(k)' # {}
    BY <2>5, MessagingAssumption DEF Existing, MsgInv, MessageRows, DeliveryRows
  <2>7. EventInv'
    <3>1. \A c \in Deliveries : dEvent[c] # e
      BY DEF Existing
    <3>2. \A b, c \in Deliveries : b # c /\ dEvent'[b] = dEvent'[c] => dEvent'[b] = NoEvent
      BY <2>5, <3>1 DEF EventInv, MsgInv, MessageRows
    <3>3. \A v \in Workers : stage'[v] = "mark" =>
            cur'[v] = e \/ (stage[v] = "mark" /\ cur'[v] = cur[v] /\ cur[v] \in Events)
      BY DEF MsgTypeOK, MsgInv, MessageRows, HolderInv
    <3> QED
      BY <2>6, <3>2, <3>3 DEF EventInv, MsgInv, MessageRows
  <2> QED
    BY <2>1, <2>2, <2>3, <2>4, <2>7 DEF MessageRows
<1> QED
  BY <1>3, <1>4, <1>5, <1>6, QueueEmailCases

LEMMA DispatchKeepsRows ==
  ASSUME MsgInv, TypeOK', NEW w \in Workers, (Dispatch(w) /\ errors' = errors) \/ DispatchError(w)
  PROVE  MsgTypeOK' /\ MessageRows'
<1> DEFINE Event(e) == (QueueEvent(w, e) /\ errors' = errors) \/ QueueEventRaises(w, e)
<1>1. ASSUME NEW e \in Events, Event(e)
      PROVE MsgTypeOK' /\ MessageRows'
  BY <1>1, QueueEventKeepsRows
<1>2. CASE ~\E e \in Events : Event(e)
  <2> DEFINE Moved(x) == pc' = pc /\ Goto(w, x)
             Left == Goto(w, "idle") /\ \E y \in {"completing", "failing"} : pc' = [pc EXCEPT ![w] = y]
  <2>1. /\ pc[w] = "handling" /\ held[w] \in CronJobs
        /\ UNCHANGED <<rowVars, held, deliveryVars, sendHist>>
        /\ \/ /\ Moved("dispatch") \/ Left
              /\ todo' \in [Workers -> SUBSET Events]
              /\ cur' = cur \/ cur' = [cur EXCEPT ![w] = NoEvent]
           \/ Moved("dispatchError") /\ stage[w] = "mark" /\ UNCHANGED <<todo, cur>>
           \/ \E e \in Events : /\ Moved("dispatchError") /\ cur' = [cur EXCEPT ![w] = e]
                               /\ todo' = [todo EXCEPT ![w] = @ \ {e}]
        /\ evAttempts' \in [Events -> Nat] /\ evDue' \in [Events -> 0..OutboxDelay]
        /\ evStatus' \in [Events -> {"none", "queued", "dispatched", "failed"}] /\ evKind' = evKind
        /\ errors' \in 0..MaxErrors
        /\ \A e \in Events : evStatus'[e] = "dispatched" =>
             evStatus[e] = "dispatched" \/ (stage[w] = "mark" /\ cur[w] = e)
    <3> USE MessagingAssumption, HandlerLeft
        DEF MsgInv, MsgTypeOK, At, Goto, rowVars, cronVars, histVars, faultVars, vars, eventVars,
            deliveryVars, sendHist, SetEvent, PutBack
    <3>1. CASE SelectEvents(w) /\ errors' = errors
      BY <3>1 DEF SelectEvents
    <3>2. CASE DispatchDone(w) /\ errors' = errors
      BY <3>2 DEF DispatchDone, MessageRows, HolderInv, OutboxStages
    <3>3. CASE MarkDispatched(w) /\ errors' = errors
      BY <3>3 DEF MarkDispatched, MessageRows, HolderInv, OutboxStages
    <3>4. CASE RecordDispatchError(w) /\ errors' = errors
      BY <3>4 DEF RecordDispatchError, MessageRows, HolderInv, OutboxStages
    <3>5. ASSUME NEW e \in Events, RejectRecipient(w, e), errors' = errors
          PROVE <2>1!:
      BY <3>5 DEF RejectRecipient, MessageRows, HolderInv, OutboxStages
    <3>6. CASE MarkDispatchedRaises(w)
      <4>1. /\ stage[w] = "mark" /\ pc[w] = "handling" /\ UNCHANGED vars /\ errors' = errors + 1
            /\ errors < MaxErrors /\ Goto(w, "dispatchError") /\ UNCHANGED <<deliveryVars, sendHist>>
            /\ UNCHANGED <<todo, cur>>
        BY <3>6 DEF MarkDispatchedRaises, DbError, StatementFails
      <4>2. held[w] \in CronJobs /\ cur[w] \in Events
        BY <4>1 DEF MessageRows, HolderInv, OutboxStages
      <4>3. \/ UNCHANGED eventVars
            \/ /\ evStatus' = [evStatus EXCEPT ![cur[w]] = "dispatched"]
               /\ evAttempts' = [evAttempts EXCEPT ![cur[w]] = @ + 1]
               /\ UNCHANGED <<evDue, evKind>>
        BY <3>6 DEF MarkDispatchedRaises
      <4>4. /\ evAttempts' \in [Events -> Nat] /\ evDue' \in [Events -> 0..OutboxDelay]
            /\ evStatus' \in [Events -> {"none", "queued", "dispatched", "failed"}] /\ evKind' = evKind
            /\ \A e \in Events : evStatus'[e] = "dispatched" => evStatus[e] = "dispatched" \/ cur[w] = e
        BY <4>2, <4>3
      <4>5. Moved("dispatchError") /\ UNCHANGED <<rowVars, held>>
        BY <4>1
      <4> HIDE DEF MsgInv, MsgTypeOK, SetEvent, PutBack
      <4>6. errors' \in 0..MaxErrors
        BY <4>1 DEF MsgInv, MsgTypeOK
      <4> QED
        BY <4>1, <4>2, <4>4, <4>5, <4>6
    <3>7. CASE DispatchRaises(w)
      <4>1. /\ pc[w] = "handling" /\ held[w] \in CronJobs /\ Throw(w) /\ errors < MaxErrors
            /\ errors' = errors + 1 /\ cur' = [cur EXCEPT ![w] = NoEvent]
            /\ todo' = [todo EXCEPT ![w] = {}] /\ UNCHANGED <<deliveryVars, sendHist>>
        BY <3>7 DEF DispatchRaises, DbErrorThrown, StatementFails
      <4>2. UNCHANGED <<rowVars, held>> /\ Left
        BY <4>1
      <4>3. \/ UNCHANGED eventVars
            \/ /\ \E s \in {"failed", "queued"} : evStatus' = [evStatus EXCEPT ![cur[w]] = s]
               /\ evAttempts' = [evAttempts EXCEPT ![cur[w]] = @ + 1]
               /\ evDue' = [evDue EXCEPT ![cur[w]] = OutboxDelay] /\ evKind' = evKind
        BY <3>7 DEF DispatchRaises
      <4>4. /\ evAttempts' \in [Events -> Nat] /\ evDue' \in [Events -> 0..OutboxDelay]
            /\ evStatus' \in [Events -> {"none", "queued", "dispatched", "failed"}] /\ evKind' = evKind
            /\ \A e \in Events : evStatus'[e] = "dispatched" => evStatus[e] = "dispatched"
        BY <4>3
      <4> HIDE DEF MsgInv, MsgTypeOK, SetEvent, PutBack
      <4>5. errors' \in 0..MaxErrors
        BY <4>1 DEF MsgInv, MsgTypeOK
      <4>6. todo' \in [Workers -> SUBSET Events]
        BY <4>1 DEF MsgInv, MsgTypeOK
      <4> QED
        BY <4>1, <4>2, <4>4, <4>5, <4>6
    <3>8. ASSUME NEW e \in Events, RejectRaises(w, e)
          PROVE <2>1!:
      <4>1. /\ stage[w] = "dispatch" /\ pc[w] = "handling" /\ UNCHANGED vars /\ errors' = errors + 1
            /\ errors < MaxErrors /\ Goto(w, "dispatchError") /\ UNCHANGED <<deliveryVars, sendHist>>
            /\ todo' = [todo EXCEPT ![w] = @ \ {e}] /\ cur' = [cur EXCEPT ![w] = e]
        BY <3>8 DEF RejectRaises, Take, DbError, StatementFails
      <4>2. held[w] \in CronJobs
        BY <4>1 DEF MessageRows, HolderInv, OutboxStages
      <4>3. /\ evStatus' = evStatus \/ evStatus' = [evStatus EXCEPT ![e] = "failed"]
            /\ evAttempts' = evAttempts \/ evAttempts' = [evAttempts EXCEPT ![e] = @ + 1]
            /\ UNCHANGED <<evDue, evKind>>
        BY <3>8 DEF RejectRaises
      <4>4. /\ evAttempts' \in [Events -> Nat] /\ evDue' \in [Events -> 0..OutboxDelay]
            /\ evStatus' \in [Events -> {"none", "queued", "dispatched", "failed"}] /\ evKind' = evKind
            /\ \A f \in Events : evStatus'[f] = "dispatched" => evStatus[f] = "dispatched"
        BY <4>3
      <4>5. /\ Moved("dispatchError") /\ cur' = [cur EXCEPT ![w] = e]
            /\ todo' = [todo EXCEPT ![w] = @ \ {e}] /\ UNCHANGED <<rowVars, held>>
        BY <4>1
      <4> HIDE DEF MsgInv, MsgTypeOK, SetEvent, PutBack
      <4>6. errors' \in 0..MaxErrors
        BY <4>1 DEF MsgInv, MsgTypeOK
      <4> QED
        BY <4>1, <4>2, <4>4, <4>5, <4>6
    <3> QED
      BY <1>2, <3>1, <3>2, <3>3, <3>4, <3>5, <3>6, <3>7, <3>8 DEF Dispatch, DispatchError
  <2> USE <2>1 DEF Goto, eventVars, deliveryVars, sendHist
  <2>2. MsgTypeOK'
    <3>1. /\ stage' \in [Workers -> Stages]
          /\ \A v \in Workers : (stage'[v] = "idle") <=> (pc'[v] # "handling")
      <4>1. \/ \E x \in {"dispatch", "dispatchError"} : stage' = [stage EXCEPT ![w] = x] /\ pc' = pc
            \/ /\ stage' = [stage EXCEPT ![w] = "idle"]
               /\ \E y \in {"completing", "failing"} : pc' = [pc EXCEPT ![w] = y]
        OBVIOUS
      <4>2. /\ stage \in [Workers -> Stages] /\ pc \in [Workers -> Pcs] /\ pc[w] = "handling"
            /\ \A v \in Workers : (stage[v] = "idle") <=> (pc[v] # "handling")
        BY DEF MsgInv, MsgTypeOK, TypeOK
      <4> HIDE <2>1
      <4> QED
        BY <4>1, <4>2 DEF Stages
    <3>2. todo' \in [Workers -> SUBSET Events] /\ cur' \in [Workers -> Events \cup {NoEvent}]
      BY DEF MsgInv, MsgTypeOK
    <3> QED
      BY <3>1, <3>2 DEF MsgInv, MsgTypeOK
  <2>3. HolderInv'
    BY DEF MsgInv, MsgTypeOK, MessageRows, HolderInv, OutboxStages, SendStages
  <2>4. JobRows' /\ DeliveryRows'
    BY DEF MsgInv, MessageRows, JobRows, DeliveryRows, rowVars
  <2>5. EventInv'
    <3>1. \A f \in Events \cup {NoEvent} : Existing(f)' = Existing(f)
      BY DEF Existing
    <3>2. \A v \in Workers : stage'[v] = "mark" => stage[v] = "mark" /\ cur'[v] = cur[v]
      BY DEF MsgInv, MsgTypeOK
    <3>3. EventInv /\ (stage[w] = "mark" => Existing(cur[w]) # {})
          /\ \A v \in Workers : cur[v] \in Events \cup {NoEvent}
      BY DEF MsgInv, MsgTypeOK, MessageRows, EventInv
    <3>4. /\ dEvent' = dEvent
          /\ \A e \in Events : evStatus'[e] = "dispatched" =>
               evStatus[e] = "dispatched" \/ (stage[w] = "mark" /\ cur[w] = e)
      BY <2>1
    <3> HIDE <2>1
    <3> QED
      BY <3>1, <3>2, <3>3, <3>4 DEF EventInv
  <2> QED
    BY <2>2, <2>3, <2>4, <2>5 DEF MessageRows
<1> QED
  BY <1>1, <1>2

LEMMA QuietStepsKeepRows ==
  ASSUME MsgInv, TypeOK', errors' = errors,
         (\E e \in Events, k \in Kinds : Emit(e, k)) \/ MsgTick \/ UNCHANGED allVars
  PROVE  MsgTypeOK' /\ MessageRows'
<1> USE DEF MsgInv, MsgTypeOK, eventVars, deliveryVars, sendHist, msgVars, vars, rowVars, cronVars,
        MessageRows
<1>1. ASSUME NEW e \in Events, NEW k \in Kinds, Emit(e, k)
      PROVE MsgTypeOK' /\ MessageRows'
  <2>1. MsgTypeOK'
    BY <1>1 DEF Emit
  <2>2. HolderInv' /\ JobRows' /\ DeliveryRows'
    BY <1>1 DEF Emit, HolderInv, JobRows, DeliveryRows
  <2>3. EventInv'
    BY <1>1 DEF Emit, EventInv, Existing
  <2> QED
    BY <2>1, <2>2, <2>3
<1>2. CASE MsgTick
  <2>1. MsgTypeOK'
    <3>1. evDue' \in [Events -> 0..OutboxDelay] /\ dAge' \in [Deliveries -> 0..ClaimTimeout]
      BY <1>2, MessagingAssumption DEF MsgTick
    <3> QED
      BY <1>2, <3>1 DEF MsgTick, Tick
  <2>2. HolderInv' /\ JobRows' /\ DeliveryRows' /\ EventInv'
    BY <1>2 DEF MsgTick, Tick, HolderInv, JobRows, DeliveryRows, EventInv, Existing
  <2> QED
    BY <2>1, <2>2
<1>3. CASE UNCHANGED allVars
  BY <1>3 DEF allVars, HolderInv, JobRows, DeliveryRows, EventInv, Existing
<1> QED
  BY <1>1, <1>2, <1>3

LEMMA MsgInvStep ==
  ASSUME MsgInv, [MsgNext]_allVars
  PROVE  MsgInv'
<1>1. [Next]_vars
  BY MessagingStepIsQueueStep
<1>2. TypeOK' /\ HeldPc' /\ IInv'
  BY <1>1, TypeStep, QueueStep DEF MsgInv, MsgTypeOK, TypeInv
<1>3. MsgTypeOK' /\ MessageRows'
  <2>1. CASE errors' = errors /\ \E w \in Workers : Begin(w) \/ Loop(w) \/ Die(w)
    BY <1>2, <2>1, LoopKeepsRows
  <2>2. CASE \E w \in Workers : (Dispatch(w) /\ errors' = errors) \/ DispatchError(w)
    BY <1>2, <2>2, DispatchKeepsRows
  <2>3. CASE \E w \in Workers : (Deliver(w) /\ errors' = errors) \/ DeliverError(w)
    BY <1>2, <2>3, DeliverFrame, DeliverKeepsRows
  <2>4. CASE errors' = errors /\ ((\E e \in Events, k \in Kinds : Emit(e, k)) \/ MsgTick \/ UNCHANGED allVars)
    BY <1>2, <2>4, QuietStepsKeepRows
  <2> QED
    BY <2>1, <2>2, <2>3, <2>4 DEF MsgNext, allVars
<1> QED
  BY <1>2, <1>3 DEF MsgInv

\* The invariant holds of every behaviour of the service.
THEOREM MessagingInvariant == MsgSpec => []MsgInv
<1>1. MsgInit => MsgInv
  <2> SUFFICES ASSUME MsgInit PROVE MsgInv
    OBVIOUS
  <2>1. TypeOK /\ HeldPc /\ IInv
    BY TypeInit, Initially DEF MsgInit, TypeInv
  <2>2. \A w \in Workers : pc[w] = "down"
    BY DEF MsgInit, Init
  <2>3. MsgTypeOK
    BY <2>1, <2>2, MessagingAssumption DEF MsgInit, MsgTypeOK, Stages, Kinds
  <2>4. HolderInv /\ DeliveryRows /\ EventInv
    BY DEF MsgInit, HolderInv, OutboxStages, SendStages, DeliveryRows, EventInv
  <2>5. JobRows
    BY MessagingAssumption DEF MsgInit, Init, JobRows
  <2> QED
    BY <2>1, <2>3, <2>4, <2>5 DEF MsgInv, MessageRows
<1>2. MsgInv /\ [MsgNext]_allVars => MsgInv'
  BY MsgInvStep
<1> QED
  BY <1>1, <1>2, PTL DEF MsgSpec

\* A behaviour of the messaging service is a behaviour of the queue it runs on:
\* what is proved of Spec holds of it, whatever the two handlers do.
THEOREM MessagingUsesQueue == MsgSpec => Spec
<1>1. MsgInit => Init
  BY DEF MsgInit
<1>2. MsgInv /\ [MsgNext]_allVars => [Next]_vars
  BY MessagingStepIsQueueStep
<1> QED
  BY <1>1, <1>2, MessagingInvariant, PTL DEF MsgSpec, Spec

\* Events, deliveries and the statements at which dispatchOutbox and
\* processEmailDelivery are keep their types.
THEOREM MessagesTypeCorrect == MsgSpec => []MsgTypeOK
BY MessagingInvariant, PTL DEF MsgInv

\* At most one delivery for an event; a dispatched event has its delivery and a
\* delivery its send job (dispatchOutbox, queueEmail).
THEOREM OneDelivery == MsgSpec => []OneDeliveryPerEvent
<1>1. MsgInv => OneDeliveryPerEvent
  BY DEF MsgInv, MessageRows, EventInv, JobRows, OneDeliveryPerEvent
<1> QED
  BY <1>1, MessagingInvariant, PTL

-----------------------------------------------------------------------------
(* What a send is paid by, and what the rows say while it is under way. *)

Senders(d) == {w \in Workers : stage[w] = "send" /\ held[w] = SendJob[d]}
SendsOf(w, d) == stage[w] \in Sending /\ held[w] = SendJob[d]

\* Every call of the provider, made or about to be made, is paid by a claim.
SendRule(d) ==
  sends[d] + Cardinality(Senders(d)) <= dAttempts[d] /\ dAttempts[d] <= DeliveryBudget

\* Until a sender outlives its claim it is alone and the row says so, unless
\* the row was marked sent and the answer was lost.
ClaimRule(d) ==
  d \notin slow => \A w \in Workers : SendsOf(w, d) =>
    /\ \/ dStatus[d] = "sending" /\ dAge[d] < ClaimTimeout
       \/ dStatus[d] = "sent" /\ stage[w] = "sendFailed" /\ d \in doubt
    /\ \A v \in Workers : SendsOf(v, d) => v = w

\* What the provider accepted is recorded, or its sender still knows.
AcceptRule(d) ==
  d \notin doubt \cup slow =>
    /\ accepted[d] <= 1
    /\ accepted[d] = 1 => \/ dStatus[d] = "sent"
                          \/ \E w \in Workers : stage[w] = "accepted" /\ held[w] = SendJob[d]

\* A refused delivery is not queued, and the holder of the job leaves, or left,
\* it settled.
SettleRule(d) ==
  /\ \A w \in Workers : held[w] = SendJob[d] =>
       /\ stage[w] \in {"refused", "refusedStale", "expire"} => dStatus[d] # "queued"
       /\ held[w] \notin overrun =>
            /\ stage[w] = "audit" => dStatus[d] = "sent"
            /\ pc[w] = "completing" => dStatus[d] \in {"sent", "failed"}
  /\ status[SendJob[d]] = "completed" /\ SendJob[d] \notin overrun \cup unacked
     => dStatus[d] \in {"sent", "failed"}

SendRules == \A d \in Deliveries : SendRule(d) /\ ClaimRule(d) /\ AcceptRule(d) /\ SettleRule(d)

LEMMA SendersFinite ==
  ASSUME NEW d
  PROVE  /\ IsFiniteSet(Senders(d)) /\ Cardinality(Senders(d)) \in Nat
         /\ IsFiniteSet(Senders(d)') /\ Cardinality(Senders(d)') \in Nat
<1>1. Senders(d) \subseteq Workers /\ Senders(d)' \subseteq Workers
  BY DEF Senders
<1>2. IsFiniteSet(Senders(d)) /\ IsFiniteSet(Senders(d)')
  BY <1>1, FS_Subset, ConstantsAssumption
<1> QED
  BY <1>2, FS_CardinalityType

\* A step that calls nobody and makes nobody a sender costs nothing.
LEMMA NoCall ==
  ASSUME MsgInv, NEW d \in Deliveries, SendRule(d), sends'[d] = sends[d],
         dAttempts'[d] = dAttempts[d], Senders(d)' \subseteq Senders(d)
  PROVE  SendRule(d)'
<1>1. Cardinality(Senders(d)') <= Cardinality(Senders(d))
  BY SendersFinite, FS_Subset
<1>2. sends[d] \in Nat /\ dAttempts[d] \in Nat
  BY DEF MsgInv, MsgTypeOK
<1> QED
  BY <1>1, <1>2, SendersFinite DEF SendRule

\* The holder of a send job has a delivery in the table.
LEMMA HeldDelivery ==
  ASSUME MsgInv, NEW w \in Workers, NEW d \in Deliveries, held[w] = SendJob[d]
  PROVE  dStatus[d] # "none"
<1>1. held[w] \in Jobs \ CronJobs
  BY MessagingAssumption
<1>2. status[SendJob[d]] # "absent"
  BY <1>1, ConstantsAssumption DEF MsgInv, IInv, HeldInv
<1> QED
  BY <1>2 DEF MsgInv, MessageRows, JobRows

\* A step that is not about the delivery d: nobody becomes a sender of it, and
\* its row is left alone or inserted.
Undisturbed(d) ==
  /\ \A v \in Workers : held'[v] = SendJob[d] =>
       /\ stage'[v] \in SendStages => stage'[v] = stage[v] /\ held[v] = SendJob[d]
       /\ pc'[v] = "completing" => pc[v] = "completing" /\ held[v] = SendJob[d]
  /\ \A v \in Workers : stage[v] = "accepted" /\ held[v] = SendJob[d] =>
       (stage'[v] = "accepted" /\ held'[v] = SendJob[d]) \/ d \in doubt'
  /\ sends'[d] = sends[d] /\ accepted'[d] = accepted[d] /\ dAttempts'[d] = dAttempts[d]
  /\ slow \subseteq slow' /\ doubt \subseteq doubt'
  /\ overrun \subseteq overrun' /\ unacked \subseteq unacked'
  /\ \/ dStatus'[d] = dStatus[d] /\ dAge'[d] = dAge[d]
     \/ dStatus[d] = "none" /\ dStatus'[d] = "queued"
  /\ status'[SendJob[d]] = "completed" =>
       \/ status[SendJob[d]] = "completed"
       \/ \E v \in Workers : pc[v] = "completing" /\ held[v] = SendJob[d]

LEMMA UndisturbedKeepsRules ==
  ASSUME MsgInv, NEW d \in Deliveries, Undisturbed(d),
         SendRule(d), ClaimRule(d), AcceptRule(d), SettleRule(d)
  PROVE  SendRule(d)' /\ ClaimRule(d)' /\ AcceptRule(d)' /\ SettleRule(d)'
<1>1. SendRule(d)'
  <2>1. Senders(d)' \subseteq Senders(d)
    BY DEF Undisturbed, Senders, SendStages
  <2> QED
    BY <2>1, NoCall DEF Undisturbed
<1>2. \A v \in Workers : SendsOf(v, d)' => SendsOf(v, d) /\ stage'[v] = stage[v]
  BY DEF Undisturbed, SendsOf, Sending, SendStages
<1>3. \A v \in Workers : SendsOf(v, d) => dStatus'[d] = dStatus[d] /\ dAge'[d] = dAge[d]
  BY HeldDelivery DEF Undisturbed, SendsOf
<1>4. ClaimRule(d)'
  BY <1>2, <1>3 DEF Undisturbed, ClaimRule
<1>5. AcceptRule(d)'
  <2>1. dStatus[d] = "sent" => dStatus'[d] = "sent"
    BY DEF Undisturbed
  <2> QED
    BY <2>1 DEF Undisturbed, AcceptRule
<1>6. SettleRule(d)'
  <2>1. \A v \in Workers : held[v] = SendJob[d] => dStatus'[d] = dStatus[d]
    BY HeldDelivery DEF Undisturbed
  <2>2. dStatus[d] \in {"sent", "failed"} => dStatus'[d] = dStatus[d]
    BY DEF Undisturbed
  <2>3. ASSUME NEW w \in Workers, held'[w] = SendJob[d]
        PROVE  /\ stage'[w] \in {"refused", "refusedStale", "expire"} => dStatus'[d] # "queued"
               /\ held'[w] \notin overrun' =>
                    /\ stage'[w] = "audit" => dStatus'[d] = "sent"
                    /\ pc'[w] = "completing" => dStatus'[d] \in {"sent", "failed"}
    BY <2>1, <2>2, <2>3 DEF Undisturbed, SettleRule, SendStages
  <2>4. status'[SendJob[d]] = "completed" /\ SendJob[d] \notin overrun' \cup unacked'
        => dStatus'[d] \in {"sent", "failed"}
    BY <2>2 DEF Undisturbed, SettleRule
  <2> QED
    BY <2>3, <2>4 DEF SettleRule
<1> QED
  BY <1>1, <1>4, <1>5, <1>6

LEMMA LoopDisturbsNone ==
  ASSUME MsgInv, NEW w \in Workers, Begin(w) \/ Loop(w) \/ Die(w), NEW d \in Deliveries
  PROVE  Undisturbed(d)
<1>1. LoopFrame
  BY LoopKeepsFrame DEF Die
<1>2. SendJob[d] \in Jobs /\ SendJob[d] \notin CronJobs
  BY MessagingAssumption
<1>3. \A v \in Workers : stage[v] = "accepted" /\ held[v] = SendJob[d] =>
        (stage'[v] = "accepted" /\ held'[v] = SendJob[d]) \/ d \in doubt'
  BY LoopKeepsStages, DeliveryOfJob
<1>4. \A v \in Workers : held'[v] = SendJob[d] =>
       /\ stage'[v] \in SendStages => stage'[v] = stage[v] /\ held[v] = SendJob[d]
       /\ pc'[v] = "completing" => pc[v] = "completing" /\ held[v] = SendJob[d]
  BY <1>1, LoopKeepsStages DEF LoopFrame, SendStages
<1> QED
  BY <1>1, <1>2, <1>3, <1>4, LoopKeepsStages DEF Undisturbed, LoopFrame, deliveryVars

LEMMA DispatchDisturbsNone ==
  ASSUME MsgInv, NEW w \in Workers, Dispatch(w) \/ DispatchError(w), NEW d \in Deliveries
  PROVE  Undisturbed(d)
<1>1. SendJob[d] \in Jobs /\ SendJob[d] \notin CronJobs
  BY MessagingAssumption
<1>2. /\ held[w] \in CronJobs /\ stage[w] \in OutboxStages \cup {"begin"} /\ pc[w] = "handling"
      /\ pc \in [Workers -> Pcs] /\ stage \in [Workers -> Stages]
  BY DEF Dispatch, DispatchError, SelectEvents, DispatchDone, MarkDispatched, RecordDispatchError,
     RejectRecipient, QueueEvent, QueueEventRaises, RejectRaises, MarkDispatchedRaises, DispatchRaises, At,
     MsgInv, MsgTypeOK, TypeOK, MessageRows, HolderInv, OutboxStages
<1>3. /\ UNCHANGED <<held, overrun, unacked, sendHist>>
      /\ \E x \in OutboxStages \cup {"idle"} : stage' = [stage EXCEPT ![w] = x] \/ stage' = stage
      /\ pc' = pc \/ \E y \in Pcs : pc' = [pc EXCEPT ![w] = y]
  BY HandlerLeft
     DEF Dispatch, DispatchError, SelectEvents, DispatchDone, MarkDispatched, RecordDispatchError,
     RejectRecipient, QueueEvent, QueueEventRaises, RejectRaises, MarkDispatchedRaises, DispatchRaises, DbError,
     DbErrorThrown, Goto, OutboxStages, Pcs, vars, histVars
<1>4. \/ UNCHANGED <<rowVars, deliveryVars>>
      \/ \E e \in Events, c \in Deliveries : Queued(e, c)
  BY HandlerLeft, QueueEmailCases
     DEF Dispatch, DispatchError, SelectEvents, DispatchDone, MarkDispatched, RecordDispatchError,
     RejectRecipient, QueueEvent, QueueEventRaises, RejectRaises, MarkDispatchedRaises, DispatchRaises, DbError,
     DbErrorThrown, vars
<1>5. /\ status'[SendJob[d]] = status[SendJob[d]] \/ status'[SendJob[d]] = "queued"
      /\ dAttempts'[d] = dAttempts[d]
      /\ \/ dStatus'[d] = dStatus[d] /\ dAge'[d] = dAge[d]
         \/ dStatus[d] = "none" /\ dStatus'[d] = "queued"
  <2>1. CASE UNCHANGED <<rowVars, deliveryVars>>
    BY <2>1 DEF rowVars, deliveryVars
  <2>2. ASSUME NEW e \in Events, NEW c \in Deliveries, Queued(e, c)
        PROVE <1>5!:
    BY <1>1, <2>2 DEF Queued, Insert, MsgInv, MsgTypeOK
  <2> QED
    BY <1>4, <2>1, <2>2
<1>6. \A v \in Workers : held'[v] = SendJob[d] =>
        v # w /\ stage'[v] = stage[v] /\ pc'[v] = pc[v] /\ held[v] = SendJob[d]
  BY <1>1, <1>2, <1>3
<1> QED
  BY <1>1, <1>2, <1>3, <1>5, <1>6 DEF Undisturbed, sendHist

LEMMA DeliverDisturbsNoOther ==
  ASSUME MsgInv, TypeOK', NEW w \in Workers, (Deliver(w) /\ errors' = errors) \/ DeliverError(w),
         NEW c \in Deliveries, c # DeliveryOf(w)
  PROVE  Undisturbed(c)
<1>1. held[w] = SendJob[DeliveryOf(w)] /\ DeliveryOf(w) \in Deliveries /\ SendJob[c] # held[w]
  BY DeliverHolds, MessagingAssumption
<1> QED
  BY <1>1, DeliverFrame DEF OnlyDelivery, Undisturbed, rowVars

LEMMA QuietDisturbsNone ==
  ASSUME MsgInv, (\E e \in Events, k \in Kinds : Emit(e, k)) \/ UNCHANGED allVars,
         NEW d \in Deliveries
  PROVE  Undisturbed(d)
BY DEF Emit, Undisturbed, allVars, msgVars, vars, rowVars, histVars, deliveryVars, sendHist

\* Time: a sender that reaches the claim timeout is counted as slow.
LEMMA TickKeepsRules ==
  ASSUME MsgInv, MsgTick, NEW d \in Deliveries,
         SendRule(d), ClaimRule(d), AcceptRule(d), SettleRule(d)
  PROVE  SendRule(d)' /\ ClaimRule(d)' /\ AcceptRule(d)' /\ SettleRule(d)'
<1>1. /\ UNCHANGED <<held, pc, status, unacked, stage, dStatus, dAttempts, sends, accepted, doubt>>
      /\ slow \subseteq slow' /\ overrun \subseteq overrun'
  BY DEF MsgTick, Tick
<1>2. SendRule(d)' /\ AcceptRule(d)' /\ SettleRule(d)'
  BY <1>1 DEF SendRule, Senders, AcceptRule, SettleRule
<1>3. ASSUME d \notin slow', NEW w \in Workers, SendsOf(w, d)', dStatus[d] = "sending"
      PROVE  dAge'[d] < ClaimTimeout
  <2>1. SendsOf(w, d) /\ dAge[d] + 1 < ClaimTimeout
    BY <1>1, <1>3, MessagingAssumption DEF MsgTick, SendsOf, MsgInv, MsgTypeOK
  <2> QED
    BY <2>1, MessagingAssumption DEF MsgTick, MsgInv, MsgTypeOK
<1>4. ClaimRule(d)'
  BY <1>1, <1>3 DEF ClaimRule, SendsOf
<1> QED
  BY <1>2, <1>4

\* What a step of worker w, at work on delivery d, starts from and leaves alone.
OwnStep(w, d) ==
  /\ w \in Workers /\ d \in Deliveries /\ held[w] = SendJob[d] /\ pc[w] = "handling"
  /\ stage[w] \in SendStages \cup {"begin"} /\ stage'[w] \in SendStages \cup {"idle"}
  /\ stage'[w] = "idle" <=> pc'[w] # "handling"
  /\ UNCHANGED <<held, status, overrun, unacked, slow>>
  /\ \A v \in Workers \ {w} : pc'[v] = pc[v] /\ stage'[v] = stage[v]
  /\ doubt \subseteq doubt'
  /\ dStatus[d] # "none" /\ sends[d] \in Nat /\ accepted[d] \in Nat /\ dAttempts[d] \in Nat
  /\ dAge[d] \in 0..ClaimTimeout

LEMMA DeliverIsOwn ==
  ASSUME MsgInv, TypeOK', NEW w \in Workers, (Deliver(w) /\ errors' = errors) \/ DeliverError(w)
  PROVE  OwnStep(w, DeliveryOf(w))
<1>1. MsgTypeOK /\ MsgTypeOK'
  BY DeliverFrame DEF MsgInv
<1> QED
  BY <1>1, DeliverHolds, DeliverFrame DEF OwnStep, OnlyDelivery, MsgTypeOK, rowVars

\* The holder of a job that nobody overran is alone with it, and the row runs.
LEMMA OwnerAlone ==
  ASSUME MsgInv, NEW w, NEW d, OwnStep(w, d), SendJob[d] \notin overrun
  PROVE  /\ status[SendJob[d]] = "running"
         /\ \A v \in Workers : held[v] = SendJob[d] => v = w
<1>1. held[w] \in Jobs /\ held[w] # NoJob
  BY MessagingAssumption, ConstantsAssumption DEF OwnStep
<1> QED
  BY <1>1 DEF OwnStep, MsgInv, IInv, LeaseInv, LeaseExclusion

\* The settling of delivery d by its worker.
LEMMA OwnSettles ==
  ASSUME MsgInv, NEW w, NEW d, OwnStep(w, d), SettleRule(d),
         dStatus'[d] = "queued" => dStatus[d] = "queued",
         stage'[w] \in {"refused", "refusedStale", "expire"} => dStatus'[d] # "queued",
         SendJob[d] \notin overrun /\ stage'[w] = "audit" => dStatus'[d] = "sent",
         SendJob[d] \notin overrun /\ pc'[w] = "completing" => dStatus'[d] \in {"sent", "failed"}
  PROVE  SettleRule(d)'
<1>1. SendJob[d] \notin overrun =>
        status[SendJob[d]] = "running" /\ \A v \in Workers : held[v] = SendJob[d] => v = w
  BY OwnerAlone
<1>2. ASSUME NEW v \in Workers, held[v] = SendJob[d]
      PROVE  /\ stage'[v] \in {"refused", "refusedStale", "expire"} => dStatus'[d] # "queued"
             /\ SendJob[d] \notin overrun =>
                  /\ stage'[v] = "audit" => dStatus'[d] = "sent"
                  /\ pc'[v] = "completing" => dStatus'[d] \in {"sent", "failed"}
  BY <1>1, <1>2 DEF OwnStep, SettleRule
<1> QED
  BY <1>1, <1>2 DEF OwnStep, SettleRule

\* A step inside the handler that calls nobody, claims nothing and leaves the
\* row alone.
LEMMA RowUntouched ==
  ASSUME MsgInv, NEW w, NEW d, OwnStep(w, d), SendRule(d), ClaimRule(d), AcceptRule(d),
         SettleRule(d), UNCHANGED <<deliveryVars, sends, accepted, doubt>>,
         stage[w] # "accepted", stage'[w] \notin Sending
  PROVE  SendRule(d)' /\ ClaimRule(d)' /\ AcceptRule(d)'
<1> USE DEF OwnStep, deliveryVars
<1>1. SendRule(d)'
  <2>1. Senders(d)' \subseteq Senders(d)
    BY DEF Senders, Sending
  <2> QED
    BY <2>1, NoCall
<1>2. ClaimRule(d)'
  BY DEF ClaimRule, SendsOf
<1>3. AcceptRule(d)'
  BY DEF AcceptRule
<1> QED
  BY <1>1, <1>2, <1>3

AllRules(d) == SendRule(d) /\ ClaimRule(d) /\ AcceptRule(d) /\ SettleRule(d)

\* The claim: nobody else sends, and the call to come is paid.
LEMMA ClaimKeepsRules ==
  ASSUME MsgInv, NEW w, NEW d, OwnStep(w, d), d = DeliveryOf(w), AllRules(d), ClaimDelivery(w)
  PROVE  AllRules(d)'
<1> USE DEF OwnStep, AllRules
<1>1. /\ stage[w] = "begin" /\ stage'[w] = "send" /\ Claimable(d)
      /\ dStatus'[d] = "sending" /\ dAge'[d] = 0 /\ dAttempts'[d] = dAttempts[d] + 1
      /\ UNCHANGED <<sends, accepted, doubt>>
  <2>1. /\ stage[w] = "begin" /\ stage' = [stage EXCEPT ![w] = "send"] /\ Claimable(d)
        /\ dStatus' = [dStatus EXCEPT ![d] = "sending"] /\ dAge' = [dAge EXCEPT ![d] = 0]
        /\ dAttempts' = [dAttempts EXCEPT ![d] = @ + 1] /\ UNCHANGED <<sends, accepted, doubt>>
    BY DEF ClaimDelivery, At, Goto, SetDelivery, sendHist
  <2> QED
    BY <2>1 DEF MsgInv, MsgTypeOK
<1>2. SendRule(d)'
  <2>1. w \notin Senders(d) /\ Senders(d)' = Senders(d) \cup {w}
    BY <1>1 DEF Senders
  <2>2. Cardinality(Senders(d)') = Cardinality(Senders(d)) + 1
    BY ONLY <2>1, SendersFinite, FS_AddElement
  <2> QED
    BY <1>1, <2>2, SendersFinite, MessagingAssumption DEF SendRule, Claimable
<1>3. d \notin slow => \A v \in Workers : ~SendsOf(v, d)
  BY <1>1, MessagingAssumption DEF ClaimRule, Claimable
<1>4. ClaimRule(d)'
  BY <1>1, <1>3, MessagingAssumption DEF ClaimRule, SendsOf
<1>5. AcceptRule(d)'
  BY <1>1, <1>3 DEF AcceptRule, SendsOf, Sending, Claimable
<1>6. SettleRule(d)'
  BY <1>1, OwnSettles
<1> QED
  BY <1>2, <1>4, <1>5, <1>6

\* The claim whose answer is lost: nobody sends.
LEMMA LostClaimKeepsRules ==
  ASSUME MsgInv, NEW w, NEW d, OwnStep(w, d), d = DeliveryOf(w), AllRules(d), ClaimLost(w)
  PROVE  AllRules(d)'
<1> USE DEF OwnStep, AllRules
<1>1. /\ stage[w] = "begin" /\ stage'[w] = "idle" /\ Claimable(d) /\ pc'[w] = "failing"
      /\ dStatus'[d] = "sending" /\ dAge'[d] = 0 /\ dAttempts'[d] = dAttempts[d] + 1
      /\ UNCHANGED <<sends, accepted, doubt>>
  BY DEF ClaimLost, DbErrorThrown, Throw, HandlerThrows, At, Goto, SetDelivery, sendHist, MsgInv,
     MsgTypeOK, TypeOK
<1>2. SendRule(d)'
  <2>1. Senders(d)' = Senders(d)
    BY <1>1 DEF Senders
  <2> QED
    BY <1>1, <2>1, SendersFinite, MessagingAssumption DEF SendRule, Claimable
<1>3. d \notin slow => \A v \in Workers : ~SendsOf(v, d)
  BY <1>1, MessagingAssumption DEF ClaimRule, Claimable
<1>4. ClaimRule(d)'
  BY <1>1, <1>3 DEF ClaimRule, SendsOf, Sending
<1>5. AcceptRule(d)'
  BY <1>1, <1>3 DEF AcceptRule, SendsOf, Sending, Claimable
<1>6. SettleRule(d)'
  BY <1>1, OwnSettles
<1> QED
  BY <1>2, <1>4, <1>5, <1>6

\* The steps that only look, and those that leave the handler.
LEMMA LookKeepsRules ==
  ASSUME MsgInv, NEW w, NEW d, OwnStep(w, d), d = DeliveryOf(w), AllRules(d),
         \/ ClaimRefused(w) \/ FindSent(w) \/ FindTimedOut(w) \/ FindBusy(w)
         \/ FindSettled(w) \/ Audit(w) \/ DeliverRaises(w)
  PROVE  AllRules(d)'
<1> USE DEF OwnStep, AllRules
<1>1. /\ UNCHANGED <<deliveryVars, sends, accepted, doubt>>
      /\ stage[w] # "accepted" /\ stage'[w] \notin Sending
  BY HandlerLeft DEF ClaimRefused, FindSent, FindTimedOut, FindBusy, FindSettled, Audit,
     DeliverRaises, DbErrorThrown, Refused, At, Goto, Sending, MsgInv, MsgTypeOK, sendHist
<1>2. /\ stage'[w] \in {"refused", "refusedStale"} => ~Claimable(d)
      /\ stage'[w] = "expire" => dStatus[d] = "sending"
      /\ stage'[w] = "audit" => dStatus[d] = "sent"
      /\ pc'[w] = "completing" => stage[w] = "audit" \/ dStatus[d] \notin {"sent", "sending"}
      /\ pc'[w] = "completing" => stage[w] \in {"refused", "refusedStale", "audit"}
  <2>1. CASE ClaimRefused(w) \/ FindSent(w) \/ FindTimedOut(w)
    BY <2>1 DEF ClaimRefused, FindSent, FindTimedOut, TimedOutForGood, At, Goto, vars, MsgInv, MsgTypeOK
  <2>2. CASE FindBusy(w) \/ DeliverRaises(w)
    BY <2>2 DEF FindBusy, DeliverRaises, DbErrorThrown, Throw, HandlerThrows, Goto, MsgInv, MsgTypeOK, TypeOK
  <2>3. CASE FindSettled(w) \/ Audit(w)
    BY <2>3 DEF FindSettled, Audit, Return, HandlerReturns, Refused, At, Goto, MsgInv, MsgTypeOK, TypeOK
  <2> QED
    BY <2>1, <2>2, <2>3
<1>3. dStatus' = dStatus
  BY <1>1 DEF deliveryVars
<1>4. ~Claimable(d) => dStatus[d] # "queued"
  BY MessagingAssumption DEF Claimable, MsgInv, MessageRows, DeliveryRows
<1>5. SendJob[d] \notin overrun /\ stage[w] = "audit" => dStatus[d] = "sent"
  BY DEF SettleRule
<1>6. stage[w] \in {"refused", "refusedStale"} => dStatus[d] # "queued"
  BY DEF SettleRule
<1>7. dStatus[d] \in {"none", "queued", "sending", "sent", "failed"}
  BY DEF MsgInv, MsgTypeOK
<1>8. SettleRule(d)'
  BY <1>2, <1>3, <1>4, <1>5, <1>6, <1>7, OwnSettles
<1> QED
  BY <1>1, <1>8, RowUntouched

\* A delivery is only expired when nobody is sending it in time.
LEMMA ExpireKeepsRules ==
  ASSUME MsgInv, NEW w, NEW d, OwnStep(w, d), d = DeliveryOf(w), AllRules(d),
         Expire(w) \/ ExpireLost(w)
  PROVE  AllRules(d)'
<1> USE DEF OwnStep, AllRules
<1>1. stage[w] = "expire" /\ stage'[w] = "idle" /\ UNCHANGED <<sends, accepted, doubt, dAttempts>>
  BY HandlerLeft DEF Expire, ExpireLost, DbErrorThrown, At, Goto, MsgInv, MsgTypeOK, sendHist,
     deliveryVars
<1>2. CASE TimedOutForGood(w)
  <2>1. dStatus[d] = "sending" /\ dAge[d] >= ClaimTimeout /\ dStatus'[d] = "failed"
    BY <1>2 DEF Expire, ExpireLost, TimedOutForGood, SetDelivery, MsgInv, MsgTypeOK
  <2>2. d \notin slow => \A v \in Workers : ~SendsOf(v, d)
    BY <2>1, MessagingAssumption DEF ClaimRule
  <2>3. Senders(d)' \subseteq Senders(d) /\ \A v \in Workers : SendsOf(v, d)' => SendsOf(v, d)
    BY <1>1 DEF Senders, SendsOf, Sending
  <2>4. SendRule(d)'
    BY <1>1, <2>3, NoCall
  <2>5. ClaimRule(d)'
    BY <2>2, <2>3 DEF ClaimRule
  <2>6. AcceptRule(d)'
    BY <1>1, <2>1, <2>2 DEF AcceptRule, SendsOf, Sending
  <2>7. SettleRule(d)'
    BY <1>1, <2>1, OwnSettles
  <2> QED
    BY <2>4, <2>5, <2>6, <2>7
<1>3. CASE ~TimedOutForGood(w)
  <2>1. UNCHANGED deliveryVars /\ pc'[w] = "failing"
    BY <1>3 DEF Expire, ExpireLost, Throw, HandlerThrows, MsgInv, MsgTypeOK, TypeOK
  <2>2. SettleRule(d)'
    BY <1>1, <2>1, OwnSettles DEF deliveryVars
  <2> QED
    BY <1>1, <2>1, <2>2, RowUntouched DEF Sending
<1> QED
  BY <1>2, <1>3

\* The call of the provider uses up what its claim paid.
LEMMA SendKeepsRules ==
  ASSUME MsgInv, NEW w, NEW d, OwnStep(w, d), d = DeliveryOf(w), AllRules(d),
         NEW ok \in BOOLEAN, Send(w, ok)
  PROVE  AllRules(d)'
<1> USE DEF OwnStep, AllRules
<1>1. /\ stage[w] = "send" /\ stage'[w] = IF ok THEN "accepted" ELSE "sendFailed"
      /\ sends'[d] = sends[d] + 1 /\ accepted'[d] = IF ok THEN accepted[d] + 1 ELSE accepted[d]
      /\ UNCHANGED <<dStatus, dAge, dAttempts, doubt>> /\ pc' = pc
  BY DEF Send, At, Goto, MsgInv, MsgTypeOK, sendHist, deliveryVars, vars
<1>2. SendRule(d)'
  <2>1. w \in Senders(d) /\ Senders(d)' = Senders(d) \ {w}
    BY <1>1 DEF Senders
  <2>2. Cardinality(Senders(d)') = Cardinality(Senders(d)) - 1
    BY <2>1, SendersFinite, FS_RemoveElement
  <2> QED
    BY <1>1, <2>2, SendersFinite DEF SendRule
<1>3. d \notin slow => /\ dStatus[d] = "sending" /\ dAge[d] < ClaimTimeout
                       /\ \A v \in Workers : SendsOf(v, d) => v = w
  BY <1>1 DEF ClaimRule, SendsOf, Sending
<1>4. \A v \in Workers : SendsOf(v, d)' <=> SendsOf(v, d)
  BY <1>1 DEF SendsOf, Sending
<1>5. ClaimRule(d)'
  BY <1>1, <1>3, <1>4 DEF ClaimRule
<1>6. AcceptRule(d)'
  <2> SUFFICES ASSUME d \notin doubt \cup slow PROVE AcceptRule(d)'
    BY <1>1 DEF AcceptRule
  <2>1. accepted[d] <= 1 /\ accepted[d] # 1
    BY <1>1, <1>3 DEF AcceptRule, SendsOf, Sending
  <2> QED
    BY <1>1, <2>1 DEF AcceptRule
<1>7. SettleRule(d)'
  BY <1>1, OwnSettles
<1> QED
  BY <1>2, <1>5, <1>6, <1>7

\* Recording the outcome ends the exclusive time of the sender.
LEMMA MarkKeepsRules ==
  ASSUME MsgInv, NEW w, NEW d, OwnStep(w, d), d = DeliveryOf(w), AllRules(d),
         MarkSent(w) \/ MarkSentRaises(w) \/ MarkFailed(w)
  PROVE  AllRules(d)'
<1> USE DEF OwnStep, AllRules
<1>1. /\ UNCHANGED <<sends, accepted, dAttempts>> /\ stage[w] \in Sending /\ stage'[w] # "send"
      /\ dStatus'[d] = "queued" => dStatus[d] = "queued"
  <2> USE DEF At, Goto, SetDelivery, Sending, MsgInv, MsgTypeOK, sendHist, deliveryVars
  <2>1. CASE MarkSent(w)
    BY <2>1 DEF MarkSent
  <2>2. CASE MarkSentRaises(w)
    BY <2>2 DEF MarkSentRaises
  <2>3. CASE MarkFailed(w)
    BY <2>3, HandlerLeft DEF MarkFailed
  <2> QED
    BY <2>1, <2>2, <2>3
<1>2. SendRule(d)'
  <2>1. Senders(d)' \subseteq Senders(d)
    BY <1>1 DEF Senders
  <2> QED
    BY <1>1, <2>1, NoCall
<1>3. d \notin slow => \A v \in Workers : SendsOf(v, d) => v = w
  BY <1>1 DEF ClaimRule, SendsOf
<1>4. \A v \in Workers \ {w} : SendsOf(v, d)' <=> SendsOf(v, d)
  BY DEF SendsOf
<1>5. CASE MarkSent(w)
  <2>1. stage'[w] = "audit" /\ dStatus'[d] = "sent" /\ doubt' = doubt
    BY <1>5 DEF MarkSent, Goto, SetDelivery, MsgInv, MsgTypeOK, sendHist
  <2>2. ClaimRule(d)'
    BY <1>3, <1>4, <2>1 DEF ClaimRule, SendsOf, Sending
  <2>3. AcceptRule(d)'
    BY <1>1, <2>1 DEF AcceptRule
  <2>4. SettleRule(d)'
    BY <2>1, OwnSettles
  <2> QED
    BY <1>2, <2>2, <2>3, <2>4
<1>6. CASE MarkSentRaises(w)
  <2>1. /\ stage[w] = "accepted" /\ stage'[w] = "sendFailed" /\ d \in doubt' /\ pc' = pc
        /\ \/ dStatus'[d] = dStatus[d] /\ dAge'[d] = dAge[d]
           \/ dStatus'[d] = "sent"
    BY <1>6 DEF MarkSentRaises, DbError, At, Goto, SetDelivery, MsgInv, MsgTypeOK, deliveryVars, vars
  <2>2. ClaimRule(d)'
    BY <1>3, <1>4, <2>1 DEF ClaimRule, SendsOf, Sending
  <2>3. AcceptRule(d)'
    BY <2>1 DEF AcceptRule
  <2>4. SettleRule(d)'
    BY <1>1, <2>1, OwnSettles
  <2> QED
    BY <1>2, <2>2, <2>3, <2>4
<1>7. CASE MarkFailed(w)
  <2>1. /\ stage[w] = "sendFailed" /\ stage'[w] = "idle" /\ dStatus'[d] = "failed"
        /\ doubt' = doubt /\ pc'[w] = "failing"
    BY <1>7 DEF MarkFailed, At, Throw, HandlerThrows, Goto, SetDelivery, MsgInv, MsgTypeOK, TypeOK,
       sendHist
  <2>2. ClaimRule(d)'
    BY <1>3, <1>4, <2>1 DEF ClaimRule, SendsOf, Sending
  <2>3. AcceptRule(d)'
    <3>1. d \notin doubt \cup slow => accepted[d] # 1
      BY <1>3, <2>1 DEF AcceptRule, ClaimRule, SendsOf, Sending
    <3> QED
      BY <1>1, <2>1, <3>1 DEF AcceptRule
  <2>4. SettleRule(d)'
    BY <2>1, OwnSettles
  <2> QED
    BY <1>2, <2>2, <2>3, <2>4
<1> QED
  BY <1>5, <1>6, <1>7

LEMMA DeliverKeepsRules ==
  ASSUME MsgInv, TypeOK', NEW w \in Workers, (Deliver(w) /\ errors' = errors) \/ DeliverError(w),
         NEW d \in Deliveries, d = DeliveryOf(w), AllRules(d)
  PROVE  AllRules(d)'
<1>1. OwnStep(w, d)
  BY DeliverIsOwn
<1>2. CASE ClaimDelivery(w)
  BY <1>1, <1>2, ClaimKeepsRules
<1>3. CASE \/ ClaimRefused(w) \/ FindSent(w) \/ FindTimedOut(w) \/ FindBusy(w)
           \/ FindSettled(w) \/ Audit(w) \/ DeliverRaises(w)
  BY <1>1, <1>3, LookKeepsRules
<1>4. CASE Expire(w) \/ ExpireLost(w)
  BY <1>1, <1>4, ExpireKeepsRules
<1>7. CASE ClaimLost(w)
  BY <1>1, <1>7, LostClaimKeepsRules
<1>5. ASSUME NEW ok \in BOOLEAN, Send(w, ok) PROVE AllRules(d)'
  BY <1>1, <1>5, SendKeepsRules
<1>6. CASE MarkSent(w) \/ MarkSentRaises(w) \/ MarkFailed(w)
  BY <1>1, <1>6, MarkKeepsRules
<1> QED
  BY <1>2, <1>3, <1>4, <1>5, <1>6, <1>7 DEF Deliver, DeliverError

LEMMA SendRulesStep ==
  ASSUME MsgInv, SendRules, [MsgNext]_allVars
  PROVE  SendRules'
<1>1. TypeOK'
  BY MsgInvStep DEF MsgInv, MsgTypeOK
<1> SUFFICES ASSUME NEW d \in Deliveries PROVE AllRules(d)'
  BY DEF SendRules, AllRules
<1>2. AllRules(d)
  BY DEF SendRules, AllRules
<1>3. Undisturbed(d) => AllRules(d)'
  BY <1>2, UndisturbedKeepsRules DEF AllRules
<1>4. ASSUME NEW w \in Workers, Begin(w) \/ Loop(w) \/ Die(w)
      PROVE AllRules(d)'
  BY <1>3, <1>4, LoopDisturbsNone
<1>5. ASSUME NEW w \in Workers, Dispatch(w) \/ DispatchError(w)
      PROVE AllRules(d)'
  BY <1>3, <1>5, DispatchDisturbsNone
<1>6. ASSUME NEW w \in Workers, (Deliver(w) /\ errors' = errors) \/ DeliverError(w)
      PROVE AllRules(d)'
  <2>1. CASE d = DeliveryOf(w)
    BY <1>1, <1>2, <1>6, <2>1, DeliverKeepsRules
  <2>2. CASE d # DeliveryOf(w)
    BY <1>1, <1>3, <1>6, <2>2, DeliverDisturbsNoOther
  <2> QED
    BY <2>1, <2>2
<1>7. CASE (\E e \in Events, k \in Kinds : Emit(e, k)) \/ UNCHANGED allVars
  BY <1>3, <1>7, QuietDisturbsNone
<1>8. CASE MsgTick
  BY <1>2, <1>8, TickKeepsRules DEF AllRules
<1> QED
  BY <1>4, <1>5, <1>6, <1>7, <1>8 DEF MsgNext

LEMMA SendInvariant == MsgSpec => []SendRules
<1>1. MsgInit => SendRules
  <2> SUFFICES ASSUME MsgInit, NEW d \in Deliveries
               PROVE SendRule(d) /\ ClaimRule(d) /\ AcceptRule(d) /\ SettleRule(d)
    BY DEF SendRules
  <2> USE DEF MsgInit
  <2>1. Senders(d) = {}
    BY DEF Senders
  <2>2. Cardinality(Senders(d)) = 0
    BY <2>1, FS_EmptySet
  <2>3. SendRule(d)
    BY <2>2, MessagingAssumption DEF SendRule
  <2>4. ClaimRule(d) /\ AcceptRule(d)
    BY DEF ClaimRule, AcceptRule, SendsOf, Sending
  <2>5. SettleRule(d)
    BY MessagingAssumption DEF SettleRule, Init
  <2> QED
    BY <2>3, <2>4, <2>5
<1> QED
  BY <1>1, SendRulesStep, MessagingInvariant, PTL DEF MsgSpec

\* However the job is retried, reclaimed or shared, the provider is called at
\* most max_attempts times for a delivery, and twice with success only after a
\* lost record or an outlived claim (processEmailDelivery).
THEOREM SendsAreBounded == MsgSpec => []SendsBounded
<1>1. MsgInv /\ SendRules => SendsBounded
  <2> SUFFICES ASSUME MsgInv, SendRules, NEW d \in Deliveries
               PROVE  /\ sends[d] <= dAttempts[d] /\ dAttempts[d] <= DeliveryBudget
                      /\ accepted[d] > 1 => d \in doubt \cup slow
    BY DEF SendsBounded
  <2>1. sends[d] \in Nat /\ dAttempts[d] \in Nat /\ accepted[d] \in Nat
    BY DEF MsgInv, MsgTypeOK
  <2>2. SendRule(d) /\ AcceptRule(d)
    BY DEF SendRules
  <2> QED
    BY <2>1, <2>2, SendersFinite DEF SendRule, AcceptRule
<1> QED
  BY <1>1, MessagingInvariant, SendInvariant, PTL

\* Two workers send the same delivery only after one outlived its claim
\* (the claiming UPDATE of processEmailDelivery).
THEOREM SendersAreExclusive == MsgSpec => []SendersExclusive
<1>1. MsgInv /\ SendRules => SendersExclusive
  <2> SUFFICES ASSUME MsgInv, SendRules, NEW v \in Workers, NEW w \in Workers, v # w,
                      held[v] = held[w], stage[v] \in Sending, stage[w] \in Sending
               PROVE  DeliveryOf(w) \in slow
    BY DEF SendersExclusive
  <2>1. DeliveryOf(w) \in Deliveries /\ SendsOf(w, DeliveryOf(w)) /\ SendsOf(v, DeliveryOf(w))
    BY SenderOf DEF SendsOf, Sending, SendStages
  <2> QED
    BY <2>1 DEF SendRules, ClaimRule
<1> QED
  BY <1>1, MessagingInvariant, SendInvariant, PTL

\* A completed send job leaves its delivery sent or failed (processEmailDelivery
\* and completeJob), overruns and lost answers apart.
THEOREM CompletionSettles == MsgSpec => []CompletedMeansSettled
<1>1. SendRules => CompletedMeansSettled
  BY DEF SendRules, SettleRule, CompletedMeansSettled
<1> QED
  BY <1>1, SendInvariant, PTL

-----------------------------------------------------------------------------
(* The ledger of promises *)

\* What a dispatcher has selected was emitted.
TodoRule ==
  \A w \in Workers : /\ \A e \in todo[w] : evStatus[e] # "none"
                     /\ cur[w] # NoEvent => evStatus[cur[w]] # "none"

\* A sender has a claim behind it; one that is about to record an acceptance has
\* the provider's word.
AnswerRule(d) ==
  \A w \in Workers : held[w] = SendJob[d] =>
    /\ stage[w] \in Sending => dAttempts[d] > 0
    /\ stage[w] = "accepted" => accepted[d] > 0

LedgerInv == TodoRule /\ \A d \in Deliveries : AnswerRule(d)

Shaken == doubt \cup slow

LEMMA StandOf ==
  ASSUME NEW e \in Events
  PROVE  /\ Stand[e] = IF evStatus[e] = "queued" THEN "open"
                       ELSE IF evStatus[e] = "dispatched" THEN "placed"
                       ELSE IF evStatus[e] = "failed" THEN "dead" ELSE "none"
         /\ Stand'[e] = IF evStatus'[e] = "queued" THEN "open"
                        ELSE IF evStatus'[e] = "dispatched" THEN "placed"
                        ELSE IF evStatus'[e] = "failed" THEN "dead" ELSE "none"
BY DEF Stand

LEMMA StateOf ==
  ASSUME NEW d \in Deliveries
  PROVE  /\ State[d] = IF dStatus[d] \in {"queued", "sending"} THEN "open" ELSE dStatus[d]
         /\ State'[d] = IF dStatus'[d] \in {"queued", "sending"} THEN "open" ELSE dStatus'[d]
BY DEF State

\* Events that a step does not touch wait.
LEMMA EventsWait ==
  ASSUME UNCHANGED eventVars, NEW e \in Events
  PROVE  Promises!EventMove(e)
BY StandOf DEF eventVars, Promises!EventMove, Promises!Waits

\* The end of the turn of event x.
LEMMA TurnEnds ==
  ASSUME MsgInv, NEW x \in Events, evStatus[x] # "none", UNCHANGED evKind,
         evAttempts' = [evAttempts EXCEPT ![x] = @ + 1],
         NEW s \in {"queued", "dispatched", "failed"}, evStatus' = [evStatus EXCEPT ![x] = s],
         s = "queued" => evAttempts[x] + 1 < OutboxBudget,
         s = "dispatched" => Existing(x) # {},
         s = "failed" => evAttempts[x] + 1 >= OutboxBudget \/ evKind[x] = "invalid",
         NEW e \in Events
  PROVE  Promises!EventMove(e) /\ (evStatus'[e] = "none" => evStatus[e] = "none")
<1> USE DEF Promises!EventMove, Promises!Waits, Promises!Turn
<1>1. evStatus \in [Events -> {"none", "queued", "dispatched", "failed"}] /\ evAttempts \in [Events -> Nat]
  BY DEF MsgInv, MsgTypeOK
<1>2. CASE e = x
  <2>1. evStatus'[e] = s /\ evAttempts'[e] = evAttempts[e] + 1 /\ Stand[e] # "none"
    BY <1>1, <1>2, StandOf
  <2>2. s = "dispatched" => \E d \in Deliveries : dEvent[d] = e
    BY <1>2 DEF Existing
  <2> QED
    BY <1>1, <1>2, <2>1, <2>2, StandOf
<1>3. CASE e # x
  BY <1>1, <1>3, StandOf
<1> QED
  BY <1>2, <1>3

\* dispatchOutbox: each event waits or its turn ends.
LEMMA DispatchMovesEvents ==
  ASSUME MsgInv, TodoRule, NEW w \in Workers, Dispatch(w) \/ DispatchError(w)
  PROVE  /\ \A e \in Events : Promises!EventMove(e) /\ (evStatus'[e] = "none" => evStatus[e] = "none")
         /\ TodoRule'
<1>0. /\ todo \in [Workers -> SUBSET Events] /\ cur \in [Workers -> Events \cup {NoEvent}]
      /\ evStatus \in [Events -> {"none", "queued", "dispatched", "failed"}]
      /\ NoEvent \notin Events
  BY MessagingAssumption DEF MsgInv, MsgTypeOK
<1>1. ASSUME UNCHANGED eventVars,
             \A v \in Workers : todo'[v] \subseteq todo[v] \/ \A e \in todo'[v] : evStatus[e] # "none",
             \A v \in Workers : \/ cur'[v] \in {cur[v], NoEvent}
                                \/ cur'[v] \in Events /\ evStatus[cur'[v]] # "none"
      PROVE  /\ \A e \in Events : Promises!EventMove(e) /\ (evStatus'[e] = "none" => evStatus[e] = "none")
             /\ TodoRule'
  BY <1>1, EventsWait DEF eventVars, TodoRule
<1>2. ASSUME NEW x \in Events,
             \A e \in Events : Promises!EventMove(e) /\ (evStatus'[e] = "none" => evStatus[e] = "none"),
             \A v \in Workers : /\ todo'[v] \subseteq todo[v]
                                /\ cur'[v] \in {cur[v], NoEvent} \/ cur'[v] \in todo[v]
      PROVE  TodoRule'
  BY <1>0, <1>2 DEF TodoRule
<1>3. CASE SelectEvents(w)
  BY <1>0, <1>1, <1>3 DEF SelectEvents
<1>4. CASE DispatchDone(w)
  BY <1>1, <1>4 DEF DispatchDone
<1>7. ASSUME NEW x \in Events, QueueEvent(w, x) \/ QueueEventRaises(w, x)
      PROVE  /\ \A e \in Events : Promises!EventMove(e) /\ (evStatus'[e] = "none" => evStatus[e] = "none")
             /\ TodoRule'
  <2>1. /\ UNCHANGED eventVars /\ x \in todo[w]
        /\ todo' = [todo EXCEPT ![w] = @ \ {x}] /\ cur' = [cur EXCEPT ![w] = x]
    BY <1>7 DEF QueueEvent, QueueEventRaises, Take
  <2> QED
    BY <1>0, <1>1, <2>1 DEF TodoRule
<1>8. ASSUME NEW x \in Events, RejectRecipient(w, x) \/ RejectRaises(w, x)
      PROVE  /\ \A e \in Events : Promises!EventMove(e) /\ (evStatus'[e] = "none" => evStatus[e] = "none")
             /\ TodoRule'
  <2>1. /\ evStatus[x] # "none" /\ x \in todo[w] /\ evKind[x] = "invalid"
    BY <1>0, <1>8 DEF RejectRecipient, RejectRaises, Take, TodoRule
  <2>4. todo' = [todo EXCEPT ![w] = @ \ {x}] /\ (cur' = cur \/ cur' = [cur EXCEPT ![w] = x])
    BY <1>8 DEF RejectRecipient, RejectRaises, Take
  <2>5. \A v \in Workers : /\ todo'[v] \subseteq todo[v]
                           /\ cur'[v] \in {cur[v], NoEvent} \/ cur'[v] \in todo[v]
    <3> HIDE <1>8
    <3> QED
      BY <1>0, <2>1, <2>4
  <2>2. CASE UNCHANGED eventVars
    <3>1. \A v \in Workers : todo'[v] \subseteq todo[v] \/ \A e \in todo'[v] : evStatus[e] # "none"
      BY <2>5
    <3>2. \A v \in Workers : \/ cur'[v] \in {cur[v], NoEvent}
                             \/ cur'[v] \in Events /\ evStatus[cur'[v]] # "none"
      BY <1>0, <2>5 DEF TodoRule
    <3> QED
      BY <1>1, <2>2, <3>1, <3>2
  <2>3. CASE SetEvent(x, "failed")
    <3>1. \A e \in Events : Promises!EventMove(e) /\ (evStatus'[e] = "none" => evStatus[e] = "none")
      BY <2>1, <2>3, TurnEnds DEF SetEvent
    <3> QED
      BY <1>2, <2>5, <3>1
  <2> QED
    BY <1>8, <2>2, <2>3 DEF RejectRecipient, RejectRaises
<1>9. CASE MarkDispatched(w) \/ MarkDispatchedRaises(w) \/ RecordDispatchError(w) \/ DispatchRaises(w)
  <2>1. \A v \in Workers : todo'[v] \subseteq todo[v] /\ cur'[v] \in {cur[v], NoEvent}
    BY <1>0, <1>9 DEF MarkDispatched, MarkDispatchedRaises, RecordDispatchError, DispatchRaises
  <2>2. CASE UNCHANGED eventVars
    BY <1>0, <1>1, <2>1, <2>2
  <2>3. CASE ~UNCHANGED eventVars
    <3>1. PICK x \in Events : x = cur[w]
      BY <1>9, <2>3 DEF MarkDispatched, MarkDispatchedRaises, RecordDispatchError, DispatchRaises, At,
         MsgInv, MessageRows, HolderInv
    <3>2. evStatus[x] # "none"
      BY <1>0, <3>1 DEF TodoRule
    <3>3. PICK s \in {"queued", "dispatched", "failed"} :
            /\ SetEvent(x, s)
            /\ s = "queued" => ~(evAttempts[x] + 1 >= OutboxBudget)
            /\ s = "dispatched" => Existing(x) # {}
            /\ s = "failed" => evAttempts[x] + 1 >= OutboxBudget
      BY <1>9, <2>3, <3>1 DEF MarkDispatched, MarkDispatchedRaises, RecordDispatchError, DispatchRaises,
         PutBack, At, MsgInv, MessageRows, EventInv
    <3>4. evAttempts[x] \in Nat /\ OutboxBudget \in Nat
      BY MessagingAssumption DEF MsgInv, MsgTypeOK
    <3>5. \A e \in Events : Promises!EventMove(e) /\ (evStatus'[e] = "none" => evStatus[e] = "none")
      <4>1. s = "queued" => evAttempts[x] + 1 < OutboxBudget
        BY <3>3, <3>4
      <4>2. /\ UNCHANGED evKind /\ evStatus' = [evStatus EXCEPT ![x] = s]
            /\ evAttempts' = [evAttempts EXCEPT ![x] = @ + 1]
        BY <3>3 DEF SetEvent
      <4> QED
        BY <3>2, <3>3, <4>1, <4>2, TurnEnds
    <3> QED
      BY <1>2, <2>1, <3>5
  <2> QED
    BY <2>2, <2>3
<1> QED
  BY <1>3, <1>4, <1>7, <1>8, <1>9 DEF Dispatch, DispatchError

\* A step that is not about delivery d: it rests, or is placed.
LEMMA DeliveryRests ==
  ASSUME UNCHANGED <<dStatus, dAttempts, dEvent>>, NEW d \in Deliveries,
         sends'[d] = sends[d], accepted'[d] = accepted[d]
  PROVE  Promises!DeliveryMove(d)
BY StateOf DEF Promises!DeliveryMove, Promises!Rests, Promises!SameCounts

LEMMA UndisturbedAnswers ==
  ASSUME NEW d \in Deliveries, Undisturbed(d), AnswerRule(d)
  PROVE  AnswerRule(d)' /\ (d \in Shaken => d \in Shaken')
BY DEF Undisturbed, AnswerRule, Shaken, Sending, SendStages

LEMMA DispatchMovesDeliveries ==
  ASSUME MsgInv, TodoRule, NEW w \in Workers, Dispatch(w) \/ DispatchError(w), NEW d \in Deliveries
  PROVE  Promises!DeliveryMove(d)
<1>1. Undisturbed(d)
  BY DispatchDisturbsNone
<1>2. \/ UNCHANGED deliveryVars
      \/ \E e \in Events, c \in Deliveries : e \in todo[w] /\ evKind[e] = "good" /\ Queued(e, c)
  BY HandlerLeft, QueueEmailCases
     DEF Dispatch, DispatchError, SelectEvents, DispatchDone, MarkDispatched, RecordDispatchError,
     RejectRecipient, QueueEvent, QueueEventRaises, RejectRaises, MarkDispatchedRaises, DispatchRaises, DbError,
     DbErrorThrown
<1>3. CASE UNCHANGED deliveryVars
  BY <1>1, <1>3, DeliveryRests DEF deliveryVars, Undisturbed
<1>4. ASSUME NEW e \in Events, NEW c \in Deliveries, e \in todo[w], evKind[e] = "good", Queued(e, c)
      PROVE  Promises!DeliveryMove(d)
  <2>1. /\ dStatus'[d] = IF d = c THEN "queued" ELSE dStatus[d]
        /\ dEvent'[d] = IF d = c THEN e ELSE dEvent[d]
        /\ dStatus[c] = "none" /\ \A b \in Deliveries : dEvent[b] # e
    BY <1>4 DEF Queued, Existing, MsgInv, MsgTypeOK
  <2>2. Promises!SameCounts(d)
    BY <1>1 DEF Undisturbed, Promises!SameCounts
  <2>3. CASE d # c
    BY <2>1, <2>2, <2>3, StateOf DEF Promises!DeliveryMove, Promises!Rests
  <2>4. CASE d = c
    <3>1. Stand[e] # "none" /\ e \in Events \ {x \in Events : evKind[x] = "invalid"}
      BY <1>4, StandOf DEF TodoRule, MsgInv, MsgTypeOK
    <3>2. State[d] = "none" /\ State'[d] = "open"
      BY <2>1, <2>4, StateOf
    <3> QED
      BY <2>1, <2>2, <2>4, <3>1, <3>2 DEF Promises!DeliveryMove, Promises!Place
  <2> QED
    BY <2>3, <2>4
<1> QED
  BY <1>2, <1>3, <1>4

\* While a delivery is not shaken, what was accepted is marked sent or about to
\* be, by the only one who is sending it.
LEMMA AcceptedIsHeld ==
  ASSUME MsgInv, NEW d \in Deliveries, ClaimRule(d), AcceptRule(d), d \notin Shaken, accepted[d] > 0
  PROVE  \/ dStatus[d] = "sent"
         \/ /\ dStatus[d] = "sending" /\ dAge[d] < ClaimTimeout
            /\ \E v \in Workers : /\ stage[v] = "accepted" /\ SendsOf(v, d)
                                  /\ \A u \in Workers : SendsOf(u, d) => u = v
<1>1. accepted[d] = 1
  BY DEF AcceptRule, Shaken, MsgInv, MsgTypeOK
<1> QED
  BY <1>1 DEF AcceptRule, ClaimRule, Shaken, SendsOf, Sending

\* The steps of processEmailDelivery for its own delivery.
LEMMA DeliverMoves ==
  ASSUME MsgInv, NEW w, NEW d, OwnStep(w, d), d = DeliveryOf(w), AllRules(d), AnswerRule(d),
         dEvent' = dEvent, Deliver(w) \/ DeliverError(w)
  PROVE  Promises!DeliveryMove(d) /\ AnswerRule(d)'
<1> USE DEF OwnStep, AllRules
<1>0. /\ State[d] = IF dStatus[d] \in {"queued", "sending"} THEN "open" ELSE dStatus[d]
      /\ State'[d] = IF dStatus'[d] \in {"queued", "sending"} THEN "open" ELSE dStatus'[d]
      /\ dEvent'[d] = dEvent[d] /\ dStatus[d] \in {"queued", "sending", "sent", "failed"}
      /\ DeliveryBudget \in Nat \ {0} /\ ClaimTimeout \in Nat \ {0}
  BY StateOf, MessagingAssumption DEF MsgInv, MsgTypeOK
<1>1. ASSUME stage'[w] \notin Sending, dAttempts'[d] = dAttempts[d], accepted'[d] = accepted[d]
      PROVE  AnswerRule(d)'
  BY <1>1 DEF AnswerRule, Sending
<1>2. CASE ClaimDelivery(w) \/ ClaimLost(w)
  <2>1. /\ stage[w] = "begin" /\ stage'[w] \in {"send", "idle"} /\ Claimable(d)
        /\ dStatus'[d] = "sending" /\ dAttempts'[d] = dAttempts[d] + 1
        /\ UNCHANGED <<sends, accepted>>
    BY <1>2 DEF ClaimDelivery, ClaimLost, DbErrorThrown, Throw, At, Goto, SetDelivery, sendHist,
       MsgInv, MsgTypeOK
  <2>2. accepted[d] > 0 => d \in Shaken
    BY <1>0, <2>1, AcceptedIsHeld DEF Claimable
  <2>3. Promises!Try(d)
    BY <1>0, <2>1, <2>2 DEF Promises!Try, Claimable, Shaken
  <2>4. AnswerRule(d)'
    BY <2>1 DEF AnswerRule
  <2> QED
    BY <2>3, <2>4 DEF Promises!DeliveryMove
<1>3. CASE \/ ClaimRefused(w) \/ FindSent(w) \/ FindTimedOut(w) \/ FindBusy(w)
           \/ FindSettled(w) \/ Audit(w) \/ DeliverRaises(w)
  <2>1. UNCHANGED <<deliveryVars, sends, accepted>> /\ stage'[w] \notin Sending
    BY <1>3, HandlerLeft DEF ClaimRefused, FindSent, FindTimedOut, FindBusy, FindSettled, Audit,
       DeliverRaises, DbErrorThrown, Refused, At, Goto, Sending, MsgInv, MsgTypeOK, sendHist
  <2> QED
    BY <1>1, <2>1, DeliveryRests DEF deliveryVars
<1>4. CASE Expire(w) \/ ExpireLost(w)
  <2>1. stage'[w] = "idle" /\ UNCHANGED <<sends, accepted, dAttempts>>
    BY <1>4, HandlerLeft DEF Expire, ExpireLost, DbErrorThrown, At, Goto, MsgInv, MsgTypeOK, sendHist, deliveryVars
  <2>2. CASE TimedOutForGood(w)
    <3>1. /\ dStatus[d] = "sending" /\ dAge[d] >= ClaimTimeout /\ dStatus'[d] = "failed"
          /\ dAttempts[d] >= DeliveryBudget
      BY <1>4, <2>2 DEF Expire, ExpireLost, TimedOutForGood, SetDelivery, MsgInv, MsgTypeOK
    <3>2. accepted[d] > 0 => d \in Shaken
      BY <1>0, <3>1, AcceptedIsHeld
    <3>3. Promises!GivenUp(d)
      BY <1>0, <2>1, <3>1, <3>2 DEF Promises!GivenUp, Promises!SameCounts, Shaken
    <3> QED
      BY <1>1, <2>1, <3>3 DEF Promises!DeliveryMove, Sending
  <2>3. CASE ~TimedOutForGood(w)
    <3>1. UNCHANGED deliveryVars
      BY <1>4, <2>3 DEF Expire, ExpireLost
    <3> QED
      BY <1>1, <2>1, <3>1, DeliveryRests DEF deliveryVars, Sending
  <2> QED
    BY <2>2, <2>3
<1>5. ASSUME NEW ok \in BOOLEAN, Send(w, ok)
      PROVE  Promises!DeliveryMove(d) /\ AnswerRule(d)'
  <2>1. /\ stage[w] = "send" /\ sends'[d] = sends[d] + 1
        /\ accepted'[d] = IF ok THEN accepted[d] + 1 ELSE accepted[d]
        /\ stage'[w] = IF ok THEN "accepted" ELSE "sendFailed"
        /\ UNCHANGED <<dStatus, dAttempts>>
    BY <1>5 DEF Send, At, Goto, MsgInv, MsgTypeOK, deliveryVars
  <2>2. sends[d] + 1 <= dAttempts[d]
    <3>1. w \in Senders(d)
      BY <2>1 DEF Senders
    <3>2. Cardinality(Senders(d)) > 0
      BY <3>1, SendersFinite, FS_EmptySet
    <3> QED
      BY <3>2, SendersFinite DEF SendRule
  <2>3. accepted[d] > 0 => d \in Shaken
    <3>1. SendsOf(w, d) /\ stage[w] # "accepted"
      BY <2>1 DEF SendsOf, Sending
    <3>2. dStatus[d] = "sent" => d \in Shaken
      BY <2>1, <3>1 DEF ClaimRule, Shaken
    <3> QED
      BY <3>1, <3>2, AcceptedIsHeld
  <2>4. Promises!Call(d)
    BY <1>0, <2>1, <2>2, <2>3 DEF Promises!Call, Promises!Counted, Shaken
  <2>5. AnswerRule(d)'
    BY <2>1 DEF AnswerRule, Sending
  <2> QED
    BY <2>4, <2>5 DEF Promises!DeliveryMove
<1>6. CASE MarkSent(w) \/ MarkSentRaises(w)
  <2>1. /\ stage[w] = "accepted" /\ stage'[w] \in {"audit", "sendFailed"}
        /\ UNCHANGED <<sends, accepted, dAttempts>>
        /\ UNCHANGED dStatus \/ dStatus'[d] = "sent"
    BY <1>6 DEF MarkSent, MarkSentRaises, At, Goto, SetDelivery, MsgInv, MsgTypeOK, sendHist,
       deliveryVars
  <2>2. accepted[d] > 0 /\ dAttempts[d] > 0
    BY <2>1 DEF AnswerRule, Sending
  <2>3. AnswerRule(d)'
    BY <2>1, <2>2 DEF AnswerRule
  <2>4. CASE UNCHANGED dStatus
    BY <2>1, <2>3, <2>4, DeliveryRests
  <2>5. CASE dStatus'[d] = "sent"
    BY <1>0, <2>1, <2>2, <2>3, <2>5
       DEF Promises!DeliveryMove, Promises!Sent, Promises!SameCounts
  <2> QED
    BY <2>1, <2>4, <2>5
<1>7. CASE MarkFailed(w)
  <2>1. /\ stage[w] = "sendFailed" /\ stage'[w] = "idle" /\ dStatus'[d] = "failed"
        /\ UNCHANGED <<sends, accepted, dAttempts>>
    BY <1>7 DEF MarkFailed, At, Throw, HandlerThrows, Goto, SetDelivery, MsgInv, MsgTypeOK, TypeOK,
       sendHist
  <2>2. accepted[d] > 0 => d \in Shaken
    <3>1. SendsOf(w, d) /\ stage[w] # "accepted"
      BY <2>1 DEF SendsOf, Sending
    <3>2. dStatus[d] = "sent" => d \in Shaken
      BY <2>1, <3>1 DEF ClaimRule, Shaken
    <3> QED
      BY <3>1, <3>2, AcceptedIsHeld
  <2>3. dAttempts[d] > 0
    BY <2>1 DEF AnswerRule, Sending
  <2>4. Promises!GivenUp(d)
    BY <1>0, <2>1, <2>2, <2>3 DEF Promises!GivenUp, Promises!SameCounts, Shaken
  <2> QED
    BY <1>1, <2>1, <2>4 DEF Promises!DeliveryMove, Sending
<1> QED
  BY <1>2, <1>3, <1>4, <1>5, <1>6, <1>7 DEF Deliver, DeliverError

LEMMA DeliveriesMove ==
  ASSUME MsgInv, SendRules, LedgerInv, [MsgNext]_allVars, NEW d \in Deliveries
  PROVE  Promises!DeliveryMove(d) /\ AnswerRule(d)' /\ (d \in Shaken => d \in Shaken')
<1>0. AllRules(d) /\ AnswerRule(d) /\ TodoRule /\ TypeOK'
  BY MsgInvStep DEF SendRules, AllRules, LedgerInv, MsgInv, MsgTypeOK
<1>1. ASSUME Undisturbed(d), UNCHANGED <<dStatus, dAttempts, dEvent>>
      PROVE  Promises!DeliveryMove(d) /\ AnswerRule(d)' /\ (d \in Shaken => d \in Shaken')
  BY <1>0, <1>1, DeliveryRests, UndisturbedAnswers DEF Undisturbed
<1>2. ASSUME NEW w \in Workers, Begin(w) \/ Loop(w) \/ Die(w)
      PROVE  Promises!DeliveryMove(d) /\ AnswerRule(d)' /\ (d \in Shaken => d \in Shaken')
  BY <1>1, <1>2, LoopDisturbsNone, LoopKeepsStages DEF deliveryVars
<1>3. ASSUME NEW w \in Workers, Dispatch(w) \/ DispatchError(w)
      PROVE  Promises!DeliveryMove(d) /\ AnswerRule(d)' /\ (d \in Shaken => d \in Shaken')
  BY <1>0, <1>3, DispatchMovesDeliveries, DispatchDisturbsNone, UndisturbedAnswers
<1>4. ASSUME NEW w \in Workers, (Deliver(w) /\ errors' = errors) \/ DeliverError(w)
      PROVE  Promises!DeliveryMove(d) /\ AnswerRule(d)' /\ (d \in Shaken => d \in Shaken')
  <2>1. OnlyDelivery(w, DeliveryOf(w)) /\ OwnStep(w, DeliveryOf(w))
    BY <1>0, <1>4, DeliverFrame, DeliverIsOwn
  <2>2. CASE d = DeliveryOf(w)
    <3>1. Promises!DeliveryMove(d) /\ AnswerRule(d)'
      BY <1>0, <1>4, <2>1, <2>2, DeliverMoves DEF OnlyDelivery
    <3> QED
      BY <2>1, <3>1 DEF OnlyDelivery, Shaken
  <2>3. CASE d # DeliveryOf(w)
    <3>1. Undisturbed(d)
      BY <1>0, <1>4, <2>3, DeliverDisturbsNoOther
    <3>2. Promises!Rests(d)
      BY <2>1, <2>3, StateOf DEF OnlyDelivery, Promises!Rests, Promises!SameCounts
    <3> QED
      BY <1>0, <3>1, <3>2, UndisturbedAnswers DEF Promises!DeliveryMove
  <2> QED
    BY <2>2, <2>3
<1>5. CASE (\E e \in Events, k \in Kinds : Emit(e, k)) \/ UNCHANGED allVars
  BY <1>1, <1>5, QuietDisturbsNone DEF Emit, allVars, msgVars, deliveryVars
<1>6. CASE MsgTick
  <2>1. /\ UNCHANGED <<held, stage, dStatus, dAttempts, dEvent, sends, accepted, doubt>>
        /\ slow \subseteq slow'
    BY <1>6 DEF MsgTick, Tick
  <2> QED
    BY <1>0, <2>1, DeliveryRests DEF AnswerRule, Shaken
<1> QED
  BY <1>2, <1>3, <1>4, <1>5, <1>6 DEF MsgNext

LEMMA EventsMove ==
  ASSUME MsgInv, TodoRule, [MsgNext]_allVars
  PROVE  (\A e \in Events : Promises!EventMove(e)) /\ TodoRule'
<1>0. TypeOK'
  BY MsgInvStep DEF MsgInv, MsgTypeOK
<1>1. ASSUME UNCHANGED eventVars,
             \A v \in Workers : todo'[v] \subseteq todo[v] /\ cur'[v] \in {cur[v], NoEvent}
      PROVE  (\A e \in Events : Promises!EventMove(e)) /\ TodoRule'
  BY <1>1, EventsWait DEF eventVars, TodoRule
<1>2. ASSUME NEW w \in Workers, Begin(w) \/ Loop(w) \/ Die(w)
      PROVE  (\A e \in Events : Promises!EventMove(e)) /\ TodoRule'
  <2>1. \A v \in Workers : todo'[v] \subseteq todo[v] /\ cur'[v] \in {cur[v], NoEvent}
    BY <1>2 DEF Begin, Loop, Die, msgVars, MsgInv, MsgTypeOK
  <2> QED
    BY <1>1, <1>2, <2>1, LoopKeepsStages
<1>3. ASSUME NEW w \in Workers, Dispatch(w) \/ DispatchError(w)
      PROVE  (\A e \in Events : Promises!EventMove(e)) /\ TodoRule'
  BY <1>3, DispatchMovesEvents
<1>4. ASSUME NEW w \in Workers, (Deliver(w) /\ errors' = errors) \/ DeliverError(w)
      PROVE  (\A e \in Events : Promises!EventMove(e)) /\ TodoRule'
  BY <1>0, <1>1, <1>4, DeliverFrame DEF OnlyDelivery
<1>5. ASSUME NEW x \in Events, NEW k \in Kinds, Emit(x, k)
      PROVE  (\A e \in Events : Promises!EventMove(e)) /\ TodoRule'
  <2>1. /\ evStatus \in [Events -> {"none", "queued", "dispatched", "failed"}]
        /\ evKind \in [Events -> Kinds]
    BY DEF MsgInv, MsgTypeOK
  <2>2. ASSUME NEW e \in Events
        PROVE  Promises!EventMove(e) /\ (evStatus'[e] = "none" => evStatus[e] = "none")
    <3>1. CASE e = x
      BY <1>5, <2>1, <3>1, StandOf DEF Emit, Promises!EventMove, Promises!Emitted
    <3>2. CASE e # x
      BY <1>5, <2>1, <3>2, StandOf DEF Emit, Promises!EventMove, Promises!Waits
    <3> QED
      BY <3>1, <3>2
  <2>3. UNCHANGED <<todo, cur>>
    BY <1>5 DEF Emit
  <2>4. todo \in [Workers -> SUBSET Events] /\ cur \in [Workers -> Events \cup {NoEvent}]
    BY DEF MsgInv, MsgTypeOK
  <2> QED
    BY <2>2, <2>3, <2>4 DEF TodoRule
<1>6. CASE MsgTick
  <2>1. /\ UNCHANGED <<evStatus, evAttempts, evKind, todo, cur>>
    BY <1>6 DEF MsgTick
  <2> QED
    BY <2>1, StandOf DEF TodoRule, Promises!EventMove, Promises!Waits
<1>7. CASE UNCHANGED allVars
  BY <1>1, <1>7 DEF allVars, msgVars
<1> QED
  BY <1>2, <1>3, <1>4, <1>5, <1>6, <1>7 DEF MsgNext

\* The messaging service implements the ledger of promises: an event is placed
\* once and not tried for ever, and what the provider accepted is not sent again,
\* given up or lost sight of, whatever workers, jobs and statements fail, unless
\* its delivery is one that MessageLedger calls shaken.
THEOREM MessagingKeepsPromises == MsgSpec => PromiseSpec
<1>1. MsgInit => Promises!Init /\ LedgerInv
  <2> SUFFICES ASSUME MsgInit PROVE Promises!Init /\ LedgerInv
    OBVIOUS
  <2>1. LedgerInv
    BY MessagingAssumption DEF MsgInit, LedgerInv, TodoRule, AnswerRule, Sending
  <2>2. Promises!Init
    BY DEF MsgInit, Promises!Init, Stand, State
  <2> QED
    BY <2>1, <2>2
<1>2. MsgInv /\ SendRules /\ LedgerInv /\ [MsgNext]_allVars => LedgerInv' /\ [Promises!Next]_(Promises!mvars)
  <2> SUFFICES ASSUME MsgInv, SendRules, LedgerInv, [MsgNext]_allVars
               PROVE  LedgerInv' /\ Promises!Next
    OBVIOUS
  <2>1. (\A e \in Events : Promises!EventMove(e)) /\ TodoRule'
    BY EventsMove DEF LedgerInv
  <2>2. \A d \in Deliveries : Promises!DeliveryMove(d) /\ AnswerRule(d)' /\ (d \in Shaken => d \in Shaken')
    BY DeliveriesMove
  <2>3. Shaken \subseteq Shaken'
    BY <2>2 DEF Shaken, MsgInv, MsgTypeOK
  <2> QED
    BY <2>1, <2>2, <2>3 DEF LedgerInv, Promises!Next, Shaken
<1> QED
  BY <1>1, <1>2, MessagingInvariant, SendInvariant, PTL DEF MsgSpec, PromiseSpec, Promises!Spec

=============================================================================
