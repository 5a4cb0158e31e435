------------------------------ MODULE JobQueue ------------------------------
(***************************************************************************)
(* The background-job table, the cron schedules and the workers that serve *)
(* them (packages/jobs/src/index.ts, worker.ts).                           *)
(*                                                                         *)
(* Every column of background_jobs that a guard reads is a variable.  One  *)
(* action is one database transaction, one autocommitted statement or one  *)
(* step of a worker's loop between two of them.  Time is relative: due[j]  *)
(* is available_at - now, age[j] is now - locked_at and nextIn[s] is       *)
(* next_run_at - now, up to what their comparisons tell apart.             *)
(*                                                                         *)
(* materializeDueCronJobs, claimNextJob and failJob read their clock       *)
(* before they wait for the lock on the tables: the reading a transaction  *)
(* compares and writes is lag old, for some lag in Lags.                   *)
(***************************************************************************)
EXTENDS Integers, FiniteSets

CONSTANTS
  Jobs, Workers, Schedules,  \* row ids of background_jobs, workers, cron rows
  NoWorker, NoJob,
  QueueOf,      \* the queue column of a job
  ServedBy,     \* the queue a worker was started for
  Priority,     \* the priority column of a job
  Handled,      \* the jobs whose type has a registered handler
  CronIds,      \* for each schedule, the ids of the jobs it will insert
  Budgets,      \* the max_attempts producers ask for
  Delays,       \* the availableAt - now producers ask for
  CronBudget,   \* max_attempts of a materialised job
  Interval,     \* interval_seconds of a schedule
  StaleAfter,   \* staleAfterSeconds
  RetryDelay,   \* retryDelaySeconds
  OverdueCap,   \* bound: jobs overdue by more than this compare as equal
  MaxLag,       \* bound: how old a reading of the clock is when it is used
  MaxDowns,     \* bound: how often workers crash or are stopped
  MaxFaults     \* bound: how often completeJob raises

Lags == 0..MaxLag
CronJobs == UNION {CronIds[s] : s \in Schedules}

ASSUME ConstantsAssumption ==
  /\ IsFiniteSet(Workers) /\ NoWorker \notin Workers /\ NoJob \notin Jobs
  /\ Handled \subseteq Jobs
  /\ Priority \in [Jobs -> Int]
  /\ CronIds \in [Schedules -> SUBSET Jobs]
  /\ \A r, s \in Schedules : r # s => CronIds[r] \cap CronIds[s] = {}
  /\ Budgets \subseteq Nat \ {0} /\ CronBudget \in Nat \ {0}
  /\ Delays \subseteq Nat
  /\ Interval \in [Schedules -> Nat \ {0}]
  /\ StaleAfter \in Nat \ {0} /\ RetryDelay \in Nat
  /\ OverdueCap \in Nat /\ MaxLag \in Nat /\ MaxDowns \in Nat /\ MaxFaults \in Nat

VARIABLES
  status, attempts, maxAttempts, due, age, owner,  \* background_jobs
  known, nextIn,                                   \* cron_schedules
  pc, held,                                        \* the workers
  starts,     \* history: how often the handler of a job was invoked
  succeeded,  \* history: jobs one of whose handler runs returned normally
  overrun,    \* history: jobs some worker held StaleAfter or more past locked_at
  unacked,    \* history: jobs completed by a call whose answer was lost
  sinceRun,   \* history: time since the created_at of a schedule's last job, capped
  downs, faults                                    \* bounded fault counters

rowVars   == <<status, attempts, maxAttempts, due, age, owner>>
cronVars  == <<known, nextIn, sinceRun>>
histVars  == <<starts, succeeded, overrun, unacked>>
faultVars == <<downs, faults>>
vars == <<rowVars, cronVars, pc, held, histVars, faultVars>>

Statuses == {"absent", "queued", "running", "completed", "failed"}
Pcs == {"down", "poll", "claim", "claimed", "handling", "completing", "failing"}

TypeOK ==
  /\ status \in [Jobs -> Statuses]
  /\ attempts \in [Jobs -> Nat] /\ maxAttempts \in [Jobs -> Nat]
  /\ due \in [Jobs -> Int]
  /\ age \in [Jobs -> Nat]
  /\ owner \in [Jobs -> Workers \cup {NoWorker}]
  /\ known \in [Schedules -> BOOLEAN] /\ nextIn \in [Schedules -> Int]
  /\ sinceRun \in [Schedules -> Int]
  /\ pc \in [Workers -> Pcs] /\ held \in [Workers -> Jobs \cup {NoJob}]
  /\ starts \in [Jobs -> Nat]
  /\ succeeded \subseteq Jobs /\ overrun \subseteq Jobs /\ unacked \subseteq Jobs
  /\ downs \in 0..MaxDowns /\ faults \in 0..MaxFaults

-----------------------------------------------------------------------------
Init ==
  /\ status = [j \in Jobs |-> "absent"]
  /\ attempts = [j \in Jobs |-> 0] /\ maxAttempts = [j \in Jobs |-> 0]
  /\ due = [j \in Jobs |-> 0] /\ age = [j \in Jobs |-> 0]
  /\ owner = [j \in Jobs |-> NoWorker]
  /\ known = [s \in Schedules |-> FALSE]
  /\ nextIn = [s \in Schedules |-> 0] /\ sinceRun = [s \in Schedules |-> Interval[s]]
  /\ pc = [w \in Workers |-> "down"] /\ held = [w \in Workers |-> NoJob]
  /\ starts = [j \in Jobs |-> 0]
  /\ succeeded = {} /\ overrun = {} /\ unacked = {}
  /\ downs = 0 /\ faults = 0

\* INSERT INTO background_jobs: the rows S are queued with no attempt made.
Insert(S, budget, delay) ==
  /\ status' = [j \in Jobs |-> IF j \in S THEN "queued" ELSE status[j]]
  /\ attempts' = [j \in Jobs |-> IF j \in S THEN 0 ELSE attempts[j]]
  /\ maxAttempts' = [j \in Jobs |-> IF j \in S THEN budget ELSE maxAttempts[j]]
  /\ due' = [j \in Jobs |-> IF j \in S THEN delay ELSE due[j]]
  /\ UNCHANGED <<age, owner>>

\* enqueueJob: a producer outside the workers inserts one row.
Enqueue(j, budget, delay) ==
  /\ status[j] = "absent" /\ j \notin CronJobs
  /\ Insert({j}, budget, delay)
  /\ UNCHANGED <<cronVars, pc, held, histVars, faultVars>>

-----------------------------------------------------------------------------
\* Mutant of Register: re-registering makes the schedule due at once.
RegisterResetting ==
  /\ known' = [s \in Schedules |-> TRUE]
  /\ nextIn' = [s \in Schedules |-> 0]
  /\ UNCHANGED sinceRun

\* worker.ts start-up: every schedule is upserted by registerCronSchedule with
\* no explicit next run, so a row that exists keeps its next_run_at.
Register ==
  /\ known' = [s \in Schedules |-> TRUE]
  /\ nextIn' = [s \in Schedules |-> IF known[s] THEN nextIn[s] ELSE 0]
  /\ UNCHANGED sinceRun

Start(w) ==
  /\ pc[w] = "down"
  /\ Register
  /\ pc' = [pc EXCEPT ![w] = "poll"]
  /\ UNCHANGED <<rowVars, held, histVars, faultVars>>

\* The schedules materializeDueCronJobs selects.  A schedule whose finite
\* supply of ids is used up no longer fires (a bound of the model).
Spare(s) == {j \in CronIds[s] : status[j] = "absent"}
DueSchedules(lag) == {s \in Schedules : known[s] /\ nextIn[s] + lag <= 0 /\ Spare(s) # {}}
NewJob(s) == CHOOSE j \in Spare(s) : TRUE

\* materializeDueCronJobs: one transaction under the exclusive table locks.
Materialize(w) ==
  /\ pc[w] = "poll"
  /\ \E lag \in Lags :
       /\ Insert({NewJob(s) : s \in DueSchedules(lag)}, CronBudget, -lag)
       /\ nextIn' = [s \in Schedules |->
                       IF s \in DueSchedules(lag) THEN Interval[s] - lag ELSE nextIn[s]]
       /\ sinceRun' = [s \in Schedules |-> IF s \in DueSchedules(lag) THEN lag ELSE sinceRun[s]]
  /\ pc' = [pc EXCEPT ![w] = "claim"]
  /\ UNCHANGED <<known, held, histVars, faultVars>>

-----------------------------------------------------------------------------
\* Mutant of Stale: the lock age is not looked at.
StaleAtOnce(q, lag) == {j \in Jobs : QueueOf[j] = q /\ status[j] = "running"}

\* reclaimStaleJobs: what the two UPDATEs make of the rows of queue q.
Stale(q, lag) == {j \in Jobs : /\ QueueOf[j] = q /\ status[j] = "running"
                          /\ age[j] - lag >= StaleAfter}
Requeued(q, lag) == {j \in Stale(q, lag) : attempts[j] < maxAttempts[j]}
Exhausted(q, lag) == {j \in Stale(q, lag) : attempts[j] >= maxAttempts[j]}

\* Mutant of StatusAfterReclaim: the second UPDATE is missing.
StatusAfterRequeueOnly(q, lag) ==
  [j \in Jobs |-> IF j \in Requeued(q, lag) THEN "queued" ELSE status[j]]

StatusAfterReclaim(q, lag) ==
  [j \in Jobs |-> IF j \in Requeued(q, lag) THEN "queued"
                  ELSE IF j \in Exhausted(q, lag) THEN "failed" ELSE status[j]]
DueAfterReclaim(q, lag) == [j \in Jobs |-> IF j \in Stale(q, lag) THEN -lag ELSE due[j]]
AgeAfterReclaim(q, lag) == [j \in Jobs |-> IF j \in Stale(q, lag) THEN 0 ELSE age[j]]
OwnerAfterReclaim(q, lag) == [j \in Jobs |-> IF j \in Stale(q, lag) THEN NoWorker ELSE owner[j]]

\* The rows the SELECT of claimNextJob may return: ORDER BY priority DESC,
\* available_at ASC; ties are left open.
Ready(q, lag) == {j \in Jobs : /\ QueueOf[j] = q
                          /\ StatusAfterReclaim(q, lag)[j] = "queued"
                          /\ DueAfterReclaim(q, lag)[j] <= 0}
Front(q, lag) ==
  {j \in Ready(q, lag) : \A k \in Ready(q, lag) :
     \/ Priority[j] > Priority[k]
     \/ /\ Priority[j] = Priority[k]
        /\ DueAfterReclaim(q, lag)[j] <= DueAfterReclaim(q, lag)[k]}

\* claimNextJob when no job is ready: the reclaim still happens.
ClaimNothing(w, lag) ==
  LET q == ServedBy[w] IN
  /\ pc[w] = "claim"
  /\ Ready(q, lag) = {}
  /\ status' = StatusAfterReclaim(q, lag) /\ due' = DueAfterReclaim(q, lag)
  /\ age' = AgeAfterReclaim(q, lag) /\ owner' = OwnerAfterReclaim(q, lag)
  /\ pc' = [pc EXCEPT ![w] = "poll"]
  /\ UNCHANGED <<attempts, maxAttempts, cronVars, held, histVars, faultVars>>

\* claimNextJob: reclaim, then lock job j for worker w.  (The available_at of a
\* running row is never read: due[j] counts from 0 again when it is written.)
ClaimJob(w, j, lag) ==
  LET q == ServedBy[w] IN
  /\ pc[w] = "claim"
  /\ j \in Front(q, lag)
  /\ status' = [StatusAfterReclaim(q, lag) EXCEPT ![j] = "running"]
  /\ attempts' = [attempts EXCEPT ![j] = @ + 1]
  /\ due' = [DueAfterReclaim(q, lag) EXCEPT ![j] = 0]
  /\ age' = [AgeAfterReclaim(q, lag) EXCEPT ![j] = lag]
  /\ owner' = [OwnerAfterReclaim(q, lag) EXCEPT ![j] = w]
  /\ pc' = [pc EXCEPT ![w] = "claimed"]
  /\ held' = [held EXCEPT ![w] = j]
  /\ overrun' = IF lag >= StaleAfter THEN overrun \cup {j} ELSE overrun
  /\ UNCHANGED <<maxAttempts, cronVars, starts, succeeded, unacked, faultVars>>

-----------------------------------------------------------------------------
\* Mutant of CallHandler: the job is acknowledged before the handler runs.
CallHandlerAcknowledged(w) ==
  /\ pc[w] = "claimed" /\ held[w] \in Handled
  /\ status' = [status EXCEPT ![held[w]] = "completed"]
  /\ starts' = [starts EXCEPT ![held[w]] = @ + 1]
  /\ pc' = [pc EXCEPT ![w] = "handling"]
  /\ UNCHANGED <<attempts, maxAttempts, due, age, owner, cronVars, held, succeeded,
                 overrun, unacked, faultVars>>

\* runWorkerOnce after the claim: look the handler up and call it.
CallHandler(w) ==
  /\ pc[w] = "claimed" /\ held[w] \in Handled
  /\ starts' = [starts EXCEPT ![held[w]] = @ + 1]
  /\ pc' = [pc EXCEPT ![w] = "handling"]
  /\ UNCHANGED <<rowVars, cronVars, held, succeeded, overrun, unacked, faultVars>>

NoHandler(w) ==
  /\ pc[w] = "claimed" /\ held[w] \notin Handled
  /\ pc' = [pc EXCEPT ![w] = "failing"]
  /\ UNCHANGED <<rowVars, cronVars, held, histVars, faultVars>>

HandlerReturns(w) ==
  /\ pc[w] = "handling"
  /\ succeeded' = succeeded \cup {held[w]}
  /\ pc' = [pc EXCEPT ![w] = "completing"]
  /\ UNCHANGED <<rowVars, cronVars, held, starts, overrun, unacked, faultVars>>

\* Mutant of HandlerThrows: the error of a handler is swallowed.
HandlerThrowsUnseen(w) ==
  /\ pc[w] = "handling"
  /\ pc' = [pc EXCEPT ![w] = "completing"]
  /\ UNCHANGED <<rowVars, cronVars, held, histVars, faultVars>>

HandlerThrows(w) ==
  /\ pc[w] = "handling"
  /\ pc' = [pc EXCEPT ![w] = "failing"]
  /\ UNCHANGED <<rowVars, cronVars, held, histVars, faultVars>>

\* The UPDATE of completeJob: by id alone, whatever the row now says.
MarkCompleted(j) ==
  /\ status' = [status EXCEPT ![j] = "completed"]
  /\ age' = [age EXCEPT ![j] = 0] /\ owner' = [owner EXCEPT ![j] = NoWorker]
  /\ UNCHANGED <<attempts, maxAttempts, due>>

LoopAgain(w) ==
  /\ pc' = [pc EXCEPT ![w] = "poll"]
  /\ held' = [held EXCEPT ![w] = NoJob]

Complete(w) ==
  /\ pc[w] = "completing"
  /\ MarkCompleted(held[w])
  /\ LoopAgain(w)
  /\ UNCHANGED <<cronVars, histVars, faultVars>>

\* completeJob raises inside the try block, before or after its statement took
\* effect: the catch block goes on to failJob.
CompleteRaises(w) ==
  /\ pc[w] = "completing" /\ faults < MaxFaults
  /\ \/ UNCHANGED <<rowVars, unacked>>
     \/ MarkCompleted(held[w]) /\ unacked' = unacked \cup {held[w]}
  /\ faults' = faults + 1
  /\ pc' = [pc EXCEPT ![w] = "failing"]
  /\ UNCHANGED <<cronVars, held, starts, succeeded, overrun, downs>>

\* What failJob makes of the row of job j, given whether it is to be retried.
SetFailed(j, retry, lag) ==
  /\ status' = [status EXCEPT ![j] = IF retry THEN "queued" ELSE "failed"]
  /\ due' = [due EXCEPT ![j] = IF retry THEN RetryDelay - lag ELSE 0]
  /\ age' = [age EXCEPT ![j] = 0] /\ owner' = [owner EXCEPT ![j] = NoWorker]
  /\ UNCHANGED <<attempts, maxAttempts>>

\* Mutants of MayRetry: an attempt too many; no retry at all.
MayRetryOnceMore(j) == attempts[j] <= maxAttempts[j]
MayRetryNever(j) == FALSE

MayRetry(j) == attempts[j] < maxAttempts[j]

\* failJob: retry after a delay while attempts are left, whatever the status.
Fail(w) ==
  /\ pc[w] = "failing"
  /\ \E lag \in Lags : SetFailed(held[w], MayRetry(held[w]), lag)
  /\ LoopAgain(w)
  /\ UNCHANGED <<cronVars, histVars, faultVars>>

-----------------------------------------------------------------------------
\* The process dies: killed, or an error of materialize, claim or failJob
\* escapes runWorker.
Crash(w) ==
  /\ pc[w] \notin {"down", "poll"} /\ downs < MaxDowns
  /\ pc' = [pc EXCEPT ![w] = "down"]
  /\ held' = [held EXCEPT ![w] = NoJob]
  /\ downs' = downs + 1
  /\ UNCHANGED <<rowVars, cronVars, histVars, faults>>

\* The while loop of runWorker ends: the signal is looked at between two jobs.
Quit(w) ==
  /\ pc[w] = "poll" /\ downs < MaxDowns
  /\ pc' = [pc EXCEPT ![w] = "down"]
  /\ downs' = downs + 1
  /\ UNCHANGED <<rowVars, cronVars, held, histVars, faults>>

\* One unit of time passes.  Only a queued row's available_at and a running
\* row's locked_at are ever compared with the clock.
Tick ==
  /\ due' = [j \in Jobs |-> IF status[j] = "queued" /\ due[j] > -(OverdueCap + MaxLag)
                            THEN due[j] - 1 ELSE due[j]]
  /\ age' = [j \in Jobs |-> IF status[j] = "running" /\ age[j] < StaleAfter + MaxLag
                            THEN age[j] + 1 ELSE age[j]]
  /\ overrun' = overrun \cup {j \in Jobs : /\ status[j] = "running"
                                           /\ age[j] + 1 >= StaleAfter
                                           /\ \E w \in Workers : held[w] = j}
  /\ nextIn' = [s \in Schedules |-> IF known[s] /\ nextIn[s] > -MaxLag
                                    THEN nextIn[s] - 1 ELSE nextIn[s]]
  /\ sinceRun' = [s \in Schedules |-> IF sinceRun[s] < Interval[s] + MaxLag
                                      THEN sinceRun[s] + 1 ELSE sinceRun[s]]
  /\ UNCHANGED <<status, attempts, maxAttempts, owner, known, pc, held, starts,
                 succeeded, unacked, faultVars>>

-----------------------------------------------------------------------------
Claim(w) == \E lag \in Lags : ClaimNothing(w, lag) \/ \E j \in Jobs : ClaimJob(w, j, lag)
Handle(w) == CallHandler(w) \/ NoHandler(w) \/ HandlerReturns(w) \/ HandlerThrows(w)
WorkerStep(w) ==
  Start(w) \/ Materialize(w) \/ Claim(w) \/ Handle(w) \/ Complete(w) \/ Fail(w)
Fault(w) == Crash(w) \/ Quit(w) \/ CompleteRaises(w)

Next ==
  \/ \E j \in Jobs, b \in Budgets, d \in Delays : Enqueue(j, b, d)
  \/ \E w \in Workers : WorkerStep(w) \/ Fault(w)
  \/ Tick

Spec == Init /\ [][Next]_vars

\* Workers are restarted and never stop between two statements for ever, their
\* handlers return or throw, and time passes.
Fairness == WF_vars(Tick) /\ \A w \in Workers : WF_vars(WorkerStep(w))
FairSpec == Spec /\ Fairness

-----------------------------------------------------------------------------
\* Late answers of workers that lost their lease, retries and crashes together
\* never start the handler of a job more often than its max_attempts; a queued
\* job has an attempt left and a failed one has none (claimNextJob, failJob,
\* reclaimStaleJobs).
AttemptBudget ==
  \A j \in Jobs :
    /\ starts[j] <= attempts[j] /\ attempts[j] <= maxAttempts[j]
    /\ status[j] = "queued" => attempts[j] < maxAttempts[j]
    /\ status[j] = "failed" => attempts[j] = maxAttempts[j]

\* Two workers are at work on the same job only after one of them held it for
\* staleAfterSeconds: claimNextJob gives a job away no earlier.
LeaseExclusion ==
  \A v, w \in Workers :
    v # w /\ held[v] = held[w] /\ held[v] # NoJob => held[v] \in overrun

\* A row says completed only if a handler run of that job returned without an
\* error, even when the row is completed by a worker that lost its lease.
CompletedMeansHandled ==
  \A j \in Jobs : status[j] = "completed" => j \in succeeded

\* completeJob and failJob update by id alone, yet a completed or failed job is
\* only reopened when a worker overran its lease on it or the answer of
\* completeJob was lost.
SettledStays ==
  [][\A j \in Jobs :
       /\ status[j] \in {"completed", "failed"}
       /\ j \notin overrun \cup unacked
       => status'[j] = status[j]]_vars

\* Two workers materialising at the same time, and workers that restart and
\* register their schedules again, never insert two jobs of a schedule whose
\* created_at are less than its interval apart, however long they waited for
\* the lock.  (sinceRun' is the age of the created_at that is written.)
CronCadence ==
  [][\A s \in Schedules :
       (\E j \in CronIds[s] : status[j] = "absent" /\ status'[j] = "queued")
       => sinceRun[s] - sinceRun'[s] >= Interval[s]]_vars

\* Whatever crashes, overruns and late answers happen, in the end every job that
\* was ever inserted is completed or failed and stays so.
QueueDrains ==
  <>[](\A j \in Jobs : status[j] \in {"absent", "completed", "failed"})

\* The queue seen as a ledger of promises.
Phase == [j \in Jobs |-> IF status[j] = "absent" THEN "none"
                         ELSE IF status[j] = "completed" THEN "done"
                         ELSE IF status[j] = "failed" THEN "dead" ELSE "open"]
Ledger == INSTANCE JobLedger WITH
  phase <- Phase, budget <- maxAttempts, grants <- attempts, wins <- succeeded

\* Every behaviour of the queue, faults included, is one of the ledger: the
\* retries, reclaims and late updates never break what is promised of a job.
LedgerSpec == Ledger!Spec

=============================================================================
