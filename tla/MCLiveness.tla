------------------------------ MODULE MCLiveness ------------------------------
(* Small fair instances of JobQueue and of StorageFiles for TLC.  They share *)
(* no state, so a behaviour is about one of them, and so is its fairness.    *)
EXTENDS StorageFiles, TLC

CONSTANTS photo, blob, p1, p2, mail, orphan, hourly,
  Jobs, Workers, Schedules, NoWorker, NoJob, Handled, Budgets, Delays, CronBudget, StaleAfter,
  RetryDelay, OverdueCap, MaxLag, MaxDowns

\* A photo has variants, a blob has none; both fit, but not with the variants.
MCBytes == [f \in Files |-> 2]
MCVariantBytes == [f \in Files |-> IF f = photo THEN 1 ELSE 0]

VARIABLES
  status, attempts, maxAttempts, due, age, owner, known, nextIn, pc, held, starts, succeeded,
  overrun, unacked, sinceRun, downs, jobFaults,
  about

\* One queue; mail outranks the job without a handler; the schedule inserts none.
Queue == INSTANCE JobQueue WITH
  faults <- jobFaults,
  QueueOf <- [j \in Jobs |-> "default"], ServedBy <- [w \in Workers |-> "default"],
  Priority <- [j \in Jobs |-> IF j = mail THEN 1 ELSE 0],
  CronIds <- [s \in Schedules |-> {}], Interval <- [s \in Schedules |-> 2],
  MaxFaults <- 1

queueVars == <<status, attempts, maxAttempts, due, age, owner, known, nextIn, pc, held, starts,
               succeeded, overrun, unacked, sinceRun, downs, jobFaults>>
MCInit == Init /\ Queue!Init /\ about \in {"queue", "files"}
OfQueue(A) == about = "queue" /\ A /\ UNCHANGED <<vars, about>>
OfFiles(A) == about = "files" /\ A /\ UNCHANGED <<queueVars, about>>
all == <<vars, queueVars, about>>
MCSpec ==
  /\ MCInit
  /\ [][OfQueue(Queue!Next) \/ OfFiles(Next) \/ (about = "files" /\ UNCHANGED all)]_all
  /\ WF_all(OfQueue(Queue!Tick)) /\ \A w \in Workers : WF_all(OfQueue(Queue!WorkerStep(w)))
  /\ \A f \in Files : WF_all(OfFiles(Expire(f)))
  /\ \A p \in Procs : WF_all(OfFiles(Work(p)))
  /\ WF_all(OfFiles(\E p \in Procs : StartPass(p, "expire", Selected("expire"))))

QueueDrains == Queue!QueueDrains
=============================================================================
