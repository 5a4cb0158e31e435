----------------------------- MODULE JobLedger ------------------------------
(***************************************************************************)
(* What the job queue promises of a job, whoever works on it: it is        *)
(* granted to a worker at most budget times; it is closed as done only     *)
(* after a run of it succeeded and as dead only when every grant is used;  *)
(* a job that was closed comes back only while a grant is left.            *)
(***************************************************************************)
EXTENDS Integers

CONSTANT Jobs

VARIABLES phase, budget, grants, wins

lvars == <<phase, budget, grants, wins>>

Init ==
  /\ phase = [j \in Jobs |-> "none"] /\ budget = [j \in Jobs |-> 0]
  /\ grants = [j \in Jobs |-> 0] /\ wins = {}

\* One move per job; the moves of different jobs may fall in the same step.
Same(j) == /\ phase'[j] = phase[j] /\ budget'[j] = budget[j]
           /\ grants'[j] = grants[j]

Submit(j) == /\ phase[j] = "none" /\ phase'[j] = "open"
             /\ budget'[j] > 0 /\ grants'[j] = 0

Grant(j) == /\ phase[j] = "open" /\ phase'[j] = "open"
            /\ grants[j] < budget[j] /\ grants'[j] = grants[j] + 1
            /\ budget'[j] = budget[j]

Close(j) == /\ phase[j] # "none" /\ phase'[j] = "done"
            /\ j \in wins
            /\ budget'[j] = budget[j] /\ grants'[j] = grants[j]

Die(j) == /\ phase[j] # "none" /\ phase'[j] = "dead"
          /\ grants[j] = budget[j]
          /\ budget'[j] = budget[j] /\ grants'[j] = grants[j]

Reopen(j) == /\ phase[j] = "done" /\ phase'[j] = "open"
             /\ grants[j] < budget[j]
             /\ budget'[j] = budget[j] /\ grants'[j] = grants[j]

\* A run of j succeeds: j was granted before.
NewWins == /\ wins \subseteq wins'
           /\ \A j \in wins' \ wins : grants[j] > 0

Next ==
  /\ \A j \in Jobs : Same(j) \/ Submit(j) \/ Grant(j) \/ Close(j) \/ Die(j) \/ Reopen(j)
  /\ NewWins

Spec == Init /\ [][Next]_lvars

=============================================================================
