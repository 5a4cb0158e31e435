----------------------------- MODULE MCJobQueue -----------------------------
(* Small instances of JobQueue for TLC.                                    *)
EXTENDS JobQueue, TLC

CONSTANTS mail, beat, beat2, hourly, w1, w2

Default == "default"

\* One queue; mail outranks the beats, which are what the
\* schedule inserts.
MCQueueOf == [j \in Jobs |-> Default]
MCServedBy == [w \in Workers |-> Default]
MCPriority == [j \in Jobs |-> IF j = mail THEN 1 ELSE 0]
MCCronIds == [s \in Schedules |-> {beat, beat2} \cap Jobs]
MCInterval == [s \in Schedules |-> 2]

\* A worker dies or stops, or an answer of completeJob is lost.
MCNext == Next /\ downs' + faults' <= 1
MCSpec == Init /\ [][MCNext]_vars

Symmetry == Permutations(Workers)
=============================================================================
