---------------------------- MODULE MCMessaging -----------------------------
(* Small instances of Messaging for TLC.                                   *)
EXTENDS Messaging, TLC

CONSTANTS send1, send2, dispatch, outbox, d1, d2, w1, w2, good

MCQueueOf == [j \in Jobs |-> "default"]
MCServedBy == [w \in Workers |-> "default"]
MCPriority == [j \in Jobs |-> 0]
MCCronIds == [s \in Schedules |-> {dispatch}]
MCInterval == [s \in Schedules |-> 1]
MCSendJob == [d \in Deliveries |-> IF d = d1 THEN send1 ELSE send2]

\* A lost answer of completeJob, or a failing statement and a crash.
MCNext == MsgNext /\ faults' + errors' <= 1 /\ faults' + downs' <= 1
MCSpec == MsgInit /\ [][MCNext]_allVars

Symmetry == Permutations(Workers)
=============================================================================
