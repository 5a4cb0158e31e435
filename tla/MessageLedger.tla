---------------------------- MODULE MessageLedger ----------------------------
(***************************************************************************)
(* What the messaging service promises of an event, whoever dispatches and *)
(* sends it: it is placed once, as one delivery; it is not tried for ever; *)
(* each call of the provider is one of the tries of its delivery.  What    *)
(* the provider has accepted is not tried again, is recorded as sent and   *)
(* not given up, unless the delivery is shaken: its sender was late, or    *)
(* what it had to record was lost.                                         *)
(***************************************************************************)
EXTENDS Integers

CONSTANTS Events, Deliveries, NoEvent, Turns, Tries

VARIABLES
  stand, turns, bad,          \* of an event: its state, how often it had its turn
  subject, state,             \* of a delivery: the event it is of, its state
  tries, calls, acks, shaken

events == <<stand, turns, bad>>
deliveries == <<subject, state, tries, calls, acks>>
mvars == <<events, deliveries, shaken>>

Init ==
  /\ stand = [e \in Events |-> "none"] /\ turns = [e \in Events |-> 0] /\ bad = {}
  /\ subject = [d \in Deliveries |-> NoEvent] /\ state = [d \in Deliveries |-> "none"]
  /\ tries = [d \in Deliveries |-> 0] /\ calls = [d \in Deliveries |-> 0]
  /\ acks = [d \in Deliveries |-> 0] /\ shaken = {}

-----------------------------------------------------------------------------
(* The moves of an event *)

Waits(e) == stand'[e] = stand[e] /\ turns'[e] = turns[e] /\ (e \in bad' <=> e \in bad)

Emitted(e) == stand[e] = "none" /\ stand'[e] = "open" /\ turns'[e] = turns[e]

\* A turn ends with the event placed, open for another, or dead.
Turn(e) ==
  /\ stand[e] # "none" /\ turns'[e] = turns[e] + 1 /\ (e \in bad' <=> e \in bad)
  /\ \/ stand'[e] = "placed" /\ \E d \in Deliveries : subject[d] = e
     \/ stand'[e] = "open" /\ turns'[e] < Turns
     \/ stand'[e] = "dead" /\ (turns'[e] >= Turns \/ e \in bad)

-----------------------------------------------------------------------------
(* The moves of a delivery *)

Counted(d) == calls[d] + 1 <= tries[d] /\ calls'[d] = calls[d] + 1
SameCounts(d) == tries'[d] = tries[d] /\ calls'[d] = calls[d] /\ acks'[d] = acks[d]

Rests(d) == subject'[d] = subject[d] /\ state'[d] = state[d] /\ SameCounts(d)

Place(d) ==
  /\ state[d] = "none" /\ state'[d] = "open" /\ SameCounts(d)
  /\ \E e \in Events \ bad :
       /\ stand[e] # "none" /\ subject'[d] = e
       /\ \A c \in Deliveries : subject[c] # e

Try(d) ==
  /\ state[d] \in {"open", "failed"} /\ state'[d] = "open" /\ subject'[d] = subject[d]
  /\ acks[d] > 0 => d \in shaken
  /\ tries[d] < Tries /\ tries'[d] = tries[d] + 1
  /\ calls'[d] = calls[d] /\ acks'[d] = acks[d]

Call(d) ==
  /\ state[d] # "none" /\ state'[d] = state[d] /\ subject'[d] = subject[d]
  /\ Counted(d) /\ tries'[d] = tries[d]
  /\ \/ acks'[d] = acks[d]
     \/ acks'[d] = acks[d] + 1 /\ (acks[d] > 0 => d \in shaken)

Sent(d) ==
  /\ state'[d] = "sent" /\ acks[d] > 0
  /\ subject'[d] = subject[d] /\ SameCounts(d)

GivenUp(d) ==
  /\ state[d] # "none" /\ state'[d] = "failed" /\ tries[d] > 0
  /\ acks[d] > 0 => d \in shaken
  /\ subject'[d] = subject[d] /\ SameCounts(d)

-----------------------------------------------------------------------------
EventMove(e) == Waits(e) \/ Emitted(e) \/ Turn(e)
DeliveryMove(d) == Rests(d) \/ Place(d) \/ Try(d) \/ Call(d) \/ Sent(d) \/ GivenUp(d)

Next ==
  /\ \A e \in Events : EventMove(e)
  /\ \A d \in Deliveries : DeliveryMove(d)
  /\ shaken \subseteq shaken'

Spec == Init /\ [][Next]_mvars

=============================================================================
