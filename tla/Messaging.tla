----------------------------- MODULE Messaging ------------------------------
(***************************************************************************)
(* The messaging service (packages/emails/src/service.ts) run by the       *)
(* workers of JobQueue: outbox events become deliveries and send jobs, and *)
(* send jobs hand deliveries to the e-mail provider.                       *)
(*                                                                         *)
(* A worker of JobQueue whose pc is "handling" is inside one of the two    *)
(* handlers of createMessagingJobHandlers; stage[w] says where.  Each      *)
(* autocommitted statement of a handler, and the call of the provider, is  *)
(* an action of its own.                                                   *)
(***************************************************************************)
EXTENDS JobQueue

CONSTANTS
  Events, Deliveries,  \* ids of outbox_events and message_deliveries
  SendJob,             \* the id 'message-delivery:<id>' of a delivery's job
  NoEvent,
  DeliveryBudget,      \* max_attempts of a delivery
  OutboxBudget,        \* outboxMaxAttempts
  OutboxDelay,         \* backoff of the outbox
  ClaimTimeout,        \* deliveryClaimTimeoutMs
  MaxErrors            \* bound: statements of handlers that fail

ASSUME MessagingAssumption ==
  /\ SendJob \in [Deliveries -> Jobs \ CronJobs]
  /\ \A c, d \in Deliveries : c # d => SendJob[c] # SendJob[d]
  /\ NoEvent \notin Events
  /\ DeliveryBudget \in Nat \ {0} /\ OutboxBudget \in Nat \ {0}
  /\ DeliveryBudget + 1 \in Budgets /\ 0 \in Delays
  /\ OutboxDelay \in Nat /\ ClaimTimeout \in Nat \ {0} /\ MaxErrors \in Nat

VARIABLES
  evStatus, evAttempts, evDue,       \* outbox_events
  evKind,                            \* what the payload of an event holds
  dStatus, dAttempts, dAge, dEvent,  \* message_deliveries; dAge = now - updated_at
  stage, todo, cur,                  \* where a handler is; events left; the one at hand
  sends,     \* history: calls of the provider for a delivery
  accepted,  \* history: calls the provider accepted
  doubt,     \* history: accepted, but recording it failed or the worker died
  slow,      \* history: a sender was still at work when its claim timed out
  errors     \* bounded counter of failed statements

eventVars == <<evStatus, evAttempts, evDue, evKind>>
deliveryVars == <<dStatus, dAttempts, dAge, dEvent>>
sendHist == <<sends, accepted, doubt, slow>>
msgVars == <<eventVars, deliveryVars, stage, todo, cur, sendHist>>
allVars == <<vars, msgVars, errors>>

Stages == {"idle", "begin", "dispatch", "mark", "dispatchError",
           "send", "accepted", "sendFailed", "audit", "refused", "refusedStale", "expire"}
Sending == {"send", "accepted", "sendFailed"}

\* A payload is fine, has no valid recipient, or names a row that is missing, so
\* that the insert of the delivery violates a foreign key.
Kinds == {"good", "invalid", "poison"}

MsgTypeOK ==
  /\ TypeOK
  /\ evStatus \in [Events -> {"none", "queued", "dispatched", "failed"}]
  /\ evAttempts \in [Events -> Nat] /\ evDue \in [Events -> 0..OutboxDelay]
  /\ evKind \in [Events -> Kinds]
  /\ dStatus \in [Deliveries -> {"none", "queued", "sending", "sent", "failed"}]
  /\ dAttempts \in [Deliveries -> Nat] /\ dAge \in [Deliveries -> 0..ClaimTimeout]
  /\ dEvent \in [Deliveries -> Events \cup {NoEvent}]
  /\ stage \in [Workers -> Stages] /\ todo \in [Workers -> SUBSET Events]
  /\ cur \in [Workers -> Events \cup {NoEvent}]
  /\ sends \in [Deliveries -> Nat] /\ accepted \in [Deliveries -> Nat]
  /\ doubt \subseteq Deliveries /\ slow \subseteq Deliveries /\ errors \in 0..MaxErrors
  /\ \A w \in Workers : (stage[w] = "idle") <=> (pc[w] # "handling")

MsgInit ==
  /\ Init
  /\ evStatus = [e \in Events |-> "none"]
  /\ evAttempts = [e \in Events |-> 0] /\ evDue = [e \in Events |-> 0]
  /\ evKind = [e \in Events |-> "good"]
  /\ dStatus = [d \in Deliveries |-> "none"]
  /\ dAttempts = [d \in Deliveries |-> 0] /\ dAge = [d \in Deliveries |-> 0]
  /\ dEvent = [d \in Deliveries |-> NoEvent]
  /\ stage = [w \in Workers |-> "idle"] /\ todo = [w \in Workers |-> {}]
  /\ cur = [w \in Workers |-> NoEvent]
  /\ sends = [d \in Deliveries |-> 0] /\ accepted = [d \in Deliveries |-> 0]
  /\ doubt = {} /\ slow = {} /\ errors = 0

\* Auth and tenant operations insert the event next to their own changes.
Emit(e, k) ==
  /\ evStatus[e] = "none"
  /\ evStatus' = [evStatus EXCEPT ![e] = "queued"]
  /\ evKind' = [evKind EXCEPT ![e] = k]
  /\ UNCHANGED <<vars, evAttempts, evDue, deliveryVars, stage, todo, cur, sendHist>>

-----------------------------------------------------------------------------
At(w, s) == pc[w] = "handling" /\ stage[w] = s
Goto(w, s) == stage' = [stage EXCEPT ![w] = s]
\* The handler is left: with its result, or with an error for runWorkerOnce.
Return(w) == HandlerReturns(w) /\ Goto(w, "idle")
Throw(w) == HandlerThrows(w) /\ Goto(w, "idle")
\* A statement fails for a reason outside the program.
StatementFails == errors < MaxErrors /\ errors' = errors + 1
DbError == StatementFails /\ UNCHANGED vars
DbErrorThrown(w) == StatementFails /\ Throw(w)

\* The delivery a send job is about.
DeliveryOf(w) == CHOOSE d \in Deliveries : SendJob[d] = held[w]

-----------------------------------------------------------------------------
(* dispatchOutbox *)

\* The SELECT: the events it will go through are fixed here.
SelectEvents(w) ==
  /\ At(w, "begin") /\ held[w] \in CronJobs
  /\ todo' = [todo EXCEPT ![w] = {e \in Events : evStatus[e] = "queued" /\ evDue[e] = 0}]
  /\ Goto(w, "dispatch")
  /\ UNCHANGED <<vars, eventVars, deliveryVars, cur, sendHist>>

DispatchDone(w) ==
  /\ At(w, "dispatch") /\ todo[w] = {}
  /\ Return(w)
  /\ UNCHANGED <<eventVars, deliveryVars, todo, cur, sendHist>>

\* UPDATE outbox_events SET status = s, attempts = attempts + 1.
SetEvent(e, s) ==
  /\ evStatus' = [evStatus EXCEPT ![e] = s]
  /\ evAttempts' = [evAttempts EXCEPT ![e] = @ + 1]
  /\ UNCHANGED evKind

Take(w, e) ==
  /\ todo' = [todo EXCEPT ![w] = @ \ {e}] /\ cur' = [cur EXCEPT ![w] = e]

\* The invalid recipient: the event fails at once.
RejectRecipient(w, e) ==
  /\ At(w, "dispatch") /\ e \in todo[w] /\ evKind[e] = "invalid"
  /\ SetEvent(e, "failed")
  /\ todo' = [todo EXCEPT ![w] = @ \ {e}]
  /\ UNCHANGED <<vars, evDue, deliveryVars, stage, cur, sendHist>>

\* That UPDATE is inside the try block too: it raises, before or after it took
\* effect.
RejectRaises(w, e) ==
  /\ At(w, "dispatch") /\ e \in todo[w] /\ evKind[e] = "invalid"
  /\ DbError
  /\ UNCHANGED eventVars \/ (SetEvent(e, "failed") /\ UNCHANGED evDue)
  /\ Take(w, e) /\ Goto(w, "dispatchError")
  /\ UNCHANGED <<deliveryVars, sendHist>>

\* queueEmail's transaction: delivery and send job together, once per event.
Existing(e) == {d \in Deliveries : dEvent[d] = e}
FreshDelivery == CHOOSE d \in Deliveries : dStatus[d] = "none"

\* Mutant of QueueEmail: the delivery carries no idempotency key.
QueueEmailUnkeyed(e) ==
  LET d == FreshDelivery IN
  /\ \E x \in Deliveries : dStatus[x] = "none"
  /\ dStatus' = [dStatus EXCEPT ![d] = "queued"]
  /\ dAge' = [dAge EXCEPT ![d] = 0] /\ dEvent' = [dEvent EXCEPT ![d] = e]
  /\ Insert({SendJob[d]}, DeliveryBudget + 1, 0)
  /\ UNCHANGED dAttempts

\* Mutant of QueueEmail: the send job is not part of the transaction.
QueueEmailJobless(e) ==
  LET d == FreshDelivery IN
  IF Existing(e) # {} THEN UNCHANGED <<rowVars, deliveryVars>>
  ELSE /\ dStatus' = [dStatus EXCEPT ![d] = "queued"]
       /\ dAge' = [dAge EXCEPT ![d] = 0] /\ dEvent' = [dEvent EXCEPT ![d] = e]
       /\ UNCHANGED <<dAttempts, rowVars>>

QueueEmail(e) ==
  LET d == FreshDelivery IN
  IF Existing(e) # {} THEN UNCHANGED <<rowVars, deliveryVars>>
  ELSE /\ \E x \in Deliveries : dStatus[x] = "none"
       /\ dStatus' = [dStatus EXCEPT ![d] = "queued"]
       /\ dAge' = [dAge EXCEPT ![d] = 0] /\ dEvent' = [dEvent EXCEPT ![d] = e]
       /\ Insert({SendJob[d]}, DeliveryBudget + 1, 0)
       /\ UNCHANGED dAttempts

\* Lookups and queueEmail succeed; the event itself is marked by a later
\* statement.
QueueEvent(w, e) ==
  /\ At(w, "dispatch") /\ e \in todo[w] /\ evKind[e] = "good"
  /\ QueueEmail(e)
  /\ Take(w, e) /\ Goto(w, "mark")
  /\ UNCHANGED <<cronVars, pc, held, histVars, faultVars, eventVars, sendHist>>

\* queueEmail raises: a foreign key of the payload does not exist, or the
\* database fails before or after the commit.
QueueEventRaises(w, e) ==
  /\ At(w, "dispatch") /\ e \in todo[w] /\ evKind[e] # "invalid"
  /\ Take(w, e) /\ Goto(w, "dispatchError")
  /\ \/ evKind[e] = "poison" /\ UNCHANGED <<vars, deliveryVars, errors>>
     \/ evKind[e] = "good" /\ DbError /\ UNCHANGED deliveryVars
     \/ /\ evKind[e] = "good" /\ StatementFails
        /\ QueueEmail(e)
        /\ UNCHANGED <<cronVars, pc, held, histVars, faultVars>>
  /\ UNCHANGED <<eventVars, sendHist>>

\* UPDATE outbox_events SET status = 'dispatched'.
MarkDispatched(w) ==
  /\ At(w, "mark")
  /\ SetEvent(cur[w], "dispatched")
  /\ cur' = [cur EXCEPT ![w] = NoEvent] /\ Goto(w, "dispatch")
  /\ UNCHANGED <<vars, evDue, deliveryVars, todo, sendHist>>

\* The same UPDATE raises, before or after it took effect.
MarkDispatchedRaises(w) ==
  /\ At(w, "mark") /\ DbError /\ Goto(w, "dispatchError")
  /\ UNCHANGED eventVars \/ (SetEvent(cur[w], "dispatched") /\ UNCHANGED evDue)
  /\ UNCHANGED <<deliveryVars, todo, cur, sendHist>>

\* The catch block's UPDATE: retry later, or give the event up.
PutBack(e) ==
  /\ SetEvent(e, IF evAttempts[e] + 1 >= OutboxBudget THEN "failed" ELSE "queued")
  /\ evDue' = [evDue EXCEPT ![e] = OutboxDelay]
RecordDispatchError(w) ==
  /\ At(w, "dispatchError") /\ PutBack(cur[w])
  /\ cur' = [cur EXCEPT ![w] = NoEvent] /\ Goto(w, "dispatch")
  /\ UNCHANGED <<vars, deliveryVars, todo, sendHist>>

\* A statement outside the try block of an event raises, the catch block's
\* before or after it took effect: the handler throws.
DispatchRaises(w) ==
  /\ At(w, "begin") \/ At(w, "dispatchError")
  /\ held[w] \in CronJobs /\ DbErrorThrown(w)
  /\ UNCHANGED eventVars \/ (At(w, "dispatchError") /\ PutBack(cur[w]))
  /\ cur' = [cur EXCEPT ![w] = NoEvent] /\ todo' = [todo EXCEPT ![w] = {}]
  /\ UNCHANGED <<deliveryVars, sendHist>>

Dispatch(w) ==
  \/ SelectEvents(w) \/ DispatchDone(w) \/ MarkDispatched(w) \/ RecordDispatchError(w)
  \/ \E e \in Events : RejectRecipient(w, e) \/ QueueEvent(w, e)
DispatchError(w) ==
  \/ MarkDispatchedRaises(w) \/ DispatchRaises(w)
  \/ \E e \in Events : RejectRaises(w, e) \/ QueueEventRaises(w, e)

-----------------------------------------------------------------------------
(* processEmailDelivery *)

\* Mutant of Claimable: a delivery that is being sent may be claimed.
ClaimableWhileSending(d) ==
  /\ dAttempts[d] < DeliveryBudget
  /\ dStatus[d] \in {"queued", "failed", "sending"}

\* Mutant of Claimable: the attempts are not counted against the budget.
ClaimableForEver(d) ==
  \/ dStatus[d] \in {"queued", "failed"}
  \/ dStatus[d] = "sending" /\ dAge[d] >= ClaimTimeout

\* The WHERE clause of the claiming UPDATE.
Claimable(d) ==
  /\ dAttempts[d] < DeliveryBudget
  /\ \/ dStatus[d] \in {"queued", "failed"}
     \/ dStatus[d] = "sending" /\ dAge[d] >= ClaimTimeout

SetDelivery(d, s) ==
  /\ dStatus' = [dStatus EXCEPT ![d] = s] /\ dAge' = [dAge EXCEPT ![d] = 0]
  /\ UNCHANGED dEvent

ClaimDelivery(w) ==
  LET d == DeliveryOf(w) IN
  /\ At(w, "begin") /\ held[w] \notin CronJobs /\ Claimable(d)
  /\ SetDelivery(d, "sending")
  /\ dAttempts' = [dAttempts EXCEPT ![d] = @ + 1]
  /\ Goto(w, "send")
  /\ UNCHANGED <<vars, eventVars, todo, cur, sendHist>>

\* The UPDATE matches no row.  Whether the row was stale is judged against the
\* claimedAt taken here.
ClaimRefused(w) ==
  LET d == DeliveryOf(w) IN
  /\ At(w, "begin") /\ held[w] \notin CronJobs /\ ~Claimable(d)
  /\ Goto(w, IF dAge[d] >= ClaimTimeout THEN "refusedStale" ELSE "refused")
  /\ UNCHANGED <<vars, eventVars, deliveryVars, todo, cur, sendHist>>

Refused(w) == At(w, "refused") \/ At(w, "refusedStale")
TimedOutForGood(w) ==
  LET d == DeliveryOf(w) IN
  /\ dStatus[d] = "sending" /\ dAttempts[d] >= DeliveryBudget
  /\ stage[w] # "refused" /\ dAge[d] >= ClaimTimeout

\* Mutant of FindBusy: a busy delivery is taken for a settled one.
FindBusyReturning(w) ==
  /\ Refused(w) /\ dStatus[DeliveryOf(w)] = "sending" /\ ~TimedOutForGood(w)
  /\ Return(w)
  /\ UNCHANGED <<eventVars, deliveryVars, todo, cur, sendHist>>

\* The SELECT after a refused claim: sent, timed out for good, busy, or settled.
FindSent(w) ==
  /\ Refused(w) /\ dStatus[DeliveryOf(w)] = "sent"
  /\ Goto(w, "audit")
  /\ UNCHANGED <<vars, eventVars, deliveryVars, todo, cur, sendHist>>
FindTimedOut(w) ==
  /\ Refused(w) /\ TimedOutForGood(w)
  /\ Goto(w, "expire")
  /\ UNCHANGED <<vars, eventVars, deliveryVars, todo, cur, sendHist>>
FindBusy(w) ==
  /\ Refused(w) /\ dStatus[DeliveryOf(w)] = "sending" /\ ~TimedOutForGood(w)
  /\ Throw(w)
  /\ UNCHANGED <<eventVars, deliveryVars, todo, cur, sendHist>>
FindSettled(w) ==
  /\ Refused(w) /\ dStatus[DeliveryOf(w)] \notin {"sent", "sending"}
  /\ Return(w)
  /\ UNCHANGED <<eventVars, deliveryVars, todo, cur, sendHist>>

\* The guarded UPDATE that fails a delivery whose last attempt timed out; when
\* it matches no row the delivery counts as busy.
Expire(w) ==
  LET d == DeliveryOf(w) IN
  /\ At(w, "expire")
  /\ IF TimedOutForGood(w)
     THEN SetDelivery(d, "failed") /\ Return(w) /\ UNCHANGED dAttempts
     ELSE Throw(w) /\ UNCHANGED deliveryVars
  /\ UNCHANGED <<eventVars, todo, cur, sendHist>>

\* The provider is called; it accepts, or it refuses or cannot be reached.
Send(w, ok) ==
  LET d == DeliveryOf(w) IN
  /\ At(w, "send")
  /\ sends' = [sends EXCEPT ![d] = @ + 1]
  /\ accepted' = IF ok THEN [accepted EXCEPT ![d] = @ + 1] ELSE accepted
  /\ Goto(w, IF ok THEN "accepted" ELSE "sendFailed")
  /\ UNCHANGED <<vars, eventVars, deliveryVars, todo, cur, doubt, slow>>

\* Mutant of MarkSent: a failure to audit counts as a failure to send.
MarkSentAuditing(w) ==
  /\ At(w, "accepted")
  /\ SetDelivery(DeliveryOf(w), "sent")
  /\ Goto(w, "audit") \/ Goto(w, "sendFailed")
  /\ UNCHANGED <<vars, dAttempts, eventVars, todo, cur, sendHist>>

\* UPDATE ... SET status = 'sent' WHERE id: whatever the row now says.
MarkSent(w) ==
  /\ At(w, "accepted")
  /\ SetDelivery(DeliveryOf(w), "sent")
  /\ Goto(w, "audit")
  /\ UNCHANGED <<vars, dAttempts, eventVars, todo, cur, sendHist>>

\* The same UPDATE raises, before or after it took effect.
MarkSentRaises(w) ==
  LET d == DeliveryOf(w) IN
  /\ At(w, "accepted") /\ DbError
  /\ UNCHANGED deliveryVars \/ (SetDelivery(d, "sent") /\ UNCHANGED dAttempts)
  /\ doubt' = doubt \cup {d}
  /\ Goto(w, "sendFailed")
  /\ UNCHANGED <<eventVars, todo, cur, sends, accepted, slow>>

\* The catch block: status = 'failed' WHERE id, and the error goes on.
MarkFailed(w) ==
  /\ At(w, "sendFailed")
  /\ SetDelivery(DeliveryOf(w), "failed") /\ Throw(w)
  /\ UNCHANGED <<dAttempts, eventVars, todo, cur, sendHist>>

\* ensureSentAudit is idempotent; then the handler returns.
Audit(w) ==
  /\ At(w, "audit") /\ Return(w)
  /\ UNCHANGED <<deliveryVars, eventVars, todo, cur, sendHist>>

\* The claim, or the UPDATE that expires the delivery, took effect, and its
\* answer is lost or the audit insert behind it raises.
ClaimLost(w) ==
  LET d == DeliveryOf(w) IN
  /\ At(w, "begin") /\ held[w] \notin CronJobs /\ Claimable(d)
  /\ SetDelivery(d, "sending")
  /\ dAttempts' = [dAttempts EXCEPT ![d] = @ + 1]
  /\ DbErrorThrown(w)
  /\ UNCHANGED <<eventVars, todo, cur, sendHist>>
ExpireLost(w) ==
  /\ At(w, "expire") /\ TimedOutForGood(w)
  /\ SetDelivery(DeliveryOf(w), "failed")
  /\ DbErrorThrown(w)
  /\ UNCHANGED <<dAttempts, eventVars, todo, cur, sendHist>>

\* A statement outside the try block of the send raises, without effect.  (The
\* catch block throws anyway, so MarkFailed covers its failing audit.)
DeliverRaises(w) ==
  /\ held[w] \notin CronJobs /\ At(w, stage[w])
  /\ stage[w] \notin {"send", "accepted"}
  /\ DbErrorThrown(w)
  /\ UNCHANGED <<deliveryVars, eventVars, todo, cur, sendHist>>

Deliver(w) ==
  \/ ClaimDelivery(w) \/ ClaimRefused(w) \/ FindSent(w) \/ FindTimedOut(w) \/ FindBusy(w)
  \/ FindSettled(w) \/ Expire(w) \/ \E ok \in BOOLEAN : Send(w, ok)
  \/ MarkSent(w) \/ MarkFailed(w) \/ Audit(w)
DeliverError(w) == MarkSentRaises(w) \/ ClaimLost(w) \/ ExpireLost(w) \/ DeliverRaises(w)

-----------------------------------------------------------------------------
\* The steps of the worker's loop outside the handlers.
Begin(w) ==
  /\ CallHandler(w) /\ Goto(w, "begin")
  /\ UNCHANGED <<eventVars, deliveryVars, todo, cur, sendHist>>
Loop(w) ==
  /\ \/ Start(w) \/ Materialize(w) \/ Claim(w) \/ NoHandler(w) \/ Complete(w) \/ Fail(w)
     \/ CompleteRaises(w) \/ Quit(w)
  /\ UNCHANGED msgVars

\* The worker dies; an accepted message may not have been recorded.
Die(w) ==
  /\ Crash(w)
  /\ Goto(w, "idle")
  /\ todo' = [todo EXCEPT ![w] = {}] /\ cur' = [cur EXCEPT ![w] = NoEvent]
  /\ doubt' = IF At(w, "accepted") THEN doubt \cup {DeliveryOf(w)} ELSE doubt
  /\ UNCHANGED <<eventVars, deliveryVars, sends, accepted, slow>>

MsgTick ==
  /\ Tick
  /\ evDue' = [e \in Events |-> IF evDue[e] > 0 THEN evDue[e] - 1 ELSE 0]
  /\ dAge' = [d \in Deliveries |-> IF dStatus[d] = "sending" /\ dAge[d] < ClaimTimeout
                                   THEN dAge[d] + 1 ELSE dAge[d]]
  /\ slow' = slow \cup {d \in Deliveries :
                 /\ dStatus[d] = "sending" /\ dAge[d] + 1 >= ClaimTimeout
                 /\ \E w \in Workers : stage[w] \in Sending /\ held[w] = SendJob[d]}
  /\ UNCHANGED <<evStatus, evAttempts, evKind, dStatus, dAttempts, dEvent, stage, todo, cur,
                 sends, accepted, doubt>>

MsgNext ==
  \/ /\ \/ \E e \in Events, k \in Kinds : Emit(e, k)
        \/ \E w \in Workers : Begin(w) \/ Loop(w) \/ Die(w) \/ Dispatch(w) \/ Deliver(w)
        \/ MsgTick
     /\ UNCHANGED errors
  \/ \E w \in Workers : DispatchError(w) \/ DeliverError(w)

MsgSpec == MsgInit /\ [][MsgNext]_allVars

-----------------------------------------------------------------------------
\* Two dispatchers that read the same queued event, a crash between queueing
\* and marking, and a lost answer of queueEmail make at most one delivery of an
\* event ("preventing duplicate queue records", emails/README.md:9).  None is lost:
\* a dispatched event has its delivery, and a delivery has its send job.
OneDeliveryPerEvent ==
  /\ \A c, d \in Deliveries : c # d /\ dEvent[c] = dEvent[d] => dEvent[c] = NoEvent
  /\ \A e \in Events : evStatus[e] = "dispatched" => Existing(e) # {}
  /\ \A d \in Deliveries : dStatus[d] # "none" => status[SendJob[d]] # "absent"

\* However often the job is retried, reclaimed or taken by two workers, the
\* provider is called at most max_attempts times for a delivery, and a message it
\* accepted is sent again only if its acceptance could not be recorded or its
\* sender outlived the claim: no audit failure, failed job completion or
\* reclaimed job lock repeats it.
SendsBounded ==
  \A d \in Deliveries :
    /\ sends[d] <= dAttempts[d] /\ dAttempts[d] <= DeliveryBudget
    /\ accepted[d] > 1 => d \in doubt \cup slow

\* Two workers are sending the same delivery only after a sender outlived the
\* claim timeout, even when the job lock was lost earlier.
SendersExclusive ==
  \A v, w \in Workers :
    v # w /\ held[v] = held[w] /\ stage[v] \in Sending /\ stage[w] \in Sending
    => DeliveryOf(w) \in slow

\* A completed send job leaves its delivery sent or failed, unless a worker
\* overran its lease on the job or the answer of completeJob was lost.
CompletedMeansSettled ==
  \A d \in Deliveries :
    /\ status[SendJob[d]] = "completed"
    /\ SendJob[d] \notin overrun \cup unacked
    => dStatus[d] \in {"sent", "failed"}

\* emails/README.md:9, "Delivery is at least once": once the send job of a
\* delivery is out of attempts, nobody leaves the delivery half sent.
NoStrandedDelivery ==
  \A d \in Deliveries :
    /\ status[SendJob[d]] = "failed" /\ \A w \in Workers : held[w] # SendJob[d]
    => dStatus[d] # "sending"

\* The service seen as a ledger of promises.
Stand == [e \in Events |-> IF evStatus[e] = "queued" THEN "open"
                           ELSE IF evStatus[e] = "dispatched" THEN "placed"
                           ELSE IF evStatus[e] = "failed" THEN "dead" ELSE "none"]
State == [d \in Deliveries |-> IF dStatus[d] \in {"queued", "sending"} THEN "open"
                               ELSE dStatus[d]]
Promises == INSTANCE MessageLedger WITH
  Turns <- OutboxBudget, Tries <- DeliveryBudget,
  stand <- Stand, turns <- evAttempts, bad <- {e \in Events : evKind[e] = "invalid"},
  subject <- dEvent, state <- State, tries <- dAttempts, calls <- sends, acks <- accepted,
  shaken <- doubt \cup slow

\* However events are dispatched twice, jobs reclaimed, workers slow or dead, and
\* statements lost: every behaviour of the service is one of the ledger.
PromiseSpec == Promises!Spec

=============================================================================
