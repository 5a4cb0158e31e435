----------------------------- MODULE ApiRequests -----------------------------
(***************************************************************************)
(* Two operations of the API (packages/api/src/service.ts) that a client   *)
(* retries: the uploads of mobile clients, in front of StorageFiles, and   *)
(* the creation of an event under an idempotency key.                      *)
(*                                                                         *)
(* A process of StorageFiles serves a request.  While the request is in    *)
(* the storage service the steps are those of StorageFiles; before and     *)
(* after, one action is one autocommitted statement of the API.            *)
(***************************************************************************)
EXTENDS StorageFiles

CONSTANTS
  Keys,    \* idempotency keys, with their tenant and scope
  Bodies,  \* request bodies
  Events,  \* ids of events
  None     \* no key, no event

ASSUME ApiAssumption ==
  IsFiniteSet(Events) /\ None \notin Keys /\ None \notin Bodies /\ None \notin Events

VARIABLES
  upload,     \* mobile_upload_intents, by the file they are for
  keys,       \* idempotency_keys
  events,     \* event_log, and the outbox row next to it
  call,       \* what each request does in the API
  direct,     \* history: files of other callers of the storage service
  forgotten,  \* history: files whose request ended between the two intents
  abandoned,  \* history: keys whose request ended without a response
  replies     \* history: the responses given under each key

apiRows == <<upload, keys, events>>
apiHistory == <<direct, forgotten, abandoned, replies>>

NoCall == [at |-> "none", file |-> NoFile, key |-> None, body |-> None, event |-> None]
NoKey == [at |-> "none", body |-> None, event |-> None]
NoEvent == [at |-> "none", key |-> None]

ApiInit ==
  /\ Init
  /\ upload = [f \in Files |-> "none"] /\ keys = [k \in Keys |-> NoKey]
  /\ events = [e \in Events |-> NoEvent] /\ call = [p \in Procs |-> NoCall]
  /\ direct = {} /\ forgotten = {} /\ abandoned = {} /\ replies = {}

-----------------------------------------------------------------------------
CallAt(p, s) == call[p].at = s
Free(p) == At(p, "idle") /\ call[p] = NoCall
Turn(p, x) == call' = [call EXCEPT ![p] = x]
TurnTo(p, s) == Turn(p, [call[p] EXCEPT !.at = s])
Close(p) == Turn(p, NoCall)

-----------------------------------------------------------------------------
(* createMobileUploadIntent, completeMobileUploadIntent *)

\* The storage service makes its intent, then the API its own row.
CallCreateUpload(p, f) ==
  /\ Free(p) /\ CreateIntent(f) /\ Turn(p, [NoCall EXCEPT !.at = "insert", !.file = f])
  /\ UNCHANGED <<apiRows, apiHistory>>
InsertUpload(p) ==
  /\ CallAt(p, "insert") /\ Close(p)
  /\ upload' = [upload EXCEPT ![call[p].file] = "pending"]
  /\ UNCHANGED <<vars, keys, events, apiHistory>>

\* The SELECT of a pending, unexpired row; then the storage service is called,
\* without the bytes.
CallCompleteUpload(p, f) ==
  /\ Free(p) /\ upload[f] = "pending" /\ CallComplete(p, f, FALSE)
  /\ Turn(p, [NoCall EXCEPT !.at = "storage", !.file = f])
  /\ UNCHANGED <<apiRows, apiHistory>>

\* Mutant of Succeeded: a failure of the storage service is not noticed.
SucceededAlways(p) == TRUE

\* The storage service returns without raising: its transaction has answered.
Succeeded(p) == At(p, "commit") /\ fstat[FileOf(p)] # fstat'[FileOf(p)]

\* A step of the storage service, for the API or for another caller, who has the
\* token of its own intents only.
StorageStep ==
  /\ Next
  /\ direct' = direct \cup {f \in Files : fstat[f] = "none" /\ fstat'[f] = "pending"}
  /\ \A p \in Procs : /\ At(p, "idle") /\ proc'[p].at = "claim" => proc'[p].file \in direct
                      /\ CallAt(p, "none") \/ CallAt(p, "storage") \/ proc'[p] = Idle
  /\ call' = [p \in Procs |->
                IF ~CallAt(p, "storage") \/ proc'[p] # Idle THEN call[p]
                ELSE IF Succeeded(p) THEN [call[p] EXCEPT !.at = "mark"] ELSE NoCall]
  /\ UNCHANGED <<apiRows, forgotten, abandoned, replies>>

\* The UPDATE WHERE status = 'pending'.
MarkUploaded(p) ==
  /\ CallAt(p, "mark") /\ Close(p)
  /\ upload' = [upload EXCEPT ![call[p].file] = IF @ = "pending" THEN "uploaded" ELSE @]
  /\ UNCHANGED <<vars, keys, events, apiHistory>>

-----------------------------------------------------------------------------
(* withIdempotency around createEvent *)

\* Mutant of Unused: a key without a response is taken over.
UnusedUnanswered(k) == keys[k].at # "answered"

\* INSERT ... ON CONFLICT DO NOTHING finds no row.
Unused(k) == keys[k].at = "none"

\* Without a key the handler is called at once.
CallCreateEvent(p, k, b) ==
  /\ Free(p)
  /\ IF k # None /\ Unused(k)
     THEN keys' = [keys EXCEPT ![k] = [NoKey EXCEPT !.at = "open", !.body = b]]
     ELSE UNCHANGED keys
  /\ Turn(p, [NoCall EXCEPT !.at = IF k = None \/ Unused(k) THEN "log" ELSE "look",
                            !.key = k, !.body = b])
  /\ UNCHANGED <<vars, upload, events, apiHistory>>

Reply(k, b, e) == replies' = IF k = None THEN replies
                             ELSE replies \cup {[key |-> k, body |-> b, event |-> e]}

\* The SELECT: another body and a missing response are errors, a response is
\* given again.
Look(p) ==
  LET row == keys[call[p].key] IN
  /\ CallAt(p, "look") /\ Close(p)
  /\ IF row.body = call[p].body /\ row.at = "answered"
     THEN Reply(call[p].key, call[p].body, row.event)
     ELSE UNCHANGED replies
  /\ UNCHANGED <<vars, apiRows, direct, forgotten, abandoned>>

\* createEvent: the row of the event, the row of its fan-out.
LogEvent(p, e) ==
  /\ CallAt(p, "log") /\ events[e] = NoEvent
  /\ events' = [events EXCEPT ![e] = [at |-> "logged", key |-> call[p].key]]
  /\ Turn(p, [call[p] EXCEPT !.at = "fanout", !.event = e])
  /\ UNCHANGED <<vars, upload, keys, apiHistory>>
QueueFanout(p) ==
  /\ CallAt(p, "fanout") /\ TurnTo(p, "answer")
  /\ events' = [events EXCEPT ![call[p].event].at = "queued"]
  /\ UNCHANGED <<vars, upload, keys, apiHistory>>
\* The caller may not create events: the handler raises.
RefuseEvent(p) ==
  /\ CallAt(p, "log") /\ Close(p) /\ abandoned' = abandoned \cup ({call[p].key} \cap Keys)
  /\ UNCHANGED <<vars, apiRows, direct, forgotten, replies>>

\* The UPDATE of the key with the response.
AnswerEvent(p) ==
  LET k == call[p].key IN
  /\ CallAt(p, "answer") /\ Close(p) /\ Reply(k, call[p].body, call[p].event)
  /\ IF k = None THEN UNCHANGED keys
     ELSE keys' = [keys EXCEPT ![k].at = "answered", ![k].event = call[p].event]
  /\ UNCHANGED <<vars, upload, events, direct, forgotten, abandoned>>

\* The process dies, or a statement raises, outside the storage service.
DieOutside(p) ==
  /\ ~CallAt(p, "none") /\ ~CallAt(p, "storage") /\ Fail /\ Close(p)
  /\ forgotten' = forgotten \cup ({call[p].file} \cap Files)
  /\ abandoned' = IF CallAt(p, "look") THEN abandoned
                  ELSE abandoned \cup ({call[p].key} \cap Keys)
  /\ UNCHANGED <<fileVars, expired, objectVars, quotaVars, procVars, history, apiRows, direct,
                 replies>>

-----------------------------------------------------------------------------
UploadCall(p) ==
  \/ \E f \in Files : CallCreateUpload(p, f) \/ CallCompleteUpload(p, f)
  \/ InsertUpload(p) \/ MarkUploaded(p)
EventCall(p) ==
  \/ \E k \in Keys \cup {None}, b \in Bodies : CallCreateEvent(p, k, b)
  \/ Look(p) \/ RefuseEvent(p) \/ (\E e \in Events : LogEvent(p, e))
  \/ QueueFanout(p) \/ AnswerEvent(p)

ApiNext ==
  StorageStep \/ \E p \in Procs : UploadCall(p) \/ EventCall(p) \/ DieOutside(p)

ApiSpec == ApiInit /\ [][ApiNext]_<<vars, apiRows, call, apiHistory>>

-----------------------------------------------------------------------------
\* The rows of the API follow those of the storage service, whatever requests,
\* cleanup passes and failures come between: an upload that is marked was
\* completed, and a file that is available, or reserved, without its row saying
\* so has a request at work, or one that ended between the two services.
MobileUploadsFollow ==
  \A f \in Files :
    LET working == \E p \in Procs : call[p].file = f /\ ~CallAt(p, "storage") IN
    /\ upload[f] = "uploaded" => fstat[f] \in {"available", "deleted", "purged"}
    /\ upload[f] = "pending" /\ fstat[f] \in {"available", "deleted", "purged"}
       => working \/ f \in forgotten \cup doubt
    /\ upload[f] = "none" /\ intent[f] # "none" /\ f \notin direct => working \/ f \in forgotten

\* However often and by however many requests a key is used, one event is logged
\* for it and every response under it is for one body and that event, with its
\* fan-out queued.  A key without a response has a request at work or has lost
\* it: a retry is never told of an event that is not there.
EventsIdempotent ==
  /\ \A d, e \in Events :
       events[d].key = events[e].key /\ events[d].key # None => d = e
  /\ \A x, y \in replies :
       /\ x.key = y.key => x = y
       /\ events[x.event].key = x.key /\ events[x.event].at = "queued"
  /\ \A k \in Keys :
       keys[k].at = "open"
       => k \in abandoned \/ \E p \in Procs : call[p].key = k /\ ~CallAt(p, "look")

=============================================================================
