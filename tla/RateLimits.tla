------------------------------ MODULE RateLimits ------------------------------
(***************************************************************************)
(* The rate limits of server actions: consumeRateLimit                     *)
(* (packages/security/src/service.ts), called by protectServerAction       *)
(* (apps/web/src/lib/server-action-security.ts) for the identity and then  *)
(* for the address of a visitor.                                           *)
(*                                                                         *)
(* Time is the number of the current window.  A call takes the time once;  *)
(* its DELETE of expired buckets and its upsert are autocommitted.         *)
(***************************************************************************)
EXTENDS Integers, FiniteSets, Sequences

CONSTANTS
  Visits,      \* requests that are served at the same time
  Identities, Addresses,
  NoAddress,   \* the address of a visitor is not known
  MaxCalls,    \* the limit of the scope
  LastWindow   \* bound: windows

ASSUME LimitAssumption ==
  /\ IsFiniteSet(Visits) /\ NoAddress \notin Identities \cup Addresses
  /\ MaxCalls \in Nat \ {0} /\ LastWindow \in Nat

VARIABLES
  window,  \* the current window
  bucket,  \* rate_limit_buckets: the count of an identifier in a window, 0 for no row
  gate,    \* what each visit does in protectServerAction
  onTime,  \* history: calls that a window let through before it ended
  overtime     \* history: calls that it let through afterwards

limitVars == <<window, bucket, gate, onTime, overtime>>

Windows == 0..LastWindow
Identifiers == Identities \cup Addresses
NoCounts == [i \in Identifiers |-> [w \in Windows |-> 0]]
\* "purge" and "count" are the statements of consumeRateLimit, for the head of ids.
Outside == [at |-> "outside", window |-> 0, ids |-> << >>, allowed |-> TRUE]

LimitInit ==
  /\ window = 0 /\ bucket = NoCounts /\ gate = [v \in Visits |-> Outside]
  /\ onTime = NoCounts /\ overtime = NoCounts

-----------------------------------------------------------------------------
GateAt(v, s) == gate[v].at = s
NextWindow ==
  /\ window < LastWindow /\ window' = window + 1
  /\ UNCHANGED <<bucket, gate, onTime, overtime>>

\* Both limits are consumed, whatever the first one says.
CallProtected(v, i, a) ==
  /\ GateAt(v, "outside")
  /\ gate' = [gate EXCEPT ![v] = [at |-> "purge", window |-> window, allowed |-> TRUE,
                                  ids |-> IF a = NoAddress THEN <<i>> ELSE <<i, a>>]]
  /\ UNCHANGED <<window, bucket, onTime, overtime>>

\* Mutant of Expired: the bucket of the current window is taken as well.
ExpiredNow(w, now) == w <= now

\* expires_at <= now: the window has ended.
Expired(w, now) == w < now

Purge(v) ==
  /\ GateAt(v, "purge") /\ gate' = [gate EXCEPT ![v].at = "count"]
  /\ bucket' = [i \in Identifiers |-> [w \in Windows |->
                  IF Expired(w, gate[v].window) THEN 0 ELSE bucket[i][w]]]
  /\ UNCHANGED <<window, onTime, overtime>>

\* The upsert of the bucket that belongs to the time of the call; counts above the
\* limit are not told apart.  The next call takes the time anew.
Count(v) ==
  LET i == Head(gate[v].ids)
      w == gate[v].window
      allowed == bucket[i][w] + 1 <= MaxCalls
      rest == Tail(gate[v].ids)
      decided == gate[v].allowed /\ allowed
  IN
  /\ GateAt(v, "count")
  /\ bucket' = [bucket EXCEPT ![i][w] = IF @ > MaxCalls THEN @ ELSE @ + 1]
  /\ IF window = w THEN onTime' = [onTime EXCEPT ![i][w] = IF allowed THEN @ + 1 ELSE @]
                        /\ UNCHANGED overtime
     ELSE overtime' = [overtime EXCEPT ![i][w] = IF allowed THEN @ + 1 ELSE @] /\ UNCHANGED onTime
  /\ gate' = [gate EXCEPT ![v] =
                IF rest # << >>
                THEN [at |-> "purge", window |-> window, ids |-> rest, allowed |-> decided]
                ELSE [Outside EXCEPT !.at = IF decided THEN "through" ELSE "refused"]]
  /\ UNCHANGED window

\* The action goes on, or answers that there were too many requests.
LeaveGate(v, s) == GateAt(v, s) /\ gate' = [gate EXCEPT ![v] = Outside]
Turned(v) == LeaveGate(v, "refused") /\ UNCHANGED <<window, bucket, onTime, overtime>>

\* The process dies between two statements.
DieAtGate(v) ==
  /\ gate[v] # Outside /\ gate' = [gate EXCEPT ![v] = Outside]
  /\ UNCHANGED <<window, bucket, onTime, overtime>>

-----------------------------------------------------------------------------
\* A window lets an identifier through MaxCalls times while it lasts, however many
\* visits are counted at once, and afterwards at most the visits that were on
\* their way when it ended: a bucket that they find deleted counts from one again.
RateLimited ==
  \A i \in Identifiers, w \in Windows :
    onTime[i][w] <= MaxCalls /\ overtime[i][w] <= Cardinality(Visits)

=============================================================================
