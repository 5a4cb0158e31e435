--------------------------- MODULE MCAuthSessions ----------------------------
(* Small instances of AuthSessions and MobileSessions for TLC.  A behaviour *)
(* mixes the operations of one of the sets below: all of them together      *)
(* multiply states of which each property reads a part.                     *)
EXTENDS MobileSessions, TLC

VARIABLE mix
Mixes == {{"password", "password_reset", "rotate"},
          {"password", "password_reset", "delete"},
          {"password", "magic_link", "oauth", "enable"},
          {"password", "passkey", "enable", "verify"},
          {"magic_link", "rotate"},
          {"mobile", "password", "rotate"},
          {"mobile", "oauth", "rotate"}}

\* Bounds: where passwords are in the mix a session is rotated once; where there
\* are devices there are two sessions, and every request comes through the API;
\* without a factor no codes are given, and with one no failure is recorded.
TokenBound == IF "password" \in mix THEN 2 ELSE MaxTokens
SessionBound == IF "mobile" \in mix THEN 2 ELSE 1

MCInit == MobileInit /\ mix \in Mixes
MCNext ==
  /\ MobileNext /\ UNCHANGED mix /\ tokens' <= TokenBound
  /\ \A r \in Requests : req'[r].op \in mix \cup {"none"}
  /\ \A r \in Requests : IF "mobile" \in mix THEN call'[r] = NoCall => req'[r] = Idle
                         ELSE call'[r] = NoCall
  /\ \A l \in Links : link'[l] # None => link'[l].kind \in mix
  /\ IF "enable" \in mix THEN failures' = 0
     ELSE factor' = {} /\ \A r \in Requests : req'[r].code = None
  /\ Cardinality({s \in Sessions : sess'[s] # NoSession}) <= SessionBound
MCSpec == MCInit /\ [][MCNext]_<<vars, mobileVars, call, mobileHistory, mix>>

Symmetry == Permutations(Requests) \cup Permutations(Sessions) \cup Permutations(Devices)
=============================================================================
