--------------------------- MODULE MobileSessions ----------------------------
(***************************************************************************)
(* The mobile devices and sessions of the API (packages/api/src/service.ts)*)
(* in front of AuthSessions.  A request of the API calls one operation of  *)
(* the auth service, waits for it, and goes on with rows of its own.       *)
(***************************************************************************)
EXTENDS AuthSessions

CONSTANT Devices

ASSUME MobileAssumption == None \notin Devices

VARIABLES
  device,  \* mobile_devices
  mobile,  \* mobile_sessions, by auth_session_id
  call,    \* what each request does beside its call of the auth service
  late,    \* history: sessions whose row was made after their device was revoked
  missed   \* history: sessions a revocation did not see, or did not come to

mobileVars == <<device, mobile>>
mobileHistory == <<late, missed>>

NoMobile == [device |-> None, revoked |-> FALSE]
NoCall == [at |-> "none", device |-> None, sess |-> None, left |-> {}]

MobileInit ==
  /\ Init
  /\ device = [d \in Devices |-> "none"] /\ mobile = [s \in Sessions |-> NoMobile]
  /\ call = [r \in Requests |-> NoCall] /\ late = {} /\ missed = {}

\* authenticateMobileSession finds the session by both of its rows.
Authenticated(s) == Live(s) /\ ~deleted /\ mobile[s] # NoMobile /\ ~mobile[s].revoked

-----------------------------------------------------------------------------
Waits(r) == call[r].at \in {"sign in", "refresh"}
CallAt(r, s) == call[r].at = s /\ req[r] = Idle
Turn(r, x) == call' = [call EXCEPT ![r] = x]
OnlyCalls == UNCHANGED <<vars, mobileVars, mobileHistory>>

\* createMobileSession, the API's completeOAuthCallback and refreshMobileSession
\* call the auth service; nothing of their own comes before.
CallSignIn(r) ==
  /\ call[r] = NoCall
  /\ \E c \in Codes \cup {"totp", None} :
       \/ \E v \in {pw, -1} : CallPassword(r, v, c)
       \/ \E l \in Links : CallWithLink(r, l, c) /\ link[l].kind = "oauth"
  /\ Turn(r, [NoCall EXCEPT !.at = "sign in"])
  /\ UNCHANGED <<mobileVars, mobileHistory>>
CallRefresh(r) ==
  /\ call[r] = NoCall /\ \E t \in 1..tokens : CallRotate(r, t, None)
  /\ Turn(r, [NoCall EXCEPT !.at = "refresh"])
  /\ UNCHANGED <<mobileVars, mobileHistory>>

\* The auth service returns to a request that waits: with the session that it
\* has made or rotated, or with an error, which ends the request.
Returned(r) ==
  LET made == {s \in Sessions : /\ At(r, "create") \/ At(r, "update")
                                /\ sess[s].refresh # sess'[s].refresh} IN
  IF made = {} THEN NoCall
  ELSE [NoCall EXCEPT !.sess = CHOOSE s \in made : TRUE,
                      !.at = IF call[r].at = "sign in" THEN "device" ELSE "rotated"]

\* One step of the auth service, for requests of the API and for others.
AuthStep ==
  /\ Next
  /\ \A r \in Requests : call[r] # NoCall /\ ~Waits(r) => req'[r] = Idle
  /\ \A r \in Requests :  \* enforceMfa
       Waits(r) /\ At(r, "found") => req'[r] \in {req[r], Idle} \/ req'[r].mfa = required
  /\ call' = [r \in Requests |-> IF Waits(r) /\ req'[r] = Idle THEN Returned(r) ELSE call[r]]
  /\ UNCHANGED <<mobileVars, mobileHistory>>

-----------------------------------------------------------------------------
(* createMobileSession, completeOAuthCallback *)

\* getOrCreateMobileDevice: a row with the fingerprint that is not revoked, or
\* a new one.
GetDevice(r, d) ==
  /\ CallAt(r, "device") /\ device[d] # "revoked"
  /\ device' = [device EXCEPT ![d] = "known"]
  /\ Turn(r, [call[r] EXCEPT !.at = "row", !.device = d])
  /\ UNCHANGED <<vars, mobile, mobileHistory>>

\* The row of the session is new: the auth session has just been made.  A
\* revocation that has read the sessions of the device does not know it.
InsertMobile(r) ==
  LET s == call[r].sess
      d == call[r].device
  IN
  /\ CallAt(r, "row") /\ Turn(r, NoCall)
  /\ mobile' = [mobile EXCEPT ![s] = [device |-> d, revoked |-> FALSE]]
  /\ late' = IF device[d] = "revoked" THEN late \cup {s} ELSE late
  /\ missed' = IF \E q \in Requests : CallAt(q, "devices") /\ call[q].device = d
               THEN missed \cup {s} ELSE missed
  /\ UNCHANGED <<vars, device>>

-----------------------------------------------------------------------------
(* refreshMobileSession *)

\* The UPDATE of rotated_at finds the row unless it is revoked.
UpdateRotated(r) ==
  LET s == call[r].sess IN
  /\ CallAt(r, "rotated")
  /\ Turn(r, IF mobile[s] # NoMobile /\ ~mobile[s].revoked THEN NoCall
             ELSE [call[r] EXCEPT !.at = "end"])
  /\ OnlyCalls
EndSession(r) ==
  /\ CallAt(r, "end") /\ RevokeSession(call[r].sess) /\ Turn(r, NoCall)
  /\ UNCHANGED <<mobileVars, mobileHistory>>

-----------------------------------------------------------------------------
(* revokeMobileDevice, asked for with a mobile session of the user *)

\* Mutant of Linked: only the session of the caller is read.
LinkedOfCaller(d, s) == {s} \cap {x \in Sessions : mobile[x].device = d}

\* The SELECT of the device's sessions.
Linked(d, s) == {x \in Sessions : mobile[x].device = d /\ ~mobile[x].revoked}

CallRevokeDevice(r, d, s) ==
  /\ req[r] = Idle /\ call[r] = NoCall /\ Authenticated(s) /\ device[d] # "none"
  /\ Turn(r, [NoCall EXCEPT !.at = "devices", !.device = d, !.left = Linked(d, s)])
  /\ OnlyCalls
\* One transaction for the device and the rows of its sessions.
MarkRevoked(r) ==
  LET d == call[r].device IN
  /\ CallAt(r, "devices")
  /\ device' = [device EXCEPT ![d] = "revoked"]
  /\ mobile' = [s \in Sessions |-> IF mobile[s].device = d THEN [mobile[s] EXCEPT !.revoked = TRUE]
                                   ELSE mobile[s]]
  /\ Turn(r, IF call[r].left = {} THEN NoCall ELSE [call[r] EXCEPT !.at = "sessions"])
  /\ UNCHANGED <<vars, mobileHistory>>
\* auth.revokeSession, for one session after the other.
RevokeLinked(r, s) ==
  LET rest == call[r].left \ {s} IN
  /\ CallAt(r, "sessions") /\ s \in call[r].left /\ RevokeSession(s)
  /\ Turn(r, IF rest = {} THEN NoCall ELSE [call[r] EXCEPT !.left = rest])
  /\ UNCHANGED <<mobileVars, mobileHistory>>

\* The process dies while the request is not in the auth service, or a
\* statement raises.
DieOutside(r) ==
  /\ call[r] # NoCall /\ ~Waits(r) /\ Fault /\ Turn(r, NoCall)
  /\ missed' = IF CallAt(r, "sessions") THEN missed \cup call[r].left ELSE missed
  /\ UNCHANGED <<userVars, mfaVars, link, sessVars, failures, req, history, mobileVars, late>>

-----------------------------------------------------------------------------
Mobile(r) ==
  \/ CallSignIn(r) \/ (\E d \in Devices : GetDevice(r, d)) \/ InsertMobile(r)
  \/ CallRefresh(r) \/ UpdateRotated(r) \/ EndSession(r)
  \/ \E d \in Devices, s \in Sessions : CallRevokeDevice(r, d, s)
  \/ MarkRevoked(r) \/ (\E s \in Sessions : RevokeLinked(r, s)) \/ DieOutside(r)

MobileNext == AuthStep \/ \E r \in Requests : Mobile(r)

MobileSpec == MobileInit /\ [][MobileNext]_<<vars, mobileVars, call, mobileHistory>>

-----------------------------------------------------------------------------
\* Revoking a device ends the sessions linked to it: from its transaction on no
\* session of the device authenticates, and when it has returned none of them
\* can be used or refreshed.  The exceptions: a sign-in that had its device
\* before the revocation and makes its session's row after it, and the sessions
\* that the revocation did not read in time or left when it died.
DeviceRevocation ==
  \A s \in Sessions :
    mobile[s] # NoMobile /\ device[mobile[s].device] = "revoked" =>
      /\ Authenticated(s) => s \in late
      /\ Refreshable(s) => \/ s \in late \cup missed
                           \/ \E r \in Requests : CallAt(r, "sessions") /\ s \in call[r].left

=============================================================================
