---------------------------- MODULE AuthSessions -----------------------------
(***************************************************************************)
(* The credentials and sessions of one account (packages/auth/src/index.ts)*)
(*                                                                         *)
(* A request runs one operation of the service.  One action is one         *)
(* autocommitted statement, with the checks up to the next one.  The       *)
(* transactions of the service are READ COMMITTED and see each other       *)
(* between their statements; the writes of finalizeOAuthCallback are one   *)
(* action, since they commit together.                                     *)
(***************************************************************************)
EXTENDS Integers, FiniteSets

CONSTANTS
  Requests, Sessions,
  Links,         \* rows of auth_tokens, auth_oauth_states and auth_challenges
  Codes,         \* the recovery codes that enableTotpFactor makes
  Coordinators,  \* what tells the browsers of one session apart
  None,
  MaxFailed,     \* authSecurityPolicy.maxFailedLoginAttempts
  MaxTokens,     \* bound: refresh tokens made
  MaxFaults      \* bound: crashes and failing statements, together

LinkKinds == {"magic_link", "password_reset", "oauth", "passkey"}
LinkRows == [kind : LinkKinds, live : BOOLEAN]

ASSUME AuthAssumption ==
  /\ IsFiniteSet(Requests) /\ IsFiniteSet(Codes)
  /\ None \notin Requests \cup Sessions \cup Links \cup Codes \cup Coordinators \cup LinkRows
  /\ "totp" \notin Codes \cup {None}
  /\ MaxFailed \in Nat \ {0} /\ MaxTokens \in Nat /\ MaxFaults \in Nat

VARIABLES
  pw, deleted, required,  \* auth_users: version of password_hash, deleted_at, mfa_required
  factor, code,           \* the states of the TOTP factors; the recovery codes
  link,                   \* the one-use rows
  sess,                   \* auth_sessions
  tokens,                 \* refresh tokens made so far; each has its own number
  results,                \* rows of kind refresh_rotation_result
  failures,               \* failed sign-ins of the last 15 minutes
  req,                    \* what each request does
  faults,
  proved,    \* history: sessions for which a second factor was presented
  answers,   \* history: rotations; new = 0 is invalid_refresh_token, for a coordinator
  raced,     \* history: sessions made for a password replaced since its check
  half       \* history: a reset died before it revoked the sessions

userVars == <<pw, deleted>>
mfaVars == <<required, factor, code>>
sessVars == <<sess, tokens, results>>
history == <<proved, answers, raced, half>>
vars == <<userVars, mfaVars, link, sessVars, failures, req, faults, history>>

\* "stale": expires_at has passed; "ended": refresh_expires_at has, or revoked.
NoSession == [status |-> "none", refresh |-> 0, mfa |-> FALSE, pw |-> -1]
SessionStates ==
  [status : {"none", "live", "stale", "ended"}, refresh : 0..MaxTokens,
   mfa : BOOLEAN, pw : Int]
Rotations == [old : 1..MaxTokens, coord : Coordinators \cup {None}, new : 0..MaxTokens]

\* Where a request is, with what it was called and what it has found out.
Idle == [op |-> "none", at |-> "idle", link |-> None, sess |-> None, pw |-> -1, code |-> None,
         mfa |-> FALSE, proof |-> FALSE, token |-> 0, coord |-> None]
RequestStates ==
  [op : {"none", "password", "magic_link", "oauth", "passkey", "password_reset", "delete",
         "rotate", "enable", "verify"},
   at : {"idle", "user", "failed", "consume", "found", "mfa", "spend", "create", "set",
         "revoke", "result", "select", "update", "poll", "enable", "require", "mark", "codes"},
   link : Links \cup {None}, sess : Sessions \cup {None}, pw : Int,
   code : Codes \cup {"totp", None}, mfa : BOOLEAN, proof : BOOLEAN,
   token : 0..MaxTokens, coord : Coordinators \cup {None}]

AuthTypeOK ==
  /\ pw \in Nat /\ deleted \in BOOLEAN /\ required \in BOOLEAN
  /\ factor \subseteq {"pending", "enabled"}
  /\ code \in [Codes -> {"none", "unused", "used"}]
  /\ link \in [Links -> LinkRows \cup {None}]
  /\ sess \in [Sessions -> SessionStates] /\ tokens \in 0..MaxTokens
  /\ results \subseteq Rotations /\ failures \in Nat
  /\ req \in [Requests -> RequestStates] /\ faults \in 0..MaxFaults
  /\ proved \subseteq Sessions /\ raced \subseteq Sessions
  /\ answers \subseteq Rotations /\ half \in BOOLEAN

Init ==
  /\ pw = 0 /\ deleted = FALSE /\ required = FALSE
  /\ factor = {} /\ code = [c \in Codes |-> "none"]
  /\ link = [l \in Links |-> None] /\ sess = [s \in Sessions |-> NoSession] /\ tokens = 0
  /\ results = {} /\ failures = 0 /\ req = [r \in Requests |-> Idle] /\ faults = 0
  /\ proved = {} /\ raced = {}
  /\ answers = {} /\ half = FALSE

-----------------------------------------------------------------------------
At(r, s) == req[r].at = s
Is(r, op) == req[r].op = op
Become(r, x) == req' = [req EXCEPT ![r] = x]
Go(r, s) == Become(r, [req[r] EXCEPT !.at = s])
Done(r) == Become(r, Idle)
Fault == faults < MaxFaults /\ faults' = faults + 1
\* A session whose token can be used (getSession asks for the user as well), and
\* one whose refresh token can.
Live(s) == sess[s].status = "live"
Refreshable(s) == sess[s].status \in {"live", "stale"}
\* Everything but the requests stays.
OnlyRequests == UNCHANGED <<userVars, mfaVars, link, sessVars, failures, faults, history>>

\* createMagicLink and createPasswordReset, for a user that is found.
Issue(l, k) ==
  /\ link[l] = None /\ k \in {"magic_link", "password_reset"} /\ ~deleted
  /\ link' = [link EXCEPT ![l] = [kind |-> k, live |-> TRUE]]
  /\ UNCHANGED <<userVars, mfaVars, sessVars, failures, req, faults, history>>
\* createOAuthAuthorizationUrl and beginPasskeyAuthentication, for anybody.
Challenge(l, k) ==
  /\ link[l] = None /\ k \in {"oauth", "passkey"}
  /\ link' = [link EXCEPT ![l] = [kind |-> k, live |-> TRUE]]
  /\ UNCHANGED <<userVars, mfaVars, sessVars, failures, req, faults, history>>

\* Time: a link, the tokens of a session or a rotation result expires, or a
\* failed attempt leaves the window.
ExpireLink(l) ==
  /\ link[l] # None /\ link[l].live
  /\ link' = [link EXCEPT ![l].live = FALSE]
  /\ UNCHANGED <<userVars, mfaVars, sessVars, failures, req, faults, history>>
ExpireSession(s) ==
  /\ Refreshable(s)
  /\ sess' = [sess EXCEPT ![s].status = IF Live(s) THEN "stale" ELSE "ended"]
  /\ UNCHANGED <<userVars, mfaVars, link, tokens, results, failures, req, faults, history>>
ExpireResult(x) ==
  /\ results' = results \ {x}
  /\ UNCHANGED <<userVars, mfaVars, link, sess, tokens, failures, req, faults, history>>
WindowMoves ==
  /\ failures > 0 /\ failures' = failures - 1
  /\ UNCHANGED <<userVars, mfaVars, link, sessVars, req, faults, history>>

-----------------------------------------------------------------------------
(* One-use links *)

\* An operation is called with a link, completeOAuthCallback perhaps with a code.
CallWithLink(r, l, c) ==
  /\ req[r] = Idle /\ link[l] # None /\ (c # None => link[l].kind = "oauth")
  /\ Become(r, [Idle EXCEPT !.op = link[l].kind, !.at = "consume", !.link = l, !.code = c])
  /\ OnlyRequests

\* consumeToken, consumePasskeyChallenge, claimOAuthCallback: the UPDATE's WHERE.
Usable(l) == link[l].live

AfterLink(r) == IF Is(r, "password_reset") THEN "set" ELSE "found"
Consume(r) ==
  LET l == req[r].link IN
  /\ At(r, "consume")
  /\ IF Usable(l)
     THEN link' = [link EXCEPT ![l].live = FALSE] /\ Go(r, AfterLink(r))
     ELSE UNCHANGED link /\ Done(r)
  /\ UNCHANGED <<userVars, mfaVars, sessVars, failures, faults, history>>

\* Mutant of Assured: the user's mfa_required is not asked for.
AssuredByPolicy(enforce) == enforce

\* finalizeOAuthCallback, mfaVerified: called with enforceMfa, for such a user.
Assured(enforce) == enforce /\ required

\* signInWithMagicLink, after findUserById.
FoundByLink(r) ==
  /\ At(r, "found") /\ Is(r, "magic_link")
  /\ IF deleted THEN Done(r) ELSE Go(r, "create")
  /\ OnlyRequests
\* finalizeOAuthCallback finds the account or a user with the verified address.
FoundByProvider(r) ==
  /\ At(r, "found") /\ Is(r, "oauth") /\ ~deleted
  /\ \E enforce \in BOOLEAN :
       Become(r, [req[r] EXCEPT !.mfa = Assured(enforce),
                                !.code = IF Assured(enforce) THEN @ ELSE None,
                                !.at = IF Assured(enforce) THEN "mfa" ELSE "create"])
  /\ OnlyRequests
\* verifyPasskeyAuthentication; without a user verification it verifies no session.
FoundByPasskey(r) ==
  /\ At(r, "found") /\ Is(r, "passkey")
  /\ \E verified \in BOOLEAN :
       Become(r, [req[r] EXCEPT !.mfa = verified, !.proof = verified, !.at = "create"])
  /\ OnlyRequests
VerifiedByPasskey(r) ==
  /\ At(r, "found") /\ Is(r, "verify")
  /\ Become(r, [req[r] EXCEPT !.proof = TRUE, !.at = "mark"])
  /\ OnlyRequests
\* The provider or the authenticator refuses, or the user is not found.
Refused(r) == At(r, "found") /\ ~Is(r, "magic_link") /\ Done(r) /\ OnlyRequests

-----------------------------------------------------------------------------
(* signInWithPassword, the lockout and the second factor *)

\* Mutant of Locked: one attempt more.
LockedLate == failures > MaxFailed

\* assertNotLocked counts the failures of the window.
Locked == failures >= MaxFailed

\* The caller gives the password of now (or a wrong one) and perhaps a code.
CallPassword(r, v, c) ==
  /\ req[r] = Idle /\ ~Locked
  /\ Become(r, [Idle EXCEPT !.op = "password", !.at = "user", !.pw = v, !.code = c])
  /\ OnlyRequests

Failed(r) == Become(r, [Idle EXCEPT !.op = "password", !.at = "failed"])

\* findUserByEmail and verifyPassword.
FindUser(r) ==
  /\ At(r, "user") /\ Is(r, "password")
  /\ CASE deleted \/ req[r].pw # pw -> Failed(r)
       [] ~deleted /\ req[r].pw = pw /\ required ->
            Become(r, [req[r] EXCEPT !.at = "mfa", !.mfa = TRUE])
       [] OTHER -> Become(r, [req[r] EXCEPT !.at = "create", !.code = None])
  /\ OnlyRequests

\* recordLoginAttempt of a failure.
RecordFailure(r) ==
  /\ At(r, "failed") /\ failures' = failures + 1 /\ Done(r)
  /\ UNCHANGED <<userVars, mfaVars, link, sessVars, faults, history>>

\* verifyMfaCode reads the factor and the unused recovery codes.  A code that it
\* finds is marked in the next statement, or when the transaction of
\* finalizeOAuthCallback commits.
AfterMfa(r) == IF Is(r, "verify") THEN "mark" ELSE "create"
VerifyMfa(r) ==
  LET c == req[r].code IN
  /\ At(r, "mfa")
  /\ CASE "enabled" \notin factor -> Go(r, AfterMfa(r))
       [] "enabled" \in factor /\ c = "totp" ->
            Become(r, [req[r] EXCEPT !.at = AfterMfa(r), !.proof = TRUE])
       [] "enabled" \in factor /\ c \in Codes /\ code[c] = "unused" ->
            Become(r, [req[r] EXCEPT !.at = IF Is(r, "oauth") THEN "create" ELSE "spend",
                                     !.proof = TRUE])
       [] OTHER -> IF Is(r, "password") THEN Failed(r) ELSE Done(r)
  /\ OnlyRequests

Spent(c) == code' = IF c \in Codes THEN [code EXCEPT ![c] = "used"] ELSE code
SpendCode(r) ==
  /\ At(r, "spend") /\ Spent(req[r].code) /\ Go(r, AfterMfa(r))
  /\ UNCHANGED <<userVars, required, factor, link, sessVars, failures, faults, history>>

\* createSession, in "oauth" together with the code that was found.
CreateSession(r, s) ==
  /\ At(r, "create") /\ sess[s] = NoSession /\ tokens < MaxTokens
  /\ tokens' = tokens + 1
  /\ sess' = [sess EXCEPT ![s] = [status |-> "live", refresh |-> tokens + 1,
                                  mfa |-> req[r].mfa, pw |-> req[r].pw]]
  /\ IF Is(r, "oauth") THEN Spent(req[r].code) ELSE UNCHANGED code
  /\ proved' = IF req[r].proof THEN proved \cup {s} ELSE proved
  /\ raced' = IF Is(r, "password") /\ req[r].pw # pw THEN raced \cup {s} ELSE raced
  /\ Done(r)
  /\ UNCHANGED <<userVars, required, factor, link, results, failures, faults, answers, half>>

-----------------------------------------------------------------------------
(* resetPassword, deleteAccount, revokeSession *)

SetPassword(r) ==
  /\ At(r, "set") /\ Is(r, "password_reset")
  /\ pw' = pw + 1 /\ Go(r, "revoke")
  /\ UNCHANGED <<deleted, mfaVars, link, sessVars, failures, faults, proved, answers, raced, half>>

\* Mutant of Revoked: the UPDATE takes only the sessions that have not expired.
RevokedLive == [s \in Sessions |-> IF Live(s) THEN [sess[s] EXCEPT !.status = "ended"]
                                   ELSE sess[s]]

Revoked == [s \in Sessions |-> IF sess[s].status = "none" THEN sess[s]
                               ELSE [sess[s] EXCEPT !.status = "ended"]]
RevokeAll(r) ==
  /\ At(r, "revoke") /\ sess' = Revoked /\ half' = FALSE /\ Done(r)
  /\ UNCHANGED <<userVars, mfaVars, link, tokens, results, failures, faults, proved,
                 answers, raced>>

\* findUserById and verifyPassword of deleteAccount; its writes commit with the
\* transaction of deleteAccountAction.
CallDelete(r) ==
  /\ req[r] = Idle /\ ~deleted
  /\ Become(r, [Idle EXCEPT !.op = "delete", !.at = "set"])
  /\ OnlyRequests
SetDeleted(r) ==
  /\ At(r, "set") /\ Is(r, "delete") /\ deleted' = TRUE /\ sess' = Revoked /\ Done(r)
  /\ UNCHANGED <<pw, mfaVars, link, tokens, results, failures, faults, history>>

RevokeSession(s) ==
  /\ sess[s].status # "none"
  /\ sess' = [sess EXCEPT ![s].status = "ended"]
  /\ UNCHANGED <<userVars, mfaVars, link, tokens, results, failures, req, faults, history>>

-----------------------------------------------------------------------------
(* createTotpEnrollment, enableTotpFactor, verifySessionMfa, finishPasskeySessionMfa *)

\* Whatever factors there are, another one is inserted.
Enroll ==
  /\ ~deleted /\ factor' = factor \cup {"pending"}
  /\ UNCHANGED <<userVars, required, code, link, sessVars, failures, req, faults, history>>

\* enableTotpFactor has verified the code of the pending factor.
CallEnable(r, s) ==
  /\ req[r] = Idle /\ "pending" \in factor
  /\ Become(r, [Idle EXCEPT !.op = "enable", !.at = "enable", !.sess = s, !.proof = TRUE])
  /\ OnlyRequests

\* Others may still be pending.
EnableFactor(r) ==
  /\ At(r, "enable") /\ Go(r, "require")
  /\ factor' \in {{"enabled"}, factor \cup {"enabled"}}
  /\ UNCHANGED <<userVars, required, code, link, sessVars, failures, faults, history>>
RequireMfa(r) ==
  /\ At(r, "require") /\ required' = TRUE
  /\ Go(r, IF req[r].sess = None THEN "codes" ELSE "mark")
  /\ UNCHANGED <<userVars, factor, code, link, sessVars, failures, faults, history>>
InsertCode(r, c) ==
  /\ At(r, "codes") /\ code[c] = "none" /\ code' = [code EXCEPT ![c] = "unused"]
  /\ UNCHANGED <<userVars, required, factor, link, sessVars, failures, req, faults, history>>
Enabled(r) == At(r, "codes") /\ Done(r) /\ OnlyRequests

\* The session is verified with a code, or with a passkey.
CallVerify(r, s, c) ==
  /\ req[r] = Idle /\ Live(s) /\ "enabled" \in factor
  /\ Become(r, [Idle EXCEPT !.op = "verify", !.at = "mfa", !.sess = s, !.code = c])
  /\ OnlyRequests
CallVerifyPasskey(r, s, l) ==
  /\ req[r] = Idle /\ Live(s) /\ link[l] # None /\ link[l].kind = "passkey"
  /\ Become(r, [Idle EXCEPT !.op = "verify", !.at = "consume", !.sess = s, !.link = l])
  /\ OnlyRequests

\* The UPDATE of the session: enableTotpFactor does not ask for expires_at, and
\* finishPasskeySessionMfa compares it with the time at which it was called.
Markable(r, s) ==
  IF Is(r, "verify") /\ req[r].link = None THEN Live(s) ELSE Refreshable(s)
MarkVerified(r) ==
  LET s == req[r].sess IN
  /\ At(r, "mark")
  /\ IF Markable(r, s)
     THEN /\ sess' = [sess EXCEPT ![s].mfa = TRUE]
          /\ proved' = IF req[r].proof THEN proved \cup {s} ELSE proved
     ELSE UNCHANGED <<sess, proved>>
  /\ IF Is(r, "enable") THEN Go(r, "codes") ELSE Done(r)
  /\ UNCHANGED <<userVars, mfaVars, link, tokens, results, failures, faults, answers, raced, half>>

-----------------------------------------------------------------------------
(* rotateRefreshToken *)

CallRotate(r, t, c) ==
  /\ req[r] = Idle
  /\ Become(r, [Idle EXCEPT !.op = "rotate", !.at = IF c = None THEN "select" ELSE "result",
                            !.token = t, !.coord = c])
  /\ OnlyRequests

\* findRefreshRotationResult, for this token and coordinator.
Completed(r) == {x \in results : x.old = req[r].token /\ x.coord = req[r].coord}
Answer(r, x) == answers' = answers \cup {x} /\ Done(r)
Denial(r) == [old |-> req[r].token, coord |-> req[r].coord, new |-> 0]
\* Nothing was found: without a coordinator that is the end.
Missed(r) ==
  (IF req[r].coord = None THEN Done(r) ELSE Go(r, "poll")) /\ UNCHANGED answers

FindResult(r) ==
  /\ At(r, "result")
  /\ \/ \E x \in Completed(r) : Answer(r, x)
     \/ Completed(r) = {} /\ Go(r, "select") /\ UNCHANGED answers
  /\ UNCHANGED <<userVars, mfaVars, link, sessVars, failures, faults, proved, raced,
                 half>>

HasToken(s, t) == Refreshable(s) /\ sess[s].refresh = t
SelectSession(r) ==
  /\ At(r, "select")
  /\ \/ \E s \in Sessions :
          /\ HasToken(s, req[r].token) /\ UNCHANGED answers
          /\ Become(r, [req[r] EXCEPT !.at = "update", !.sess = s])
     \/ (\A s \in Sessions : ~HasToken(s, req[r].token)) /\ Missed(r)
  /\ UNCHANGED <<userVars, mfaVars, link, sessVars, failures, faults, proved, raced,
                 half>>

\* Mutant of Rotatable: the UPDATE goes by the id of the session alone.
RotatableById(r) == Refreshable(req[r].sess)

\* The WHERE clause of the UPDATE.
Rotatable(r) == HasToken(req[r].sess, req[r].token)

\* The UPDATE and saveRefreshRotationResult commit together.
Rotate(r) ==
  LET x == [old |-> req[r].token, coord |-> req[r].coord, new |-> tokens + 1] IN
  /\ At(r, "update") /\ Rotatable(r) /\ tokens < MaxTokens
  /\ tokens' = tokens + 1
  /\ sess' = [sess EXCEPT ![req[r].sess].refresh = tokens + 1, ![req[r].sess].status = "live"]
  /\ results' = IF req[r].coord = None THEN results ELSE (results \ Completed(r)) \cup {x}
  /\ Answer(r, x)
  /\ UNCHANGED <<userVars, mfaVars, link, failures, faults, proved, raced, half>>
RotateLost(r) ==
  /\ At(r, "update") /\ ~Rotatable(r)
  /\ \/ \E x \in Completed(r) : Answer(r, x)
     \/ Completed(r) = {} /\ Missed(r)
  /\ UNCHANGED <<userVars, mfaVars, link, sessVars, failures, faults, proved, raced,
                 half>>

\* Mutant of Poll: who lost the race does not look again.
PollNever(r) ==
  /\ At(r, "poll") /\ Answer(r, Denial(r))
  /\ UNCHANGED <<userVars, mfaVars, link, sessVars, failures, faults, proved, raced,
                 half>>

\* The four looks for the result of the winner; the last may find nothing.
Poll(r) ==
  /\ At(r, "poll")
  /\ \/ \E x \in Completed(r) : Answer(r, x)
     \/ Completed(r) = {} /\ Answer(r, Denial(r))
  /\ UNCHANGED <<userVars, mfaVars, link, sessVars, failures, faults, proved, raced,
                 half>>

\* A statement raises, or the process dies, between two statements.
Die(r) ==
  /\ req[r] # Idle /\ Fault /\ Done(r)
  /\ half' = (half \/ (At(r, "revoke") /\ Is(r, "password_reset")))
  /\ UNCHANGED <<userVars, mfaVars, link, sessVars, failures, proved, answers, raced>>

-----------------------------------------------------------------------------
Time ==
  \/ \E l \in Links : ExpireLink(l)
  \/ \E s \in Sessions : ExpireSession(s)
  \/ \E x \in results : ExpireResult(x)
  \/ WindowMoves
Call(r) ==
  \/ \E l \in Links, c \in Codes \cup {"totp", None} : CallWithLink(r, l, c)
  \/ \E v \in {pw, -1}, c \in Codes \cup {"totp", None} : CallPassword(r, v, c)
  \/ CallDelete(r)
  \/ \E s \in Sessions \cup {None} : CallEnable(r, s)
  \/ \E s \in Sessions, c \in Codes \cup {"totp"} : CallVerify(r, s, c)
  \/ \E s \in Sessions, l \in Links : CallVerifyPasskey(r, s, l)
  \/ \E t \in 1..tokens, c \in Coordinators \cup {None} : CallRotate(r, t, c)
SignIn(r) ==
  \/ Consume(r) \/ FoundByLink(r) \/ FoundByProvider(r) \/ FoundByPasskey(r)
  \/ VerifiedByPasskey(r) \/ Refused(r) \/ FindUser(r) \/ RecordFailure(r)
  \/ VerifyMfa(r) \/ SpendCode(r) \/ \E s \in Sessions : CreateSession(r, s)
Change(r) ==
  \/ SetPassword(r) \/ SetDeleted(r) \/ RevokeAll(r)
  \/ EnableFactor(r) \/ RequireMfa(r) \/ (\E c \in Codes : InsertCode(r, c)) \/ Enabled(r)
  \/ MarkVerified(r)
Rotation(r) ==
  FindResult(r) \/ SelectSession(r) \/ Rotate(r) \/ RotateLost(r) \/ Poll(r)

Next ==
  \/ \E l \in Links, k \in LinkKinds : Issue(l, k) \/ Challenge(l, k)
  \/ \E s \in Sessions : RevokeSession(s)
  \/ Enroll \/ Time
  \/ \E r \in Requests : Call(r) \/ SignIn(r) \/ Change(r) \/ Rotation(r) \/ Die(r)

Spec == Init /\ [][Next]_vars

-----------------------------------------------------------------------------
\* The lockout lets through at most the attempts that were being made at the
\* same time: failures are counted in one statement and recorded in a later one.
LockoutBounded == failures <= MaxFailed - 1 + Cardinality(Requests)

\* After a reset no session of the old password can be used or refreshed.  The
\* exceptions are the code's: a sign-in whose check ran before the reset and
\* whose session was made after it, and a reset that is between its statements
\* or died there.
PasswordOfLiveSession ==
  \A s \in Sessions :
    Refreshable(s) /\ sess[s].pw >= 0 /\ sess[s].pw # pw
    => s \in raced \/ half \/ \E r \in Requests : Is(r, "password_reset") /\ At(r, "revoke")

\* A session counts as verified by a second factor only if one was presented,
\* while the factor is being enabled in several statements too.
MfaMeansProof == \A s \in Sessions : sess[s].mfa => s \in proved

\* However many requests rotate a refresh token, one successor is made; and who
\* rotates with the coordinator of the winner is given the winner's result as
\* long as it is kept.
RotationCoordinated ==
  \A a, b \in answers :
    /\ a.old = b.old /\ a.new > 0 /\ b.new > 0 => a.new = b.new
    /\ a.old = b.old /\ a.coord = b.coord /\ a.coord # None /\ a.new > 0 /\ b.new = 0
       => a \notin results

=============================================================================
