------------------------------ MODULE AuthProofs ------------------------------
(***************************************************************************)
(* Machine-checked proofs about AuthSessions and MobileSessions, for every *)
(* value of their constants.  A step of the API is a step of the auth      *)
(* service, or a failing statement that the service does not see; so each  *)
(* invariant of the service is proved of both specifications at once.      *)
(***************************************************************************)
EXTENDS MobileSessions, FiniteSetTheorems, TLAPS

\* A statement of the API fails outside the auth service.
OutsideFault ==
  Fault /\ UNCHANGED <<userVars, mfaVars, link, sessVars, failures, req, history>>
AnyStep == Next \/ OutsideFault \/ UNCHANGED vars

-----------------------------------------------------------------------------
(* The invariant of the requests. *)

\* No session answers to the token any more.
Dead(t) == \A s \in Sessions : ~HasToken(s, t)

\* What a request knows where it is.
Allowed(r) ==
  LET q == req[r] IN
  /\ q.op # "password" => q.pw = -1
  /\ q.at \in {"user", "consume", "found"} => ~q.mfa
  /\ q.at \in {"mfa", "require"} => "enabled" \in factor
  /\ q.at = "create" /\ q.mfa => q.proof
  /\ q.at \in {"spend", "mark", "enable", "require"} => q.proof
  /\ q.at = "failed" => q.op = "password"
  /\ (q.at \in {"mark", "update"} \/ q.op = "verify") => q.sess \in Sessions
  /\ q.at \in {"result", "select", "update", "poll"} => q.token \in 1..tokens
  /\ q.at = "consume" => q.link \in Links /\ link[q.link] # None
  /\ q.at = "poll" => Dead(q.token)
  /\ q.at = "update" => \A s \in Sessions : sess[s].refresh = q.token => s = q.sess

\* Sessions do not share a token.
Distinct ==
  \A s, x \in Sessions :
    /\ s # x /\ sess[s].refresh = sess[x].refresh => sess[s].refresh = 0
    /\ sess[s].refresh <= tokens

ReqInv ==
  /\ AuthTypeOK /\ (required => "enabled" \in factor) /\ Distinct
  /\ \A r \in Requests : Allowed(r)

-----------------------------------------------------------------------------
(* What a step does to the tokens of the sessions. *)

\* No token is made, and no session comes or comes back.
NoToken ==
  /\ tokens' = tokens /\ sess' \in [Sessions -> SessionStates]
  /\ \A s \in Sessions : /\ sess'[s].refresh = sess[s].refresh /\ sess'[s].pw = sess[s].pw
                         /\ Refreshable(s)' => Refreshable(s)
                         /\ sess[s].status = "none" <=> sess'[s].status = "none"

\* One session, new or in use, gets the token that is made; the others are left alone.
NewToken(s) ==
  /\ tokens' = tokens + 1 /\ tokens' \in 0..MaxTokens /\ sess' \in [Sessions -> SessionStates]
  /\ sess[s].status = "none" \/ Refreshable(s)
  /\ sess'[s].refresh = tokens + 1 /\ sess'[s].status = "live"
  /\ \A x \in Sessions \ {s} : sess'[x] = sess[x]

LEMMA TokenMoves ==
  ASSUME ReqInv, AnyStep
  PROVE  NoToken \/ \E s \in Sessions : NewToken(s)
<1>1. AuthTypeOK /\ (\A r \in Requests : Allowed(r))
  BY DEF ReqInv
<1> USE <1>1
<1>2. CASE UNCHANGED sessVars
  BY <1>2 DEF sessVars, NoToken, Refreshable, AuthTypeOK
<1>3. ASSUME NEW s \in Sessions, ExpireSession(s) \/ RevokeSession(s)
      PROVE NoToken
  BY <1>3 DEF ExpireSession, RevokeSession, NoToken, Refreshable, Live, AuthTypeOK, SessionStates
<1>4. ASSUME NEW r \in Requests, SetDeleted(r) \/ RevokeAll(r)
      PROVE NoToken
  <2>1. sess' = Revoked /\ tokens' = tokens
    BY <1>4 DEF SetDeleted, RevokeAll
  <2> QED
    BY <2>1 DEF Revoked, NoToken, Refreshable, AuthTypeOK, SessionStates
<1>5. ASSUME NEW r \in Requests, NEW s \in Sessions, CreateSession(r, s)
      PROVE NewToken(s)
  <2>1. req[r].pw \in Int /\ req[r].mfa \in BOOLEAN
    BY <1>1 DEF AuthTypeOK, RequestStates
  <2> QED
    BY <1>5, <2>1, AuthAssumption DEF CreateSession, NewToken, NoSession, AuthTypeOK, SessionStates
<1>6. ASSUME NEW r \in Requests, Rotate(r)
      PROVE NewToken(req[r].sess) /\ req[r].sess \in Sessions
  <2>1. req[r].sess \in Sessions
    BY <1>6 DEF Allowed, Rotate, At
  <2> QED
    <3>1. PICK a \in Sessions : a = req[r].sess /\ Refreshable(a)
      BY <1>6, <2>1 DEF Rotate, Rotatable, HasToken
    <3>2. /\ sess' = [sess EXCEPT ![a].refresh = tokens + 1, ![a].status = "live"]
          /\ tokens' = tokens + 1 /\ tokens < MaxTokens
      BY <1>6, <3>1 DEF Rotate
    <3>3. \A s \in Sessions :
            sess'[s] = IF s = a THEN [sess[s] EXCEPT !.refresh = tokens + 1, !.status = "live"]
                       ELSE sess[s]
      BY <3>2 DEF AuthTypeOK
    <3>4. tokens + 1 \in 0..MaxTokens
      BY <3>2, AuthAssumption DEF AuthTypeOK
    <3>5. sess'[a] \in SessionStates /\ sess'[a].refresh = tokens + 1 /\ sess'[a].status = "live"
      BY <3>3, <3>4 DEF AuthTypeOK, SessionStates
    <3> QED
      BY <3>1, <3>2, <3>3, <3>4, <3>5 DEF NewToken, AuthTypeOK
<1>7. ASSUME NEW r \in Requests, MarkVerified(r)
      PROVE NoToken
  <2>1. req[r].sess \in Sessions
    BY <1>7 DEF Allowed, MarkVerified, At
  <2>2. sess' = sess \/ sess' = [sess EXCEPT ![req[r].sess].mfa = TRUE]
    BY <1>7 DEF MarkVerified
  <2>3. tokens' = tokens /\ sess \in [Sessions -> SessionStates]
    BY <1>7 DEF MarkVerified, AuthTypeOK
  <2>4. CASE sess' = sess
    BY <2>3, <2>4 DEF NoToken, Refreshable
  <2>5. CASE sess' = [sess EXCEPT ![req[r].sess].mfa = TRUE]
    <3>1. ASSUME NEW s \in Sessions
          PROVE  sess'[s] = IF s = req[r].sess THEN [sess[s] EXCEPT !.mfa = TRUE] ELSE sess[s]
      BY <2>3, <2>5
    <3>2. ASSUME NEW s \in Sessions
          PROVE  /\ sess'[s] \in SessionStates /\ sess'[s].status = sess[s].status
                 /\ sess'[s].refresh = sess[s].refresh /\ sess'[s].pw = sess[s].pw
      BY <2>3, <3>1 DEF SessionStates
    <3>3. sess' \in [Sessions -> SessionStates]
      BY <2>3, <2>5, <3>2
    <3> QED
      BY <2>3, <3>2, <3>3 DEF NoToken, Refreshable
  <2> QED
    BY <2>2, <2>4, <2>5
<1>8. ASSUME NEW x \in results, ExpireResult(x)
      PROVE NoToken
  BY <1>8 DEF ExpireResult, NoToken, Refreshable, AuthTypeOK
<1>9. ASSUME NEW r \in Requests, Call(r) \/ Die(r)
      PROVE UNCHANGED sessVars
  BY <1>9 DEF Call, CallWithLink, CallPassword, CallDelete, CallEnable, CallVerify,
     CallVerifyPasskey, CallRotate, OnlyRequests, Die
<1>10. ASSUME NEW r \in Requests, SignIn(r)
       PROVE UNCHANGED sessVars \/ \E s \in Sessions : CreateSession(r, s)
  BY <1>10 DEF SignIn, Consume, FoundByLink, FoundByProvider, FoundByPasskey, VerifiedByPasskey,
     Refused, FindUser, RecordFailure, VerifyMfa, SpendCode, OnlyRequests
<1>11. ASSUME NEW r \in Requests, Change(r)
       PROVE UNCHANGED sessVars \/ SetDeleted(r) \/ RevokeAll(r) \/ MarkVerified(r)
  BY <1>11 DEF Change, SetPassword, EnableFactor, RequireMfa, InsertCode, Enabled, OnlyRequests
<1>12. ASSUME NEW r \in Requests, Rotation(r)
       PROVE UNCHANGED sessVars \/ Rotate(r)
  BY <1>12 DEF Rotation, FindResult, SelectSession, RotateLost, Poll
<1>13. CASE \/ \E l \in Links, k \in LinkKinds : Issue(l, k) \/ Challenge(l, k)
            \/ Enroll \/ OutsideFault \/ UNCHANGED vars
  BY <1>2, <1>13 DEF Issue, Challenge, Enroll, OutsideFault, vars
<1>14. CASE Time
  BY <1>2, <1>3, <1>8, <1>14 DEF Time, ExpireLink, WindowMoves
<1> QED
  BY <1>2, <1>3, <1>4, <1>5, <1>6, <1>7, <1>9, <1>10, <1>11, <1>12, <1>13, <1>14 DEF AnyStep, Next

LEMMA FactorStays ==
  ASSUME ReqInv, AnyStep
  PROVE  "enabled" \in factor => "enabled" \in factor'
<1>1. CASE \/ \E l \in Links, k \in LinkKinds : Issue(l, k) \/ Challenge(l, k)
           \/ \E s \in Sessions : RevokeSession(s)
           \/ OutsideFault \/ UNCHANGED vars
  BY <1>1 DEF OutsideFault, vars, mfaVars, Issue, Challenge, RevokeSession
<1>2. CASE Enroll
  BY <1>2 DEF Enroll
<1>3. CASE Time
  BY <1>3 DEF Time, ExpireLink, ExpireSession, ExpireResult, WindowMoves, mfaVars
<1>4. ASSUME NEW r \in Requests, Call(r) \/ Die(r)
      PROVE  UNCHANGED factor
  BY <1>4 DEF Call, CallWithLink, CallPassword, CallDelete, CallEnable, CallVerify,
     CallVerifyPasskey, CallRotate, Die, OnlyRequests, mfaVars
<1>5. ASSUME NEW r \in Requests, SignIn(r)
      PROVE  UNCHANGED factor
  BY <1>5 DEF SignIn, Consume, FoundByLink, FoundByProvider, FoundByPasskey, VerifiedByPasskey,
     Refused, FindUser, RecordFailure, VerifyMfa, SpendCode, CreateSession, OnlyRequests, mfaVars
<1>6. ASSUME NEW r \in Requests, Change(r)
      PROVE  "enabled" \in factor => "enabled" \in factor'
  BY <1>6 DEF Change, SetPassword, SetDeleted, RevokeAll, EnableFactor, RequireMfa, InsertCode,
     Enabled, MarkVerified, OnlyRequests, mfaVars
<1>7. ASSUME NEW r \in Requests, Rotation(r)
      PROVE  UNCHANGED factor
  BY <1>7 DEF Rotation, FindResult, SelectSession, Rotate, RotateLost, Poll, mfaVars
<1> QED
  BY <1>1, <1>2, <1>3, <1>4, <1>5, <1>6, <1>7 DEF AnyStep, Next

\* The row of a link stays.
LEMMA LinkStays ==
  ASSUME ReqInv, AnyStep, NEW k \in Links, link[k] # None
  PROVE  link'[k] # None
<1>0. link \in [Links -> LinkRows \cup {None}]
  BY DEF ReqInv, AuthTypeOK
<1>1. ASSUME NEW l \in Links, NEW m \in LinkKinds, Issue(l, m) \/ Challenge(l, m)
      PROVE  link'[k] # None
  BY <1>0, <1>1 DEF Issue, Challenge
<1>2. ASSUME NEW l \in Links, link' = [link EXCEPT ![l].live = FALSE], link[l] # None
      PROVE  link'[k] # None
  <2>1. CASE k = l
    <3>1. link[l] \in LinkRows
      BY <1>0, <1>2
    <3>2. [link[l] EXCEPT !.live = FALSE] \in LinkRows
      BY <3>1 DEF LinkRows
    <3> QED
      BY <1>0, <1>2, <2>1, <3>2, AuthAssumption
  <2>2. CASE k # l
    BY <1>0, <1>2, <2>2
  <2> QED
    BY <2>1, <2>2
<1>3. CASE Enroll \/ OutsideFault \/ UNCHANGED vars \/ \E s \in Sessions : RevokeSession(s)
  BY <1>3 DEF Enroll, OutsideFault, vars, RevokeSession
<1>4. CASE Time
  BY <1>2, <1>4 DEF Time, ExpireLink, ExpireSession, ExpireResult, WindowMoves
<1>5. ASSUME NEW r \in Requests, Call(r) \/ Die(r)
      PROVE  UNCHANGED link
  BY <1>5 DEF Call, CallWithLink, CallPassword, CallDelete, CallEnable, CallVerify,
     CallVerifyPasskey, CallRotate, Die, OnlyRequests
<1>6. ASSUME NEW r \in Requests, SignIn(r)
      PROVE  UNCHANGED link \/ Consume(r)
  BY <1>6 DEF SignIn, FoundByLink, FoundByProvider, FoundByPasskey, VerifiedByPasskey,
     Refused, FindUser, RecordFailure, VerifyMfa, SpendCode, CreateSession, OnlyRequests
<1>7. ASSUME NEW r \in Requests, Consume(r)
      PROVE  UNCHANGED link \/ (/\ req[r].link \in Links /\ link[req[r].link] # None
                                /\ link' = [link EXCEPT ![req[r].link].live = FALSE])
  BY <1>7 DEF ReqInv, Allowed, Consume, At
<1>8. ASSUME NEW r \in Requests, Change(r)
      PROVE  UNCHANGED link
  BY <1>8 DEF Change, SetPassword, SetDeleted, RevokeAll, EnableFactor, RequireMfa, InsertCode,
     Enabled, MarkVerified, OnlyRequests
<1>9. ASSUME NEW r \in Requests, Rotation(r)
      PROVE  UNCHANGED link
  BY <1>9 DEF Rotation, FindResult, SelectSession, Rotate, RotateLost, Poll
<1> QED
  BY <1>1, <1>2, <1>3, <1>4, <1>5, <1>6, <1>7, <1>8, <1>9 DEF AnyStep, Next

\* A token that no session answers to is never given out again.
LEMMA DeadStays ==
  ASSUME ReqInv, AnyStep, NEW t \in Nat, t <= tokens, Dead(t)
  PROVE  Dead(t)'
<1>1. tokens \in Nat /\ tokens <= tokens'
  BY TokenMoves DEF ReqInv, AuthTypeOK, NoToken, NewToken
<1> QED
  BY <1>1, TokenMoves DEF NoToken, NewToken, Dead, HasToken, Refreshable

\* What a request knows stays true while it waits.
LEMMA RequestStays ==
  ASSUME ReqInv, AnyStep, NEW r \in Requests, req'[r] = req[r]
  PROVE  Allowed(r)'
<1>1. Allowed(r) /\ tokens \in Nat /\ req[r] \in RequestStates /\ req[r].token \in Nat
  BY DEF ReqInv, AuthTypeOK, RequestStates
<1>2. tokens' \in Nat /\ tokens <= tokens'
  BY TokenMoves, <1>1 DEF ReqInv, AuthTypeOK, NoToken, NewToken
<1>3. req[r].at = "poll" => Dead(req[r].token)'
  BY <1>1, TokenMoves DEF NoToken, NewToken, Dead, HasToken, Refreshable, Allowed
<1>4. req[r].at = "update" => \A s \in Sessions : sess'[s].refresh = req[r].token => s = req[r].sess
  BY <1>1, TokenMoves DEF NoToken, NewToken, Allowed
<1> QED
  BY <1>1, <1>2, <1>3, <1>4, FactorStays, LinkStays DEF Allowed, Dead, HasToken, Refreshable

-----------------------------------------------------------------------------
(* A request moves to a place where it knows what that place needs. *)

Moved(r) ==
  /\ req' = [req EXCEPT ![r] = req'[r]]
  /\ req'[r] \in RequestStates /\ Allowed(r)'

LEMMA CallMoves ==
  ASSUME ReqInv, NEW r \in Requests, Call(r) \/ Die(r)
  PROVE  Moved(r)
<1>0. AuthTypeOK /\ req \in [Requests -> RequestStates] /\ tokens \in 0..MaxTokens
  BY DEF ReqInv, AuthTypeOK
<1>1. ASSUME NEW l \in Links, NEW c \in Codes \cup {"totp", None}, CallWithLink(r, l, c)
      PROVE  Moved(r)
  <2>1. link[l].kind \in LinkKinds /\ link' = link /\ link[l] # None
    BY <1>0, <1>1 DEF CallWithLink, AuthTypeOK, LinkRows, OnlyRequests
  <2> QED
    BY <1>0, <1>1, <2>1 DEF CallWithLink, Become, Moved, Allowed, Idle, RequestStates, LinkKinds
<1>2. ASSUME NEW v \in {pw, -1}, NEW c \in Codes \cup {"totp", None}, CallPassword(r, v, c)
      PROVE  Moved(r)
  <2>1. v \in Int
    BY <1>0 DEF AuthTypeOK
  <2> QED
    BY <1>0, <1>2, <2>1 DEF CallPassword, Become, Moved, Allowed, Idle, RequestStates
<1>3. ASSUME CallDelete(r)
      PROVE  Moved(r)
  BY <1>0, <1>3 DEF CallDelete, Become, Moved, Allowed, Idle, RequestStates
<1>4. ASSUME NEW s \in Sessions \cup {None}, CallEnable(r, s)
      PROVE  Moved(r)
  BY <1>0, <1>4 DEF CallEnable, Become, Moved, Allowed, Idle, RequestStates
<1>5. ASSUME NEW s \in Sessions, NEW c \in Codes \cup {"totp"}, CallVerify(r, s, c)
      PROVE  Moved(r)
  BY <1>0, <1>5 DEF CallVerify, Become, Moved, Allowed, Idle, RequestStates, OnlyRequests, mfaVars
<1>6. ASSUME NEW s \in Sessions, NEW l \in Links, CallVerifyPasskey(r, s, l)
      PROVE  Moved(r)
  <2>1. link' = link /\ link[l] # None
    BY <1>6 DEF CallVerifyPasskey, OnlyRequests
  <2> QED
    BY <1>0, <1>6, <2>1 DEF CallVerifyPasskey, Become, Moved, Allowed, Idle, RequestStates
<1>7. ASSUME NEW t \in 1..tokens, NEW c \in Coordinators \cup {None}, CallRotate(r, t, c)
      PROVE  Moved(r)
  <2>1. t \in 0..MaxTokens /\ tokens' = tokens
    BY <1>0, <1>7, AuthAssumption DEF CallRotate, OnlyRequests, sessVars
  <2> QED
    BY <1>0, <1>7, <2>1 DEF CallRotate, Become, Moved, Allowed, Idle, RequestStates
<1>8. ASSUME Die(r)
      PROVE  Moved(r)
  BY <1>0, <1>8, AuthAssumption DEF Die, Done, Become, Moved, Allowed, Idle, RequestStates
<1> QED
  BY <1>1, <1>2, <1>3, <1>4, <1>5, <1>6, <1>7, <1>8 DEF Call

\* What is left alone when a request goes on.
Stages == {"idle", "user", "failed", "consume", "found", "mfa", "spend", "create", "set",
           "revoke", "result", "select", "update", "poll", "enable", "require", "mark", "codes"}

LEMMA GoMoves ==
  ASSUME req \in [Requests -> RequestStates], NEW r \in Requests, NEW s \in Stages, Go(r, s)
  PROVE  /\ req' = [req EXCEPT ![r] = req'[r]] /\ req'[r] \in RequestStates
         /\ req'[r].at = s /\ req'[r].op = req[r].op /\ req'[r].pw = req[r].pw
         /\ req'[r].link = req[r].link /\ req'[r].code = req[r].code /\ req'[r].coord = req[r].coord
         /\ req'[r].mfa = req[r].mfa /\ req'[r].proof = req[r].proof
         /\ req'[r].sess = req[r].sess /\ req'[r].token = req[r].token
<1> DEFINE q == req[r]
<1>1. q \in RequestStates /\ req' = [req EXCEPT ![r] = [q EXCEPT !.at = s]]
  BY DEF Go, Become
<1>2. req'[r] = [q EXCEPT !.at = s]
  BY <1>1
<1> HIDE DEF q
<1> QED
  BY <1>1, <1>2 DEF RequestStates, Stages, q

\* A request that has returned, or whose sign-in has failed, knows nothing.
LEMMA DoneMoves ==
  ASSUME req \in [Requests -> RequestStates], NEW r \in Requests, Done(r) \/ Failed(r)
  PROVE  Moved(r)
<1>1. /\ req'[r] = Idle \/ req'[r] = [Idle EXCEPT !.op = "password", !.at = "failed"]
      /\ req' = [req EXCEPT ![r] = req'[r]]
  BY DEF Done, Failed, Become
<1>2. 0 \in 0..MaxTokens
  BY AuthAssumption
<1>3. Idle \in RequestStates
  BY <1>2 DEF Idle, RequestStates
<1>4. [Idle EXCEPT !.op = "password", !.at = "failed"] \in RequestStates
  BY <1>3 DEF RequestStates
<1>5. /\ req'[r].at \in {"idle", "failed"} /\ req'[r].op \in {"none", "password"}
      /\ req'[r].pw = -1 /\ (req'[r].at = "failed" => req'[r].op = "password")
  <2>1. CASE req'[r] = Idle
    BY <2>1 DEF Idle
  <2>2. CASE req'[r] = [Idle EXCEPT !.op = "password", !.at = "failed"]
    BY <2>2 DEF Idle
  <2> QED
    BY <1>1, <2>1, <2>2
<1>6. Allowed(r)'
  BY <1>5 DEF Allowed
<1> QED
  BY <1>1, <1>3, <1>4, <1>6 DEF Moved

LEMMA SignInMoves ==
  ASSUME ReqInv, NEW r \in Requests, SignIn(r)
  PROVE  Moved(r)
<1>0. /\ req \in [Requests -> RequestStates] /\ req[r] \in RequestStates /\ Allowed(r)
      /\ factor \subseteq {"pending", "enabled"} /\ tokens \in 0..MaxTokens
      /\ required \in BOOLEAN /\ (required => "enabled" \in factor)
  BY DEF ReqInv, AuthTypeOK
<1>1. ASSUME Consume(r)
      PROVE  Moved(r)
  <2>1. Go(r, "set") \/ Go(r, "found") \/ Done(r)
    BY <1>0, <1>1 DEF Consume, AfterLink, At, Is
  <2> QED
    BY <1>0, <1>1, <2>1, GoMoves, DoneMoves DEF Consume, AfterLink, Stages, Moved, Allowed, At, Is
<1>2. ASSUME FoundByLink(r)
      PROVE  Moved(r)
  <2>1. Go(r, "create") \/ Done(r)
    BY <1>0, <1>2 DEF FoundByLink, At, Is
  <2> QED
    BY <1>0, <1>2, <2>1, GoMoves, DoneMoves DEF FoundByLink, Stages, Moved, Allowed, At, Is
<1>3. ASSUME FoundByProvider(r)
      PROVE  Moved(r)
  <2>1. PICK enforce \in BOOLEAN :
             Become(r, [req[r] EXCEPT !.mfa = Assured(enforce),
                                      !.code = IF Assured(enforce) THEN @ ELSE None,
                                      !.at = IF Assured(enforce) THEN "mfa" ELSE "create"])
    BY <1>3 DEF FoundByProvider
  <2>2. UNCHANGED factor /\ req[r].op = "oauth" /\ req[r].at = "found"
    BY <1>3 DEF FoundByProvider, OnlyRequests, mfaVars, At, Is
  <2>3. Assured(enforce) \in BOOLEAN /\ (Assured(enforce) => "enabled" \in factor)
    BY <1>0 DEF Assured
  <2> DEFINE q == req[r]
             m == Assured(enforce)
  <2>4. /\ req' = [req EXCEPT ![r] = req'[r]]
        /\ req'[r] = [q EXCEPT !.mfa = m, !.code = IF m THEN @ ELSE None,
                               !.at = IF m THEN "mfa" ELSE "create"]
    BY <1>0, <2>1 DEF Become
  <2>5. q \in RequestStates /\ q.op = "oauth" /\ q.pw = -1 /\ m \in BOOLEAN
    BY <1>0, <2>2, <2>3 DEF Allowed
  <2>6. m => "enabled" \in factor'
    BY <2>2, <2>3
  <2> HIDE DEF q, m
  <2>7. /\ req'[r] \in RequestStates /\ req'[r].op = "oauth" /\ req'[r].pw = -1 /\ req'[r].mfa = m
        /\ req'[r].at = IF m THEN "mfa" ELSE "create"
    BY <2>4, <2>5 DEF RequestStates
  <2> QED
    BY <2>4, <2>5, <2>6, <2>7 DEF Moved, Allowed
<1>4. ASSUME FoundByPasskey(r)
      PROVE  Moved(r)
  <2>1. PICK verified \in BOOLEAN :
             Become(r, [req[r] EXCEPT !.mfa = verified, !.proof = verified, !.at = "create"])
    BY <1>4 DEF FoundByPasskey
  <2> DEFINE q == req[r]
  <2>2. /\ req' = [req EXCEPT ![r] = req'[r]]
        /\ req'[r] = [q EXCEPT !.mfa = verified, !.proof = verified, !.at = "create"]
    BY <1>0, <2>1 DEF Become
  <2>3. q \in RequestStates /\ q.op = "passkey" /\ q.pw = -1
    BY <1>0, <1>4 DEF FoundByPasskey, Allowed, Is
  <2> HIDE DEF q
  <2>4. /\ req'[r] \in RequestStates /\ req'[r].op = "passkey" /\ req'[r].pw = -1
        /\ req'[r].mfa = verified /\ req'[r].proof = verified /\ req'[r].at = "create"
    BY <2>2, <2>3 DEF RequestStates
  <2> QED
    BY <2>2, <2>4 DEF Moved, Allowed
<1>5. ASSUME VerifiedByPasskey(r)
      PROVE  Moved(r)
  BY <1>0, <1>5 DEF VerifiedByPasskey, Become, Moved, Allowed, RequestStates, At, Is
<1>6. ASSUME Refused(r)
      PROVE  Moved(r)
  BY <1>0, <1>6, DoneMoves DEF Refused
<1>7. ASSUME FindUser(r)
      PROVE  Moved(r)
  <2>1. \/ Failed(r) \/ Become(r, [req[r] EXCEPT !.at = "create", !.code = None])
        \/ required /\ Become(r, [req[r] EXCEPT !.at = "mfa", !.mfa = TRUE])
    BY <1>0, <1>7 DEF FindUser
  <2>2. UNCHANGED factor /\ req[r].at = "user" /\ req[r].op = "password"
    BY <1>7 DEF FindUser, OnlyRequests, mfaVars, At, Is
  <2> DEFINE q == req[r]
  <2>3. q \in RequestStates /\ q.op = "password" /\ q.mfa = FALSE /\ (required => "enabled" \in factor')
    BY <1>0, <2>2 DEF Allowed, RequestStates
  <2>4. CASE Failed(r)
    BY <1>0, <2>4, DoneMoves
  <2>5. ASSUME \/ req' = [req EXCEPT ![r] = [q EXCEPT !.at = "create", !.code = None]]
               \/ required /\ req' = [req EXCEPT ![r] = [q EXCEPT !.at = "mfa", !.mfa = TRUE]]
        PROVE  Moved(r)
    <3>1. /\ req' = [req EXCEPT ![r] = req'[r]]
          /\ \/ req'[r] = [q EXCEPT !.at = "create", !.code = None]
             \/ required /\ req'[r] = [q EXCEPT !.at = "mfa", !.mfa = TRUE]
      BY <1>0, <2>5
    <3> HIDE DEF q
    <3>2. /\ req'[r] \in RequestStates /\ req'[r].op = "password"
          /\ \/ req'[r].at = "create" /\ ~req'[r].mfa
             \/ req'[r].at = "mfa" /\ "enabled" \in factor'
      <4>1. CASE req'[r] = [q EXCEPT !.at = "create", !.code = None]
        BY <2>3, <4>1 DEF RequestStates
      <4>2. CASE required /\ req'[r] = [q EXCEPT !.at = "mfa", !.mfa = TRUE]
        BY <2>3, <4>2 DEF RequestStates
      <4> QED
        BY <3>1, <4>1, <4>2
    <3> QED
      BY <3>1, <3>2 DEF Moved, Allowed
  <2> QED
    BY <2>1, <2>4, <2>5 DEF Become
<1>8. ASSUME RecordFailure(r)
      PROVE  Moved(r)
  BY <1>0, <1>8, DoneMoves DEF RecordFailure
<1>9. ASSUME VerifyMfa(r)
      PROVE  Moved(r)
  <2>1. /\ req[r].at = "mfa" /\ "enabled" \in factor
        /\ \/ Become(r, [req[r] EXCEPT !.at = AfterMfa(r), !.proof = TRUE])
           \/ Become(r, [req[r] EXCEPT !.at = IF Is(r, "oauth") THEN "create" ELSE "spend",
                                       !.proof = TRUE])
           \/ Failed(r) \/ Done(r)
    BY <1>0, <1>9 DEF VerifyMfa, Allowed, At
  <2>2. AfterMfa(r) \in {"create", "mark"} /\ (AfterMfa(r) = "mark" => req[r].op = "verify")
    BY DEF AfterMfa, Is
  <2>3. CASE Failed(r) \/ Done(r)
    BY <1>0, <2>3, DoneMoves
  <2> DEFINE q == req[r]
  <2>4. ASSUME NEW s \in {"create", "mark", "spend"}, s = "mark" => q.op = "verify",
               req' = [req EXCEPT ![r] = [q EXCEPT !.at = s, !.proof = TRUE]]
        PROVE  Moved(r)
    <3>1. req' = [req EXCEPT ![r] = req'[r]] /\ req'[r] = [q EXCEPT !.at = s, !.proof = TRUE]
      BY <1>0, <2>4
    <3>2. /\ q \in RequestStates /\ (q.op # "password" => q.pw = -1)
          /\ (q.op = "verify" => q.sess \in Sessions)
      BY <1>0 DEF Allowed
    <3> HIDE DEF q
    <3>3. /\ req'[r].op = q.op /\ req'[r].pw = q.pw /\ req'[r].sess = q.sess
          /\ req'[r].at = s /\ req'[r].proof = TRUE
      BY <3>1, <3>2 DEF RequestStates
    <3>4. req'[r] \in RequestStates
      BY <3>1, <3>2 DEF RequestStates
    <3> QED
      BY <2>4, <3>1, <3>2, <3>3, <3>4 DEF Moved, Allowed
  <2> QED
    BY <2>1, <2>2, <2>3, <2>4 DEF Become
<1>10. ASSUME SpendCode(r)
      PROVE  Moved(r)
  <2>1. Go(r, "create") \/ Go(r, "mark")
    BY <1>0, <1>10 DEF SpendCode, AfterMfa, At, Is
  <2> QED
    BY <1>0, <1>10, <2>1, GoMoves, DoneMoves DEF SpendCode, AfterMfa, Stages, Moved, Allowed, At, Is
<1>11. ASSUME NEW s \in Sessions, CreateSession(r, s)
      PROVE  Moved(r)
  BY <1>0, <1>11, DoneMoves DEF CreateSession
<1> QED
  BY <1>1, <1>2, <1>3, <1>4, <1>5, <1>6, <1>7, <1>8, <1>9, <1>10, <1>11 DEF SignIn

LEMMA ChangeMoves ==
  ASSUME ReqInv, NEW r \in Requests, Change(r)
  PROVE  Moved(r)
<1>0. /\ req \in [Requests -> RequestStates] /\ req[r] \in RequestStates /\ Allowed(r)
      /\ factor \subseteq {"pending", "enabled"} /\ tokens \in 0..MaxTokens
      /\ required \in BOOLEAN /\ (required => "enabled" \in factor)
  BY DEF ReqInv, AuthTypeOK
<1>1. ASSUME SetPassword(r)
      PROVE  Moved(r)
  <2>1. Go(r, "revoke")
    BY <1>0, <1>1 DEF SetPassword, At, Is
  <2> QED
    BY <1>0, <1>1, <2>1, GoMoves, DoneMoves DEF SetPassword, Stages, Moved, Allowed, At, Is
<1>2. ASSUME SetDeleted(r)
      PROVE  Moved(r)
  BY <1>0, <1>2, DoneMoves DEF SetDeleted
<1>3. ASSUME RevokeAll(r)
      PROVE  Moved(r)
  BY <1>0, <1>3, DoneMoves DEF RevokeAll
<1>4. ASSUME EnableFactor(r)
      PROVE  Moved(r)
  <2>1. Go(r, "require")
    BY <1>0, <1>4 DEF EnableFactor, At, Is
  <2> QED
    BY <1>0, <1>4, <2>1, GoMoves, DoneMoves DEF EnableFactor, Stages, Moved, Allowed, At, Is
<1>5. ASSUME RequireMfa(r)
      PROVE  Moved(r)
  <2>1. /\ req[r].at = "require" /\ factor' = factor
        /\ \/ req[r].sess = None /\ Go(r, "codes")
           \/ req[r].sess # None /\ Go(r, "mark")
    BY <1>5 DEF RequireMfa, At
  <2>2. req[r].sess \in Sessions \cup {None}
    BY <1>0 DEF RequestStates
  <2> QED
    BY <1>0, <2>1, <2>2, GoMoves DEF Stages, Moved, Allowed
<1>6. ASSUME NEW c \in Codes, InsertCode(r, c)
      PROVE  Moved(r)
  <2>1. req' = req /\ req[r].at = "codes"
    BY <1>6 DEF InsertCode, At
  <2> QED
    BY <1>0, <2>1 DEF Moved, Allowed
<1>7. ASSUME Enabled(r)
      PROVE  Moved(r)
  BY <1>0, <1>7, DoneMoves DEF Enabled
<1>8. ASSUME MarkVerified(r)
      PROVE  Moved(r)
  <2>1. Go(r, "codes") \/ Done(r)
    BY <1>0, <1>8 DEF MarkVerified, At, Is
  <2> QED
    BY <1>0, <1>8, <2>1, GoMoves, DoneMoves DEF MarkVerified, Stages, Moved, Allowed, At, Is
<1> QED
  BY <1>1, <1>2, <1>3, <1>4, <1>5, <1>6, <1>7, <1>8 DEF Change

LEMMA RotationMoves ==
  ASSUME ReqInv, NEW r \in Requests, Rotation(r)
  PROVE  Moved(r)
<1>0. /\ req \in [Requests -> RequestStates] /\ req[r] \in RequestStates /\ Allowed(r)
      /\ factor \subseteq {"pending", "enabled"} /\ tokens \in 0..MaxTokens
      /\ required \in BOOLEAN /\ (required => "enabled" \in factor)
  BY DEF ReqInv, AuthTypeOK
<1>1. ASSUME FindResult(r)
      PROVE  Moved(r)
  <2>1. Done(r) \/ (Go(r, "select") /\ req[r].at = "result" /\ tokens' = tokens)
    BY <1>1 DEF FindResult, Answer, At, sessVars
  <2> QED
    BY <1>0, <2>1, GoMoves, DoneMoves DEF Stages, Moved, Allowed
<1>2. ASSUME SelectSession(r)
      PROVE  Moved(r)
  <2>1. req[r].at = "select" /\ tokens' = tokens /\ sess' = sess
    BY <1>2 DEF SelectSession, At, sessVars
  <2>2. CASE \E s \in Sessions : /\ HasToken(s, req[r].token)
                                 /\ Become(r, [req[r] EXCEPT !.at = "update", !.sess = s])
    <3>1. PICK s \in Sessions : /\ HasToken(s, req[r].token)
                                /\ Become(r, [req[r] EXCEPT !.at = "update", !.sess = s])
      BY <2>2
    <3>2. \A x \in Sessions : sess[x].refresh = req[r].token => x = s
      BY <1>0, <2>1, <3>1 DEF ReqInv, HasToken, Allowed, Distinct
    <3> DEFINE q == req[r]
    <3>3. /\ req' = [req EXCEPT ![r] = req'[r]] /\ req'[r] = [q EXCEPT !.at = "update", !.sess = s]
      BY <1>0, <3>1 DEF Become
    <3>4. /\ q \in RequestStates /\ (q.op # "password" => q.pw = -1) /\ q.token \in 1..tokens
      BY <1>0, <2>1 DEF Allowed
    <3>5. \A x \in Sessions : sess[x].refresh = q.token => x = s
      BY <3>2
    <3> HIDE DEF q
    <3>6. /\ req'[r] \in RequestStates /\ req'[r].op = q.op /\ req'[r].pw = q.pw
          /\ req'[r].sess = s /\ req'[r].at = "update" /\ req'[r].token = q.token
      BY <3>3, <3>4 DEF RequestStates
    <3> QED
      BY <2>1, <3>3, <3>4, <3>5, <3>6 DEF Moved, Allowed
  <2>3. CASE Done(r)
    BY <1>0, <2>3, DoneMoves
  <2>4. CASE (\A s \in Sessions : ~HasToken(s, req[r].token)) /\ Go(r, "poll")
    BY <1>0, <2>1, <2>4, GoMoves DEF Stages, Moved, Allowed, Dead, HasToken, Refreshable
  <2> QED
    BY <1>2, <2>2, <2>3, <2>4 DEF SelectSession, Missed
<1>3. ASSUME Rotate(r)
      PROVE  Moved(r)
  BY <1>0, <1>3, DoneMoves DEF Rotate, Answer
<1>4. ASSUME RotateLost(r)
      PROVE  Moved(r)
  <2>1. req[r].at = "update" /\ tokens' = tokens /\ sess' = sess /\ ~Rotatable(r)
    BY <1>4 DEF RotateLost, At, sessVars
  <2>2. Done(r) \/ Go(r, "poll")
    BY <1>4 DEF RotateLost, Answer, Missed
  <2>3. req'[r].token = req[r].token => Dead(req[r].token)'
    BY <1>0, <2>1 DEF Dead, HasToken, Refreshable, Rotatable, Allowed
  <2> QED
    BY <1>0, <2>1, <2>2, <2>3, GoMoves, DoneMoves DEF Stages, Moved, Allowed
<1>5. ASSUME Poll(r)
      PROVE  Moved(r)
  BY <1>0, <1>5, DoneMoves DEF Poll, Answer
<1> QED
  BY <1>1, <1>2, <1>3, <1>4, <1>5 DEF Rotation

-----------------------------------------------------------------------------
(* The invariant of the requests is inductive. *)

\* The rows and histories that are no part of a rotation.
Rows ==
  /\ pw \in Nat /\ deleted \in BOOLEAN /\ required \in BOOLEAN
  /\ factor \subseteq {"pending", "enabled"}
  /\ code \in [Codes -> {"none", "unused", "used"}] /\ link \in [Links -> LinkRows \cup {None}]
  /\ failures \in Nat /\ faults \in 0..MaxFaults
  /\ proved \subseteq Sessions /\ raced \subseteq Sessions /\ half \in BOOLEAN
rowVars == <<userVars, mfaVars, link, failures, faults, proved, raced, half>>

LEMMA RowsStep ==
  ASSUME ReqInv, AnyStep
  PROVE  Rows'
<1>0. Rows /\ \A r \in Requests : Allowed(r) /\ req[r] \in RequestStates
  BY DEF Rows, ReqInv, AuthTypeOK
<1>1. CASE UNCHANGED rowVars
  BY <1>0, <1>1 DEF Rows, rowVars, userVars, mfaVars
<1>2. CASE Fault /\ UNCHANGED <<userVars, mfaVars, link, failures, proved, raced>> /\ half' \in BOOLEAN
  BY <1>0, <1>2, AuthAssumption DEF Rows, userVars, mfaVars, Fault
<1>3. ASSUME NEW l \in Links, NEW k \in LinkKinds, Issue(l, k) \/ Challenge(l, k)
      PROVE  Rows'
  <2>1. [kind |-> k, live |-> TRUE] \in LinkRows
    BY DEF LinkRows
  <2>2. link' = [link EXCEPT ![l] = [kind |-> k, live |-> TRUE]]
    BY <1>3 DEF Issue, Challenge
  <2>3. UNCHANGED <<userVars, mfaVars, failures, faults, proved, raced, half>>
    BY <1>3 DEF Issue, Challenge, history
  <2> QED
    BY <1>0, <2>1, <2>2, <2>3 DEF Rows, userVars, mfaVars
<1>4. CASE Enroll
  BY <1>0, <1>4 DEF Rows, Enroll, userVars, history
<1>5. ASSUME NEW l \in Links, link[l] # None, link' = [link EXCEPT ![l].live = FALSE]
      PROVE  link' \in [Links -> LinkRows \cup {None}]
  <2>1. link[l] \in LinkRows
    BY <1>0, <1>5 DEF Rows
  <2>2. [link[l] EXCEPT !.live = FALSE] \in LinkRows
    BY <2>1 DEF LinkRows
  <2> QED
    BY <1>0, <1>5, <2>2 DEF Rows
<1>6. ASSUME NEW l \in Links, ExpireLink(l)
      PROVE  Rows'
  <2>1. link' \in [Links -> LinkRows \cup {None}]
    BY <1>5, <1>6 DEF ExpireLink
  <2> QED
    BY <1>0, <1>6, <2>1 DEF Rows, ExpireLink, userVars, mfaVars, history
<1>7. CASE WindowMoves
  BY <1>0, <1>7 DEF Rows, WindowMoves, userVars, mfaVars, history
<1>8. ASSUME NEW r \in Requests, Consume(r)
      PROVE  Rows'
  <2>1. req[r].link \in Links /\ link[req[r].link] # None
    BY <1>0, <1>8 DEF Consume, Allowed, At
  <2>2. link' \in [Links -> LinkRows \cup {None}]
    BY <1>0, <1>5, <1>8, <2>1 DEF Consume, Rows
  <2> QED
    BY <1>0, <1>8, <2>2 DEF Rows, Consume, userVars, mfaVars, history
<1>9. ASSUME NEW r \in Requests, RecordFailure(r)
      PROVE  Rows'
  BY <1>0, <1>9 DEF Rows, RecordFailure, userVars, mfaVars, history
<1>10. \A c : Spent(c) => code' \in [Codes -> {"none", "unused", "used"}]
  BY <1>0 DEF Rows, Spent
<1>11. ASSUME NEW r \in Requests, SpendCode(r)
       PROVE  Rows'
  BY <1>0, <1>10, <1>11 DEF Rows, SpendCode, userVars, history
<1>12. ASSUME NEW r \in Requests, NEW s \in Sessions, CreateSession(r, s)
       PROVE  Rows'
  <2>1. code' \in [Codes -> {"none", "unused", "used"}]
    BY <1>0, <1>10, <1>12 DEF CreateSession, Rows
  <2> QED
    BY <1>0, <1>12, <2>1 DEF Rows, CreateSession, userVars
<1>13. ASSUME NEW r \in Requests, SetPassword(r) \/ SetDeleted(r) \/ EnableFactor(r) \/ RequireMfa(r)
       PROVE  Rows'
  <2>1. CASE SetPassword(r)
    BY <1>0, <2>1 DEF Rows, SetPassword, mfaVars
  <2>2. CASE SetDeleted(r)
    BY <1>0, <2>2 DEF Rows, SetDeleted, mfaVars, history
  <2>3. CASE EnableFactor(r)
    BY <1>0, <2>3 DEF Rows, EnableFactor, userVars, history
  <2>4. CASE RequireMfa(r)
    BY <1>0, <2>4 DEF Rows, RequireMfa, userVars, history
  <2> QED
    BY <1>13, <2>1, <2>2, <2>3, <2>4
<1>14. ASSUME NEW r \in Requests, RevokeAll(r) \/ MarkVerified(r)
       PROVE  Rows'
  <2>1. CASE RevokeAll(r)
    BY <1>0, <2>1 DEF Rows, RevokeAll, userVars, mfaVars
  <2>2. CASE MarkVerified(r)
    <3>1. req[r].sess \in Sessions
      BY <1>0, <2>2 DEF MarkVerified, Allowed, At
    <3>2. proved' \subseteq Sessions
      BY <1>0, <2>2, <3>1 DEF MarkVerified, Rows
    <3> QED
      BY <1>0, <2>2, <3>2 DEF Rows, MarkVerified, userVars, mfaVars
  <2> QED
    BY <1>14, <2>1, <2>2
<1>15. ASSUME NEW r \in Requests, NEW c \in Codes, InsertCode(r, c)
       PROVE  Rows'
  BY <1>0, <1>15 DEF Rows, InsertCode, userVars, history
<1>16. CASE OutsideFault \/ UNCHANGED vars \/ \E s \in Sessions : RevokeSession(s)
  BY <1>0, <1>1, <1>2, <1>16 DEF OutsideFault, vars, RevokeSession, rowVars, history, Rows
<1>17. CASE Time
  <2>1. ASSUME NEW s \in Sessions, ExpireSession(s)
        PROVE  UNCHANGED rowVars
    BY <2>1 DEF ExpireSession, rowVars, history
  <2>2. ASSUME NEW x \in results, ExpireResult(x)
        PROVE  UNCHANGED rowVars
    BY <2>2 DEF ExpireResult, rowVars, history
  <2> QED
    BY <1>1, <1>6, <1>7, <1>17, <2>1, <2>2 DEF Time
<1>18. ASSUME NEW r \in Requests, Call(r)
       PROVE  UNCHANGED rowVars
  BY <1>18 DEF Call, CallWithLink, CallPassword, CallDelete, CallEnable, CallVerify,
     CallVerifyPasskey, CallRotate, OnlyRequests, rowVars, history
<1>19. ASSUME NEW r \in Requests, Die(r)
       PROVE  Rows'
  BY <1>0, <1>2, <1>19 DEF Die, Rows
<1>20. ASSUME NEW r \in Requests, SignIn(r)
       PROVE  Rows'
  <2>1. CASE \/ FoundByLink(r) \/ FoundByProvider(r) \/ FoundByPasskey(r) \/ VerifiedByPasskey(r)
             \/ Refused(r) \/ FindUser(r) \/ VerifyMfa(r)
    BY <1>1, <2>1 DEF FoundByLink, FoundByProvider, FoundByPasskey, VerifiedByPasskey, Refused,
       FindUser, VerifyMfa, OnlyRequests, rowVars, history
  <2> QED
    BY <1>8, <1>9, <1>11, <1>12, <1>20, <2>1 DEF SignIn
<1>21. ASSUME NEW r \in Requests, Change(r)
       PROVE  Rows'
  <2>1. CASE Enabled(r)
    BY <1>1, <2>1 DEF Enabled, OnlyRequests, rowVars, history
  <2> QED
    BY <1>13, <1>14, <1>15, <1>21, <2>1 DEF Change
<1>22. ASSUME NEW r \in Requests, Rotation(r)
       PROVE  UNCHANGED rowVars
  BY <1>22 DEF Rotation, FindResult, SelectSession, Rotate, RotateLost, Poll, rowVars
<1> QED
  BY <1>1, <1>3, <1>4, <1>16, <1>17, <1>18, <1>19, <1>20, <1>21, <1>22 DEF AnyStep, Next

\* What becomes of the results that are kept and of the answers given.
LEMMA RotationVars ==
  ASSUME AnyStep
  PROVE  \/ answers' = answers /\ (\A x \in results' : x \in results) /\ (tokens' # tokens => results' = results)
         \/ \E r \in Requests : Rotation(r)
<1>1. CASE \/ \E l \in Links, k \in LinkKinds : Issue(l, k) \/ Challenge(l, k)
           \/ \E s \in Sessions : RevokeSession(s)
           \/ Enroll \/ OutsideFault \/ UNCHANGED vars
  BY <1>1 DEF OutsideFault, vars, Issue, Challenge, RevokeSession, Enroll, history, sessVars
<1>2. CASE Time
  BY <1>2 DEF Time, ExpireLink, ExpireSession, ExpireResult, WindowMoves, history, sessVars
<1>3. ASSUME NEW r \in Requests, Call(r) \/ Die(r)
      PROVE  UNCHANGED <<results, answers>>
  BY <1>3 DEF Call, CallWithLink, CallPassword, CallDelete, CallEnable, CallVerify,
     CallVerifyPasskey, CallRotate, Die, OnlyRequests, history, sessVars
<1>4. ASSUME NEW r \in Requests, SignIn(r)
      PROVE  UNCHANGED <<results, answers>>
  BY <1>4 DEF SignIn, Consume, FoundByLink, FoundByProvider, FoundByPasskey, VerifiedByPasskey,
     Refused, FindUser, RecordFailure, VerifyMfa, SpendCode, CreateSession, OnlyRequests, history,
     sessVars
<1>5. ASSUME NEW r \in Requests, Change(r)
      PROVE  UNCHANGED <<results, answers>>
  BY <1>5 DEF Change, SetPassword, SetDeleted, RevokeAll, EnableFactor, RequireMfa, InsertCode,
     Enabled, MarkVerified, OnlyRequests, history, sessVars
<1> QED
  BY <1>1, <1>2, <1>3, <1>4, <1>5 DEF AnyStep, Next

LEMMA OneMoves ==
  ASSUME ReqInv, AnyStep
  PROVE  req' = req \/ \E r \in Requests : Moved(r)
<1>1. CASE \/ \E l \in Links, k \in LinkKinds : Issue(l, k) \/ Challenge(l, k)
           \/ \E s \in Sessions : RevokeSession(s)
           \/ Enroll \/ OutsideFault \/ UNCHANGED vars
  BY <1>1 DEF OutsideFault, vars, Issue, Challenge, RevokeSession, Enroll
<1>2. CASE Time
  BY <1>2 DEF Time, ExpireLink, ExpireSession, ExpireResult, WindowMoves
<1> QED
  BY <1>1, <1>2, CallMoves, SignInMoves, ChangeMoves, RotationMoves DEF AnyStep, Next

\* What a rotation answers with and keeps.
Answered(r) ==
  /\ req[r].token \in 1..tokens /\ req[r].coord \in Coordinators \cup {None}
  /\ \/ answers' = answers /\ results' = results
     \/ \E x \in Completed(r) : answers' = answers \cup {x} /\ results' = results
     \/ /\ answers' = answers \cup {Denial(r)} /\ results' = results
        /\ Completed(r) = {} /\ Dead(req[r].token) /\ sess' = sess
     \/ LET x == [old |-> req[r].token, coord |-> req[r].coord, new |-> tokens + 1] IN
        /\ answers' = answers \cup {x} /\ Rotate(r)
        /\ results' = IF req[r].coord = None THEN results ELSE (results \ Completed(r)) \cup {x}

LEMMA RotationAnswers ==
  ASSUME ReqInv, NEW r \in Requests, Rotation(r)
  PROVE  Answered(r)
<1>1. req[r] \in RequestStates /\ Allowed(r)
  BY DEF ReqInv, AuthTypeOK
<1>2. req[r].at \in {"result", "select", "update", "poll"}
  BY DEF Rotation, FindResult, SelectSession, Rotate, RotateLost, Poll, At
<1>3. req[r].token \in 1..tokens /\ req[r].coord \in Coordinators \cup {None}
  BY <1>1, <1>2 DEF Allowed, RequestStates
<1>4. CASE FindResult(r)
  BY <1>3, <1>4 DEF Answered, FindResult, Answer, sessVars
<1>5. CASE SelectSession(r)
  BY <1>3, <1>5 DEF Answered, SelectSession, Missed, sessVars
<1>6. CASE Rotate(r)
  BY <1>3, <1>6 DEF Answered, Rotate, Answer
<1>7. CASE RotateLost(r)
  BY <1>3, <1>7 DEF Answered, RotateLost, Answer, Missed, sessVars
<1>8. CASE Poll(r)
  <2>1. Dead(req[r].token)
    BY <1>1, <1>8 DEF Poll, At, Allowed
  <2> QED
    BY <1>3, <1>8, <2>1 DEF Answered, Poll, Answer, sessVars
<1> QED
  BY <1>4, <1>5, <1>6, <1>7, <1>8 DEF Rotation

LEMMA ReqStep ==
  ASSUME ReqInv, AnyStep
  PROVE  ReqInv'
<1>0. /\ req \in [Requests -> RequestStates] /\ tokens \in 0..MaxTokens
      /\ sess \in [Sessions -> SessionStates] /\ results \subseteq Rotations /\ answers \subseteq Rotations
  BY DEF ReqInv, AuthTypeOK
<1>1. req' \in [Requests -> RequestStates] /\ \A r \in Requests : Allowed(r)'
  <2>1. CASE req' = req
    BY <1>0, <2>1, RequestStays
  <2>2. ASSUME NEW r \in Requests, Moved(r)
        PROVE  req' \in [Requests -> RequestStates] /\ \A x \in Requests : Allowed(x)'
    <3>1. \A x \in Requests \ {r} : req'[x] = req[x]
      BY <1>0, <2>2 DEF Moved
    <3> QED
      BY <1>0, <2>2, <3>1, RequestStays DEF Moved
  <2> QED
    BY <2>1, <2>2, OneMoves
<1>2. /\ tokens' \in 0..MaxTokens /\ sess' \in [Sessions -> SessionStates] /\ Distinct'
  BY <1>0, TokenMoves DEF NoToken, NewToken, Distinct, ReqInv, SessionStates
<1>3. results' \subseteq Rotations /\ answers' \subseteq Rotations
  <2>1. ASSUME NEW r \in Requests, Answered(r)
        PROVE  results' \subseteq Rotations /\ answers' \subseteq Rotations
    <3>1. Denial(r) \in Rotations /\ Completed(r) \subseteq Rotations
      BY <1>0, <2>1, AuthAssumption DEF Answered, Denial, Completed, Rotations
    <3>2. Rotate(r) => [old |-> req[r].token, coord |-> req[r].coord, new |-> tokens + 1] \in Rotations
      BY <1>0, <2>1, AuthAssumption DEF Answered, Rotate, Rotations
    <3> QED
      BY <1>0, <2>1, <3>1, <3>2 DEF Answered
  <2> QED
    BY <1>0, <2>1, RotationVars, RotationAnswers
<1>4. required' => "enabled" \in factor'
  <2>1. CASE \/ \E l \in Links, k \in LinkKinds : Issue(l, k) \/ Challenge(l, k)
             \/ \E s \in Sessions : RevokeSession(s)
             \/ Enroll \/ OutsideFault \/ UNCHANGED vars
    BY <2>1 DEF OutsideFault, vars, Issue, Challenge, RevokeSession, Enroll, mfaVars, ReqInv
  <2>2. CASE Time
    BY <2>2 DEF Time, ExpireLink, ExpireSession, ExpireResult, WindowMoves, mfaVars, ReqInv
  <2>3. ASSUME NEW r \in Requests, Call(r) \/ Die(r)
        PROVE  UNCHANGED required
    BY <2>3 DEF Call, CallWithLink, CallPassword, CallDelete, CallEnable, CallVerify,
       CallVerifyPasskey, CallRotate, Die, OnlyRequests, mfaVars
  <2>4. ASSUME NEW r \in Requests, SignIn(r) \/ Rotation(r)
        PROVE  UNCHANGED required
    BY <2>4 DEF SignIn, Consume, FoundByLink, FoundByProvider, FoundByPasskey, VerifiedByPasskey,
       Refused, FindUser, RecordFailure, VerifyMfa, SpendCode, CreateSession, OnlyRequests, mfaVars,
       Rotation, FindResult, SelectSession, Rotate, RotateLost, Poll
  <2>5. ASSUME NEW r \in Requests, Change(r)
        PROVE  UNCHANGED required \/ ("enabled" \in factor /\ factor' = factor)
    <3>1. CASE RequireMfa(r)
      BY <3>1 DEF ReqInv, Allowed, RequireMfa, At
    <3>2. CASE ~RequireMfa(r)
      BY <2>5, <3>2 DEF Change, SetPassword, SetDeleted, RevokeAll, EnableFactor, InsertCode,
         Enabled, MarkVerified, OnlyRequests, mfaVars
    <3> QED
      BY <3>1, <3>2
  <2> QED
    BY <2>1, <2>2, <2>3, <2>4, <2>5, FactorStays DEF AnyStep, Next, ReqInv
<1> QED
  BY <1>1, <1>2, <1>3, <1>4, RowsStep DEF ReqInv, AuthTypeOK, Rows

-----------------------------------------------------------------------------
(* What the steps do to the sessions as a reader of them sees it. *)

InReset(r) == Is(r, "password_reset") /\ At(r, "revoke")

\* No session gains a right, and no reset gets further.
Quiet ==
  /\ UNCHANGED <<pw, proved, raced, half>>
  /\ \A s \in Sessions : /\ sess'[s].mfa = sess[s].mfa /\ sess'[s].pw = sess[s].pw
                         /\ Refreshable(s)' => Refreshable(s)
  /\ \A r \in Requests : InReset(r) => InReset(r)'

\* A request that is not in a reset may move.
LEMMA ResetsStay ==
  ASSUME ReqInv, NEW r \in Requests, ~At(r, "revoke"), req' = req \/ Moved(r)
  PROVE  \A x \in Requests : InReset(x) => InReset(x)'
<1>1. \A x \in Requests \ {r} : req'[x] = req[x]
  BY DEF Moved, ReqInv, AuthTypeOK
<1>2. ~InReset(r)
  BY DEF InReset
<1>3. CASE req' = req
  BY <1>3 DEF InReset, At, Is
<1> QED
  BY <1>1, <1>2, <1>3 DEF InReset, At, Is

LEMMA SessionMoves ==
  ASSUME ReqInv, AnyStep
  PROVE  \/ Quiet
         \/ \E r \in Requests : \/ \E s \in Sessions : CreateSession(r, s)
                                \/ SetPassword(r) \/ RevokeAll(r) \/ MarkVerified(r) \/ Die(r)
<1>0. sess \in [Sessions -> SessionStates] /\ AuthTypeOK
  BY DEF ReqInv, AuthTypeOK
<1>1. CASE UNCHANGED <<pw, sess, req, proved, raced, half>>
  BY <1>1 DEF Quiet, Refreshable, InReset, At, Is
<1>2. ASSUME NEW s \in Sessions, ExpireSession(s) \/ RevokeSession(s)
      PROVE  Quiet
  <2>1. UNCHANGED <<pw, req, proved, raced, half>>
    BY <1>2 DEF ExpireSession, RevokeSession, userVars, history
  <2>2. Refreshable(s)' => Refreshable(s)
    BY <1>0, <1>2 DEF ExpireSession, RevokeSession, Refreshable, Live, SessionStates
  <2>3. \A x \in Sessions : /\ sess'[x].mfa = sess[x].mfa /\ sess'[x].pw = sess[x].pw
                            /\ x # s => sess'[x] = sess[x]
    BY <1>0, <1>2 DEF ExpireSession, RevokeSession, SessionStates
  <2> QED
    BY <2>1, <2>2, <2>3 DEF Quiet, Refreshable, InReset, At, Is
<1>3. CASE Time
  <2>1. ASSUME \/ \E l \in Links : ExpireLink(l)
               \/ \E x \in results : ExpireResult(x)
               \/ WindowMoves
        PROVE  UNCHANGED <<pw, sess, req, proved, raced, half>>
    BY <2>1 DEF ExpireLink, ExpireResult, WindowMoves, userVars, sessVars, history
  <2> QED
    BY <1>1, <1>2, <1>3, <2>1 DEF Time
<1>4. CASE \/ \E l \in Links, k \in LinkKinds : Issue(l, k) \/ Challenge(l, k)
           \/ Enroll \/ OutsideFault \/ UNCHANGED vars
  BY <1>1, <1>4 DEF OutsideFault, vars, Issue, Challenge, Enroll, userVars, sessVars, history
<1>5. ASSUME NEW r \in Requests, UNCHANGED <<pw, sess, proved, raced, half>>, ~At(r, "revoke"),
             req' = req \/ Moved(r)
      PROVE  Quiet
  BY <1>5, ResetsStay DEF Quiet, Refreshable
<1>6. ASSUME NEW r \in Requests, Call(r)
      PROVE  Quiet
  <2>1. UNCHANGED <<pw, sess, proved, raced, half>>
    BY <1>6 DEF Call, CallWithLink, CallPassword, CallDelete, CallEnable, CallVerify,
       CallVerifyPasskey, CallRotate, OnlyRequests, userVars, sessVars, history
  <2>2. req[r] = Idle
    BY <1>6 DEF Call, CallWithLink, CallPassword, CallDelete, CallEnable, CallVerify,
       CallVerifyPasskey, CallRotate
  <2>3. ~At(r, "revoke")
    BY <2>2 DEF At, Idle
  <2> QED
    BY <1>5, <1>6, <2>1, <2>3, CallMoves
<1>7. ASSUME NEW r \in Requests, SignIn(r)
      PROVE  Quiet \/ \E s \in Sessions : CreateSession(r, s)
  <2>1. CASE \E s \in Sessions : CreateSession(r, s)
    BY <2>1
  <2>2. CASE ~\E s \in Sessions : CreateSession(r, s)
    <3>1. UNCHANGED <<pw, sess, proved, raced, half>>
      BY <1>7, <2>2 DEF SignIn, Consume, FoundByLink, FoundByProvider, FoundByPasskey,
         VerifiedByPasskey, Refused, FindUser, RecordFailure, VerifyMfa, SpendCode, OnlyRequests,
         userVars, sessVars, history
    <3>2. ~At(r, "revoke")
      BY <1>7, <2>2 DEF SignIn, Consume, FoundByLink, FoundByProvider, FoundByPasskey,
         VerifiedByPasskey, Refused, FindUser, RecordFailure, VerifyMfa, SpendCode, At
    <3> QED
      BY <1>5, <1>7, <3>1, <3>2, SignInMoves
  <2> QED
    BY <2>1, <2>2
<1>8. ASSUME NEW r \in Requests, Change(r)
      PROVE  Quiet \/ SetPassword(r) \/ RevokeAll(r) \/ MarkVerified(r)
  <2>1. CASE SetDeleted(r)
    <3>1. UNCHANGED <<pw, proved, raced, half>>
      BY <2>1 DEF SetDeleted, history
    <3>2. \A s \in Sessions : /\ sess'[s].mfa = sess[s].mfa /\ sess'[s].pw = sess[s].pw
                              /\ Refreshable(s)' => Refreshable(s)
      BY <1>0, <2>1 DEF SetDeleted, Revoked, Refreshable, SessionStates
    <3>3. ~At(r, "revoke")
      BY <2>1 DEF SetDeleted, At
    <3>4. \A x \in Requests : InReset(x) => InReset(x)'
      BY <1>8, <3>3, ChangeMoves, ResetsStay
    <3> QED
      BY <3>1, <3>2, <3>4 DEF Quiet
  <2>2. CASE EnableFactor(r) \/ RequireMfa(r) \/ (\E c \in Codes : InsertCode(r, c)) \/ Enabled(r)
    <3>1. UNCHANGED <<pw, sess, proved, raced, half>>
      BY <2>2 DEF EnableFactor, RequireMfa, InsertCode, Enabled, OnlyRequests, userVars, sessVars, history
    <3>2. ~At(r, "revoke")
      BY <2>2 DEF EnableFactor, RequireMfa, InsertCode, Enabled, At
    <3> QED
      BY <1>5, <1>8, <3>1, <3>2, ChangeMoves
  <2> QED
    BY <1>8, <2>1, <2>2 DEF Change
<1>9. ASSUME NEW r \in Requests, Rotation(r)
      PROVE  Quiet
  <2>1. ~At(r, "revoke") /\ UNCHANGED <<pw, proved, raced, half>>
    BY <1>9 DEF Rotation, FindResult, SelectSession, Rotate, RotateLost, Poll, At, userVars
  <2>2. CASE Rotate(r)
    <3>1. PICK a \in Sessions : a = req[r].sess /\ Refreshable(a)
      BY <2>2 DEF ReqInv, Allowed, Rotate, At, Rotatable, HasToken
    <3>2. sess' = [sess EXCEPT ![a].refresh = tokens + 1, ![a].status = "live"]
      BY <2>2, <3>1 DEF Rotate
    <3>3. \A s \in Sessions :
            sess'[s] = IF s = a THEN [sess[s] EXCEPT !.refresh = tokens + 1, !.status = "live"]
                       ELSE sess[s]
      BY <1>0, <3>2
    <3>4. \A s \in Sessions : sess'[s].mfa = sess[s].mfa /\ sess'[s].pw = sess[s].pw
      BY <1>0, <3>3 DEF SessionStates
    <3>5. \A s \in Sessions : Refreshable(s)' => Refreshable(s)
      BY <3>1, <3>3 DEF Refreshable
    <3>6. \A x \in Requests : InReset(x) => InReset(x)'
      BY <1>9, <2>1, RotationMoves, ResetsStay
    <3> QED
      BY <2>1, <3>4, <3>5, <3>6 DEF Quiet
  <2>3. CASE ~Rotate(r)
    <3>1. UNCHANGED sess
      BY <1>9, <2>3 DEF Rotation, FindResult, SelectSession, RotateLost, Poll, sessVars
    <3> QED
      BY <1>5, <1>9, <2>1, <3>1, RotationMoves
  <2> QED
    BY <2>2, <2>3
<1> QED
  BY <1>2, <1>3, <1>4, <1>6, <1>7, <1>8, <1>9 DEF AnyStep, Next

-----------------------------------------------------------------------------
(* A session that counts as verified has shown a second factor. *)

LEMMA MfaStep ==
  ASSUME ReqInv, MfaMeansProof, AnyStep
  PROVE  MfaMeansProof'
<1>0. sess \in [Sessions -> SessionStates] /\ \A r \in Requests : Allowed(r) /\ req[r] \in RequestStates
  BY DEF ReqInv, AuthTypeOK
<1>1. CASE Quiet
  BY <1>1 DEF Quiet, MfaMeansProof
<1>2. ASSUME NEW r \in Requests, NEW s \in Sessions, CreateSession(r, s)
      PROVE  MfaMeansProof'
  <2>1. req[r].mfa => req[r].proof
    BY <1>0, <1>2 DEF CreateSession, Allowed, At
  <2>2. sess'[s].mfa = req[r].mfa /\ (\A x \in Sessions \ {s} : sess'[x] = sess[x])
    BY <1>0, <1>2 DEF CreateSession
  <2>3. proved \subseteq proved' /\ (req[r].proof => s \in proved')
    BY <1>2 DEF CreateSession
  <2> QED
    BY <2>1, <2>2, <2>3 DEF MfaMeansProof
<1>3. ASSUME NEW r \in Requests, SetPassword(r) \/ Die(r)
      PROVE  MfaMeansProof'
  <2>1. sess' = sess /\ proved' = proved
    BY <1>3 DEF SetPassword, Die, sessVars
  <2> QED
    BY <2>1 DEF MfaMeansProof
<1>4. ASSUME NEW r \in Requests, RevokeAll(r)
      PROVE  MfaMeansProof'
  BY <1>0, <1>4 DEF RevokeAll, Revoked, MfaMeansProof, SessionStates
<1>5. ASSUME NEW r \in Requests, MarkVerified(r)
      PROVE  MfaMeansProof'
  <2>1. req[r].proof /\ req[r].sess \in Sessions
    BY <1>0, <1>5 DEF MarkVerified, Allowed, At
  <2>2. CASE UNCHANGED <<sess, proved>>
    BY <2>2 DEF MfaMeansProof
  <2>3. CASE sess' = [sess EXCEPT ![req[r].sess].mfa = TRUE] /\ proved' = proved \cup {req[r].sess}
    <3>1. \A x \in Sessions : x # req[r].sess => sess'[x] = sess[x]
      BY <1>0, <2>3
    <3> QED
      BY <2>3, <3>1 DEF MfaMeansProof
  <2> QED
    BY <1>5, <2>1, <2>2, <2>3 DEF MarkVerified
<1> QED
  BY <1>1, <1>2, <1>3, <1>4, <1>5, SessionMoves

-----------------------------------------------------------------------------
(* After a reset the sessions of the old password are over. *)

LEMMA PasswordStep ==
  ASSUME ReqInv, PasswordOfLiveSession, AnyStep
  PROVE  PasswordOfLiveSession'
<1>0. /\ sess \in [Sessions -> SessionStates] /\ req \in [Requests -> RequestStates] /\ pw \in Nat
      /\ \A r \in Requests : Allowed(r) /\ req[r] \in RequestStates
  BY DEF ReqInv, AuthTypeOK
<1> DEFINE Excused(s) == s \in raced \/ half \/ \E r \in Requests : InReset(r)
           Old(s) == Refreshable(s) /\ sess[s].pw >= 0 /\ sess[s].pw # pw
<1>1. \A s \in Sessions : Old(s) => Excused(s)
  BY DEF PasswordOfLiveSession, InReset
<1>2. SUFFICES \A s \in Sessions : Old(s)' => Excused(s)'
  BY DEF PasswordOfLiveSession, InReset
<1>3. CASE Quiet
  <2>1. \A s \in Sessions : Old(s)' => Old(s)
    BY <1>3 DEF Quiet
  <2>2. \A s \in Sessions : Excused(s) => Excused(s)'
    BY <1>3 DEF Quiet
  <2> QED
    BY <1>1, <2>1, <2>2
<1>4. ASSUME NEW r \in Requests, NEW x \in Sessions, CreateSession(r, x)
      PROVE  \A s \in Sessions : Old(s)' => Excused(s)'
  <2>1. /\ pw' = pw /\ half' = half /\ raced \subseteq raced'
        /\ \A s \in Sessions \ {x} : sess'[s] = sess[s]
        /\ sess'[x].pw = req[r].pw /\ req[r].pw \in Int
    BY <1>0, <1>4 DEF CreateSession, userVars, RequestStates
  <2>2. \A q \in Requests : InReset(q) => InReset(q)'
    BY <1>4, SignInMoves, ResetsStay DEF SignIn, CreateSession, At
  <2>3. req[r].pw >= 0 /\ req[r].pw # pw => x \in raced'
    BY <1>0, <1>4, <2>1 DEF CreateSession, Allowed, Is
  <2>4. Old(x)' => Excused(x)'
    BY <2>1, <2>3
  <2>5. \A s \in Sessions \ {x} : Old(s)' => Old(s)
    BY <2>1 DEF Refreshable
  <2>6. \A s \in Sessions \ {x} : Excused(s) => Excused(s)'
    BY <2>1, <2>2
  <2> QED
    BY <1>1, <2>4, <2>5, <2>6
<1>5. ASSUME NEW r \in Requests, SetPassword(r)
      PROVE  \A s \in Sessions : Old(s)' => Excused(s)'
  <2>1. Go(r, "revoke") /\ req[r].op = "password_reset"
    BY <1>5 DEF SetPassword, Is
  <2>2. InReset(r)'
    BY <1>0, <2>1, GoMoves DEF InReset, At, Is, Stages
  <2> QED
    BY <2>2
<1>6. ASSUME NEW r \in Requests, RevokeAll(r)
      PROVE  \A s \in Sessions : Old(s)' => Excused(s)'
  <2>1. \A s \in Sessions : ~Refreshable(s)'
    BY <1>0, <1>6 DEF RevokeAll, Revoked, Refreshable, SessionStates
  <2> QED
    BY <2>1
<1>7. ASSUME NEW r \in Requests, MarkVerified(r)
      PROVE  \A s \in Sessions : Old(s)' => Excused(s)'
  <2>1. UNCHANGED <<pw, raced, half>> /\ ~At(r, "revoke")
    BY <1>7 DEF MarkVerified, userVars, At
  <2>2. \A q \in Requests : InReset(q) => InReset(q)'
    BY <1>7, <2>1, ChangeMoves, ResetsStay DEF Change
  <2>3. NoToken
    <3>1. ~\E s \in Sessions : NewToken(s)
      BY <1>7 DEF MarkVerified, NewToken, ReqInv, AuthTypeOK
    <3> QED
      BY <3>1, TokenMoves
  <2>4. \A s \in Sessions : Old(s)' => Old(s)
    BY <2>1, <2>3 DEF NoToken
  <2> QED
    BY <1>1, <2>1, <2>2, <2>4
<1>8. ASSUME NEW r \in Requests, Die(r)
      PROVE  \A s \in Sessions : Old(s)' => Excused(s)'
  <2>1. /\ UNCHANGED <<pw, sess, raced>> /\ (half \/ InReset(r) => half')
    BY <1>8 DEF Die, userVars, sessVars, InReset
  <2>2. \A s \in Sessions : Old(s)' => Old(s)
    BY <2>1 DEF Refreshable
  <2>3. ~InReset(r) => \A q \in Requests : InReset(q) => InReset(q)'
    <3>1. \A q \in Requests \ {r} : req'[q] = req[q]
      BY <1>0, <1>8 DEF Die, Done, Become
    <3> QED
      BY <3>1 DEF InReset, At, Is
  <2> QED
    BY <1>1, <2>1, <2>2, <2>3
<1> QED
  BY <1>3, <1>4, <1>5, <1>6, <1>7, <1>8, SessionMoves

-----------------------------------------------------------------------------
(* One successor for each refresh token. *)

\* Who has been given a successor, or keeps one for others, has it of a token
\* that is used up; who was denied asked with one that no session answers to.
TokenInv ==
  /\ \A x \in answers \cup results :
       /\ x.old <= tokens
       /\ x.new > 0 => \A s \in Sessions : sess[s].refresh # x.old
  /\ \A x \in results : x.new > 0
  /\ \A x, y \in answers \cup results : x.old = y.old /\ x.new > 0 /\ y.new > 0 => x.new = y.new
  /\ \A b \in answers : b.new = 0 =>
       /\ Dead(b.old)
       /\ \A x \in results : ~(x.old = b.old /\ x.coord = b.coord)

LEMMA TokenCoordinated ==
  ASSUME TokenInv
  PROVE  RotationCoordinated
BY DEF TokenInv, RotationCoordinated

\* What was known of the tokens stays known: only new answers are to be checked.
LEMMA KnownStays ==
  ASSUME ReqInv, TokenInv, AnyStep
  PROVE  /\ \A x \in answers \cup results :
              /\ x.old <= tokens'
              /\ x.new > 0 => \A s \in Sessions : sess'[s].refresh # x.old
         /\ \A b \in answers : b.new = 0 => Dead(b.old)'
<1>1. tokens \in Nat /\ \A x \in answers \cup results : x.old \in Nat /\ x.old <= tokens
  BY DEF ReqInv, AuthTypeOK, Rotations, TokenInv
<1>2. tokens <= tokens' /\ tokens' \in Nat
  BY <1>1, TokenMoves DEF NoToken, NewToken
<1>3. ASSUME NEW x \in answers \cup results, x.new > 0, NEW s \in Sessions
      PROVE  sess'[s].refresh # x.old
  <2>1. sess[s].refresh # x.old
    BY <1>3 DEF TokenInv
  <2>2. sess'[s].refresh = sess[s].refresh \/ sess'[s].refresh = tokens + 1
    BY TokenMoves DEF NoToken, NewToken
  <2> QED
    BY <1>1, <2>1, <2>2
<1>4. ASSUME NEW b \in answers, b.new = 0
      PROVE  Dead(b.old)'
  <2>1. Dead(b.old)
    BY <1>4 DEF TokenInv
  <2>2. \A t \in Nat : t <= tokens /\ Dead(t) => Dead(t)'
    BY DeadStays
  <2>3. \A t \in Nat : t <= tokens /\ (\A s \in Sessions : ~HasToken(s, t))
                       => \A s \in Sessions : ~(Refreshable(s)' /\ sess'[s].refresh = t)
    BY <2>2 DEF Dead, HasToken, Refreshable
  <2> QED
    BY <1>1, <2>1, <2>3 DEF Dead, HasToken, Refreshable
<1> QED
  BY <1>1, <1>2, <1>3, <1>4

LEMMA TokenStep ==
  ASSUME ReqInv, TokenInv, AnyStep
  PROVE  TokenInv'
<1>0. /\ answers \subseteq Rotations /\ results \subseteq Rotations /\ tokens \in Nat
      /\ sess \in [Sessions -> SessionStates]
  BY DEF ReqInv, AuthTypeOK
<1>1. CASE answers' \subseteq answers \cup results /\ results' \subseteq results
           /\ (\A b \in answers' : b.new = 0 => b \in answers)
  <2>1. answers' \cup results' \subseteq answers \cup results
    BY <1>1
  <2>2. \A x \in answers' \cup results' :
          /\ x.old <= tokens'
          /\ x.new > 0 => \A s \in Sessions : sess'[s].refresh # x.old
    BY <2>1, KnownStays
  <2>3. \A x, y \in answers' \cup results' : x.old = y.old /\ x.new > 0 /\ y.new > 0 => x.new = y.new
    BY <2>1 DEF TokenInv
  <2>4. \A x \in results' : x.new > 0
    BY <1>1 DEF TokenInv
  <2>5. \A b \in answers' : b.new = 0 =>
          Dead(b.old)' /\ \A x \in results' : ~(x.old = b.old /\ x.coord = b.coord)
    BY <1>1, KnownStays DEF TokenInv, Dead, HasToken, Refreshable
  <2> QED
    BY <2>2, <2>3, <2>4, <2>5 DEF TokenInv, Dead, HasToken, Refreshable
<1>2. ASSUME NEW r \in Requests, Rotation(r)
      PROVE  TokenInv'
  <2>0. /\ Answered(r) /\ req[r].token \in 1..tokens
        /\ \A x \in Completed(r) : x \in results /\ x.old = req[r].token /\ x.coord = req[r].coord
    BY <1>2, RotationAnswers DEF Answered, Completed
  <2>1. CASE answers' = answers /\ results' = results
    BY <1>1, <2>1
  <2>2. ASSUME NEW x \in Completed(r), answers' = answers \cup {x}, results' = results
        PROVE  TokenInv'
    <3>1. x \in results /\ x.new > 0 /\ x.new \in Nat
      BY <1>0, <2>0, <2>2 DEF TokenInv, Rotations
    <3>2. \A b \in answers' : b.new = 0 => b \in answers
      BY <2>2, <3>1
    <3> QED
      BY <1>1, <2>2, <3>1, <3>2
  <2>3. CASE /\ answers' = answers \cup {Denial(r)} /\ results' = results
             /\ Completed(r) = {} /\ Dead(req[r].token) /\ sess' = sess
    <3> DEFINE b == Denial(r)
    <3>1. b.old = req[r].token /\ b.coord = req[r].coord /\ b.new = 0
      BY DEF Denial
    <3>2. \A x \in results : ~(x.old = b.old /\ x.coord = b.coord)
      BY <2>3, <3>1 DEF Completed
    <3>3. \A s \in Sessions : ~(Refreshable(s)' /\ sess'[s].refresh = b.old)
      BY <2>3, <3>1 DEF Dead, HasToken, Refreshable
    <3>4. b.old <= tokens'
      BY <1>0, <1>2, <2>0, <3>1, TokenMoves DEF NoToken, NewToken
    <3> HIDE DEF b
    <3>5. answers' = answers \cup {b} /\ results' = results
      BY <2>3 DEF b
    <3>6. \A x \in answers' \cup results' :
            /\ x.old <= tokens'
            /\ x.new > 0 => \A s \in Sessions : sess'[s].refresh # x.old
      BY <3>1, <3>4, <3>5, KnownStays
    <3>7. \A x, y \in answers' \cup results' : x.old = y.old /\ x.new > 0 /\ y.new > 0 => x.new = y.new
      BY <3>1, <3>5 DEF TokenInv
    <3>8. \A c \in answers' : c.new = 0 =>
            /\ \A s \in Sessions : ~(Refreshable(s)' /\ sess'[s].refresh = c.old)
            /\ \A x \in results' : ~(x.old = c.old /\ x.coord = c.coord)
      BY <3>2, <3>3, <3>5, KnownStays DEF TokenInv, Dead, HasToken, Refreshable
    <3> QED
      BY <3>5, <3>6, <3>7, <3>8 DEF TokenInv, Dead, HasToken, Refreshable
  <2>4. ASSUME Rotate(r),
               answers' = answers \cup {[old |-> req[r].token, coord |-> req[r].coord, new |-> tokens + 1]},
               results' \subseteq results \cup
                             {[old |-> req[r].token, coord |-> req[r].coord, new |-> tokens + 1]}
        PROVE  TokenInv'
    <3> DEFINE x == [old |-> req[r].token, coord |-> req[r].coord, new |-> tokens + 1]
               a == req[r].sess
    <3>1. x.old = req[r].token /\ x.new = tokens + 1 /\ x.new > 0 /\ x.old \in 1..tokens /\ x.old <= tokens'
      BY <1>0, <2>0, <2>4 DEF Rotate
    <3>2. a \in Sessions /\ HasToken(a, x.old)
      BY <2>4, <3>1 DEF Rotate, Rotatable, ReqInv, Allowed, At
    <3>3. sess[a].refresh = x.old
      BY <3>2 DEF HasToken
    <3>4. \A y \in answers \cup results : y.old = x.old => ~(y.new > 0)
      BY <3>2, <3>3 DEF TokenInv
    <3>5. \A y \in answers : y.new = 0 => y.old # x.old
      BY <3>2 DEF TokenInv, Dead
    <3>6. \A s \in Sessions : sess'[s].refresh # x.old
      <4>1. \A s \in Sessions \ {a} : sess'[s] = sess[s] /\ sess[s].refresh # x.old
        BY <1>0, <2>4, <3>1, <3>2, <3>3 DEF Rotate, ReqInv, Distinct
      <4>2. sess'[a].refresh = tokens + 1
        BY <1>0, <2>4, <3>2 DEF Rotate, SessionStates
      <4> QED
        BY <1>0, <3>1, <4>1, <4>2
    <3> HIDE DEF x, a
    <3>7. answers' = answers \cup {x} /\ results' \subseteq results \cup {x}
      BY <2>4 DEF x
    <3>8. \A y \in answers' \cup results' :
            /\ y.old <= tokens'
            /\ y.new > 0 => \A s \in Sessions : sess'[s].refresh # y.old
      BY <3>1, <3>6, <3>7, KnownStays
    <3>9. \A y \in results' : y.new > 0
      BY <3>1, <3>7 DEF TokenInv
    <3>10. \A y, z \in answers' \cup results' : y.old = z.old /\ y.new > 0 /\ z.new > 0 => y.new = z.new
      BY <3>4, <3>7 DEF TokenInv
    <3>11. \A c \in answers' : c.new = 0 =>
             /\ c \in answers
             /\ \A y \in results' : ~(y.old = c.old /\ y.coord = c.coord)
      BY <1>0, <3>1, <3>5, <3>7 DEF TokenInv
    <3>12. \A c \in answers' : c.new = 0 =>
             \A s \in Sessions : ~(Refreshable(s)' /\ sess'[s].refresh = c.old)
      BY <3>11, KnownStays DEF Dead, HasToken, Refreshable
    <3> QED
      BY <3>8, <3>9, <3>10, <3>11, <3>12 DEF TokenInv, Dead, HasToken, Refreshable
  <2> QED
    BY <2>0, <2>1, <2>2, <2>3, <2>4 DEF Answered
<1> QED
  BY <1>1, <1>2, RotationVars

-----------------------------------------------------------------------------
(* The lockout, counted. *)

\* The sign-ins that may yet record a failure.
MayFail(r) == req[r].op = "password" /\ req[r].at \in {"user", "mfa", "failed"}
Failing == {r \in Requests : MayFail(r)}
LockInv == failures + Cardinality(Failing) <= MaxFailed - 1 + Cardinality(Requests)

LEMMA FailingFinite ==
  /\ IsFiniteSet(Requests) /\ Cardinality(Requests) \in Nat
  /\ \A S \in SUBSET Requests :
       IsFiniteSet(S) /\ Cardinality(S) \in Nat /\ Cardinality(S) <= Cardinality(Requests)
BY AuthAssumption, FS_Subset, FS_CardinalityType

\* Only a call of signInWithPassword makes one more of them, and only
\* recordLoginAttempt adds to the failures.
LEMMA LockMoves ==
  ASSUME ReqInv, AnyStep
  PROVE  \/ failures' \in Nat /\ failures' <= failures /\ Failing' \subseteq Failing
         \/ \E r \in Requests : RecordFailure(r)
         \/ UNCHANGED failures /\ ~Locked
<1>0. /\ failures \in Nat /\ req \in [Requests -> RequestStates]
      /\ \A r \in Requests : Allowed(r) /\ req[r] \in RequestStates
  BY DEF ReqInv, AuthTypeOK
<1>1. CASE req' = req /\ (failures' = failures \/ WindowMoves)
  BY <1>0, <1>1 DEF Failing, MayFail, WindowMoves
<1>2. CASE \/ \E l \in Links, k \in LinkKinds : Issue(l, k) \/ Challenge(l, k)
           \/ \E s \in Sessions : RevokeSession(s)
           \/ Enroll \/ OutsideFault \/ UNCHANGED vars
  BY <1>1, <1>2 DEF OutsideFault, vars, Issue, Challenge, RevokeSession, Enroll
<1>3. CASE Time
  BY <1>1, <1>3 DEF Time, ExpireLink, ExpireSession, ExpireResult, WindowMoves
<1>4. ASSUME NEW r \in Requests, Moved(r), failures' = failures, MayFail(r)' => MayFail(r)
      PROVE  failures' \in Nat /\ failures' <= failures /\ Failing' \subseteq Failing
  <2>1. \A x \in Requests \ {r} : req'[x] = req[x]
    BY <1>0, <1>4 DEF Moved
  <2>2. \A x \in Requests : MayFail(x)' => MayFail(x)
    BY <1>4, <2>1 DEF MayFail
  <2> QED
    BY <1>0, <1>4, <2>2 DEF Failing
<1>5. ASSUME NEW r \in Requests, Call(r)
      PROVE  \/ failures' \in Nat /\ failures' <= failures /\ Failing' \subseteq Failing
             \/ UNCHANGED failures /\ ~Locked
  <2>1. UNCHANGED failures
    BY <1>5 DEF Call, CallWithLink, CallPassword, CallDelete, CallEnable, CallVerify,
       CallVerifyPasskey, CallRotate, OnlyRequests
  <2>2. ASSUME NEW l \in Links, NEW c \in Codes \cup {"totp", None}, CallWithLink(r, l, c)
        PROVE  ~MayFail(r)'
    <3>1. link[l].kind \in LinkKinds
      BY <2>2 DEF CallWithLink, ReqInv, AuthTypeOK, LinkRows
    <3>2. req'[r].op = link[l].kind
      BY <1>0, <2>2 DEF CallWithLink, Become, Idle
    <3> QED
      BY <3>1, <3>2 DEF MayFail, LinkKinds
  <2>3. ASSUME NEW s \in Sessions \cup {None}, CallDelete(r) \/ CallEnable(r, s)
        PROVE  ~MayFail(r)'
    <3>1. CallDelete(r) => req'[r].op = "delete"
      BY <1>0 DEF CallDelete, Become, Idle
    <3>2. CallEnable(r, s) => req'[r].op = "enable"
      BY <1>0 DEF CallEnable, Become, Idle
    <3> QED
      BY <2>3, <3>1, <3>2 DEF MayFail
  <2>4. ASSUME NEW s \in Sessions, NEW c \in Codes \cup {"totp"}, CallVerify(r, s, c)
        PROVE  ~MayFail(r)'
    BY <1>0, <2>4 DEF CallVerify, Become, Idle, MayFail
  <2>5. ASSUME NEW s \in Sessions, NEW l \in Links, CallVerifyPasskey(r, s, l)
        PROVE  ~MayFail(r)'
    BY <1>0, <2>5 DEF CallVerifyPasskey, Become, Idle, MayFail
  <2>6. ASSUME NEW k \in 1..tokens, NEW c \in Coordinators \cup {None}, CallRotate(r, k, c)
        PROVE  ~MayFail(r)'
    BY <1>0, <2>6 DEF CallRotate, Become, Idle, MayFail
  <2>7. ASSUME NEW v \in {pw, -1}, NEW c \in Codes \cup {"totp", None}, CallPassword(r, v, c)
        PROVE  ~Locked
    BY <2>7 DEF CallPassword
  <2> QED
    BY <1>4, <1>5, <2>1, <2>2, <2>3, <2>4, <2>5, <2>6, <2>7, CallMoves DEF Call
<1>6. ASSUME NEW r \in Requests, Done(r) \/ \E s \in Stages \ {"user", "mfa", "failed"} : Go(r, s)
      PROVE  ~MayFail(r)'
  BY <1>0, <1>6, GoMoves DEF Done, Become, Idle, MayFail
<1>7. ASSUME NEW r \in Requests, SignIn(r), ~RecordFailure(r)
      PROVE  failures' = failures /\ (MayFail(r)' => MayFail(r))
  <2>1. failures' = failures
    BY <1>7 DEF SignIn, Consume, FoundByLink, FoundByProvider, FoundByPasskey, VerifiedByPasskey,
       Refused, FindUser, VerifyMfa, SpendCode, CreateSession, OnlyRequests
  <2>2. CASE \/ Consume(r) \/ FoundByLink(r) \/ Refused(r) \/ SpendCode(r)
             \/ \E s \in Sessions : CreateSession(r, s)
    <3>1. Done(r) \/ \E s \in Stages \ {"user", "mfa", "failed"} : Go(r, s)
      BY <2>2 DEF Consume, FoundByLink, Refused, SpendCode, CreateSession, AfterLink, AfterMfa, Stages
    <3> QED
      BY <1>6, <2>1, <3>1
  <2>3. CASE FindUser(r)
    BY <2>1, <2>3 DEF FindUser, MayFail, At, Is
  <2>4. ASSUME req[r].op # "password", NEW x, x.op = req[r].op, req' = [req EXCEPT ![r] = x]
        PROVE  ~MayFail(r)'
    BY <1>0, <2>4 DEF MayFail
  <2>5. CASE VerifyMfa(r)
    <3>1. CASE req[r].op = "password"
      BY <2>1, <2>5, <3>1 DEF VerifyMfa, MayFail, At
    <3>2. CASE req[r].op # "password"
      <4>1. \/ Done(r)
            \/ \E s \in {"create", "mark", "spend"} :
                 Become(r, [req[r] EXCEPT !.at = s, !.proof = TRUE])
        BY <1>0, <2>5, <3>2 DEF VerifyMfa, AfterMfa, Allowed, At, Is
      <4>2. \A s \in {"create", "mark", "spend"} : [req[r] EXCEPT !.at = s, !.proof = TRUE].op = req[r].op
        BY <1>0 DEF RequestStates
      <4> QED
        BY <1>6, <2>1, <2>4, <3>2, <4>1, <4>2 DEF Become
    <3> QED
      BY <3>1, <3>2
  <2>6. CASE FoundByProvider(r) \/ FoundByPasskey(r) \/ VerifiedByPasskey(r)
    <3>1. req[r].op # "password" /\ req[r] \in RequestStates
      BY <1>0, <2>6 DEF FoundByProvider, FoundByPasskey, VerifiedByPasskey, Is
    <3>2. CASE FoundByProvider(r)
      <4>1. PICK enforce \in BOOLEAN :
               req' = [req EXCEPT ![r] =
                         [req[r] EXCEPT !.mfa = Assured(enforce),
                                        !.code = IF Assured(enforce) THEN @ ELSE None,
                                        !.at = IF Assured(enforce) THEN "mfa" ELSE "create"]]
        BY <3>2 DEF FoundByProvider, Become
      <4>2. [req[r] EXCEPT !.mfa = Assured(enforce),
                           !.code = IF Assured(enforce) THEN @ ELSE None,
                           !.at = IF Assured(enforce) THEN "mfa" ELSE "create"].op = req[r].op
        BY <3>1 DEF RequestStates
      <4> QED
        BY <2>1, <2>4, <3>1, <4>1, <4>2
    <3>3. CASE FoundByPasskey(r)
      <4>1. PICK verified \in BOOLEAN :
               req' = [req EXCEPT ![r] = [req[r] EXCEPT !.mfa = verified, !.proof = verified,
                                                        !.at = "create"]]
        BY <3>3 DEF FoundByPasskey, Become
      <4>2. [req[r] EXCEPT !.mfa = verified, !.proof = verified, !.at = "create"].op = req[r].op
        BY <3>1 DEF RequestStates
      <4> QED
        BY <2>1, <2>4, <3>1, <4>1, <4>2
    <3>4. CASE VerifiedByPasskey(r)
      <4>1. req' = [req EXCEPT ![r] = [req[r] EXCEPT !.proof = TRUE, !.at = "mark"]]
        BY <3>4 DEF VerifiedByPasskey, Become
      <4>2. [req[r] EXCEPT !.proof = TRUE, !.at = "mark"].op = req[r].op
        BY <3>1 DEF RequestStates
      <4> QED
        BY <2>1, <2>4, <3>1, <4>1, <4>2
    <3> QED
      BY <2>6, <3>2, <3>3, <3>4
  <2> QED
    BY <1>7, <2>2, <2>3, <2>5, <2>6 DEF SignIn
<1>8. ASSUME NEW r \in Requests, Change(r)
      PROVE  failures' = failures /\ (MayFail(r)' => MayFail(r))
  <2>1. failures' = failures
    BY <1>8 DEF Change, SetPassword, SetDeleted, RevokeAll, EnableFactor, RequireMfa, InsertCode,
       Enabled, MarkVerified, OnlyRequests
  <2>2. req' = req \/ Done(r) \/ \E s \in Stages \ {"user", "mfa", "failed"} : Go(r, s)
    BY <1>8 DEF Change, SetPassword, SetDeleted, RevokeAll, EnableFactor, RequireMfa, InsertCode,
       Enabled, MarkVerified, OnlyRequests, Stages
  <2> QED
    BY <1>6, <2>1, <2>2 DEF MayFail
<1>9. ASSUME NEW r \in Requests, Rotation(r)
      PROVE  failures' = failures /\ (MayFail(r)' => MayFail(r))
  <2>1. failures' = failures
    BY <1>9 DEF Rotation, FindResult, SelectSession, Rotate, RotateLost, Poll
  <2>2. \/ Done(r) \/ \E s \in Stages \ {"user", "mfa", "failed"} : Go(r, s)
        \/ \E s \in Sessions : Become(r, [req[r] EXCEPT !.at = "update", !.sess = s])
    BY <1>9 DEF Rotation, FindResult, SelectSession, Rotate, RotateLost, Poll, Answer, Missed, Stages
  <2>3. \A s \in Sessions : [req[r] EXCEPT !.at = "update", !.sess = s].at = "update"
    BY <1>0 DEF RequestStates
  <2>4. ASSUME NEW s \in Sessions, Become(r, [req[r] EXCEPT !.at = "update", !.sess = s])
        PROVE  ~MayFail(r)'
    BY <1>0, <2>3, <2>4 DEF MayFail, Become
  <2> QED
    BY <1>6, <2>1, <2>2, <2>4
<1>10. ASSUME NEW r \in Requests, Die(r)
       PROVE  failures' = failures /\ (MayFail(r)' => MayFail(r))
  BY <1>6, <1>10 DEF Die
<1> QED
  BY <1>2, <1>3, <1>4, <1>5, <1>7, <1>8, <1>9, <1>10, CallMoves, SignInMoves, ChangeMoves, RotationMoves
     DEF AnyStep, Next

LEMMA LockStep ==
  ASSUME ReqInv, LockInv, AnyStep
  PROVE  LockInv'
<1>0. /\ failures \in Nat /\ req \in [Requests -> RequestStates] /\ MaxFailed \in Nat
      /\ \A r \in Requests : Allowed(r)
  BY AuthAssumption DEF ReqInv, AuthTypeOK
<1>1. Failing \subseteq Requests /\ Failing' \subseteq Requests
  BY DEF Failing
<1>2. /\ IsFiniteSet(Failing) /\ Cardinality(Failing) \in Nat
      /\ IsFiniteSet(Failing') /\ Cardinality(Failing') \in Nat
      /\ Cardinality(Failing') <= Cardinality(Requests) /\ Cardinality(Requests) \in Nat
  BY <1>1, FailingFinite
<1>3. LockInv' <=> failures' + Cardinality(Failing') <= MaxFailed - 1 + Cardinality(Requests)
  BY DEF LockInv
<1>4. CASE failures' \in Nat /\ failures' <= failures /\ Failing' \subseteq Failing
  <2>1. Cardinality(Failing') <= Cardinality(Failing)
    BY <1>2, <1>4, FS_Subset
  <2> QED
    BY <1>0, <1>2, <1>3, <1>4, <2>1 DEF LockInv
<1>5. ASSUME NEW r \in Requests, RecordFailure(r)
      PROVE  LockInv'
  <2>1. failures' = failures + 1 /\ r \in Failing
    BY <1>0, <1>5 DEF RecordFailure, Failing, MayFail, Allowed, At
  <2>2. Failing' \subseteq Failing \ {r}
    BY <1>0, <1>5 DEF RecordFailure, Done, Become, Idle, Failing, MayFail
  <2>3. Cardinality(Failing \ {r}) = Cardinality(Failing) - 1 /\ IsFiniteSet(Failing \ {r})
    BY <1>2, <2>1, FS_RemoveElement
  <2>4. Cardinality(Failing') <= Cardinality(Failing \ {r})
    BY <2>2, <2>3, FS_Subset
  <2> QED
    BY <1>0, <1>2, <1>3, <2>1, <2>3, <2>4 DEF LockInv
<1>6. CASE UNCHANGED failures /\ ~Locked
  BY <1>0, <1>2, <1>3, <1>6 DEF Locked
<1> QED
  BY <1>4, <1>5, <1>6, LockMoves

LEMMA LockoutHolds ==
  ASSUME ReqInv, LockInv
  PROVE  LockoutBounded
<1>1. Cardinality(Failing) \in Nat /\ Cardinality(Requests) \in Nat
  BY FailingFinite DEF Failing
<1> QED
  BY <1>1, AuthAssumption DEF LockInv, LockoutBounded, ReqInv, AuthTypeOK

-----------------------------------------------------------------------------
(* Every behaviour of the service. *)

AuthInv == ReqInv /\ MfaMeansProof /\ PasswordOfLiveSession /\ TokenInv /\ LockInv

LEMMA AuthInitially ==
  ASSUME Init
  PROVE  AuthInv
<1>1. AuthTypeOK
  <2>1. 0 \in 0..MaxTokens /\ 0 \in 0..MaxFaults
    BY AuthAssumption
  <2>2. Idle \in RequestStates /\ NoSession \in SessionStates
    BY <2>1 DEF Idle, RequestStates, NoSession, SessionStates
  <2> QED
    BY <2>1, <2>2 DEF Init, AuthTypeOK
<1>2. ReqInv
  BY <1>1 DEF Init, ReqInv, Distinct, Allowed, Idle, NoSession
<1>3. MfaMeansProof /\ PasswordOfLiveSession /\ TokenInv
  BY DEF Init, MfaMeansProof, PasswordOfLiveSession, TokenInv, NoSession, Refreshable
<1>4. LockInv
  <2>1. Failing = {}
    BY DEF Init, Failing, MayFail, Idle
  <2> QED
    BY <2>1, FailingFinite, FS_EmptySet, AuthAssumption DEF Init, LockInv
<1> QED
  BY <1>2, <1>3, <1>4 DEF AuthInv

LEMMA AuthSteps ==
  ASSUME AuthInv, AnyStep
  PROVE  AuthInv'
BY ReqStep, MfaStep, PasswordStep, TokenStep, LockStep DEF AuthInv

-----------------------------------------------------------------------------
(* The devices of the API. *)

Places == {"none", "sign in", "refresh", "device", "row", "rotated", "end", "devices", "sessions"}
MobileRows == [device : Devices, revoked : BOOLEAN]
CallStates == [at : Places, device : Devices \cup {None}, sess : Sessions \cup {None},
               left : SUBSET Sessions]

MobileTypeOK ==
  /\ device \in [Devices -> {"none", "known", "revoked"}]
  /\ mobile \in [Sessions -> MobileRows \cup {NoMobile}]
  /\ call \in [Requests -> CallStates]

\* What a request of the API knows where it is.  A revocation that is about to
\* commit has read every session that its transaction will find, or one that was
\* revoked before, but for those that came in between.
CallRule(r) ==
  /\ call[r].at \notin {"none", "sign in", "refresh"} => req[r] = Idle
  /\ call[r].at \in {"device", "row", "rotated", "end"} =>
       call[r].sess \in Sessions /\ sess[call[r].sess].status # "none"
  /\ call[r].at \in {"row", "devices", "sessions"} => call[r].device \in Devices
  /\ call[r].at = "devices" =>
       \A s \in Sessions : mobile[s].device = call[r].device
                           => s \in call[r].left \/ mobile[s].revoked \/ s \in missed

\* A row belongs to a session, and is revoked exactly with its device, if it is in time.
RowRule(s) ==
  mobile[s] # NoMobile =>
    /\ sess[s].status # "none"
    /\ mobile[s].revoked => device[mobile[s].device] = "revoked"
    /\ device[mobile[s].device] = "revoked" => mobile[s].revoked \/ s \in late

\* A session of a revoked device is over, or one of the exceptions.
BeingEnded(s) == \E r \in Requests : CallAt(r, "sessions") /\ s \in call[r].left
EndRule(s) ==
  (mobile[s] # NoMobile /\ device[mobile[s].device] = "revoked" /\ Refreshable(s))
  => s \in late \cup missed \/ BeingEnded(s)

MobileInv ==
  /\ MobileTypeOK
  /\ \A r \in Requests : CallRule(r)
  /\ \A s \in Sessions : RowRule(s) /\ EndRule(s)

LEMMA DevicesRevoked ==
  ASSUME MobileInv
  PROVE  DeviceRevocation
BY DEF MobileInv, RowRule, EndRule, BeingEnded, DeviceRevocation, Authenticated

\* A step of the API is a step of the service, or none that it sees.
LEMMA MobileSteps ==
  ASSUME MobileInv, MobileNext
  PROVE  AnyStep
<1>1. CASE AuthStep
  BY <1>1 DEF AuthStep, AnyStep
<1>2. ASSUME NEW r \in Requests, CallSignIn(r)
      PROVE  Call(r)
  BY <1>2 DEF CallSignIn, Call
<1>3. ASSUME NEW r \in Requests, CallRefresh(r)
      PROVE  Call(r)
  <2>1. PICK k \in 1..tokens : CallRotate(r, k, None)
    BY <1>3 DEF CallRefresh
  <2> QED
    BY <2>1 DEF Call
<1>4. ASSUME NEW r \in Requests, UpdateRotated(r) \/ InsertMobile(r) \/ MarkRevoked(r)
      PROVE  UNCHANGED vars
  BY <1>4 DEF UpdateRotated, InsertMobile, MarkRevoked, OnlyCalls
<1>5. ASSUME NEW r \in Requests, NEW d \in Devices, NEW s \in Sessions,
             GetDevice(r, d) \/ CallRevokeDevice(r, d, s)
      PROVE  UNCHANGED vars
  BY <1>5 DEF GetDevice, CallRevokeDevice, OnlyCalls
<1>6. ASSUME NEW r \in Requests, EndSession(r)
      PROVE  AnyStep
  <2>1. RevokeSession(call[r].sess) /\ call[r].sess \in Sessions
    BY <1>6 DEF EndSession, CallAt, MobileInv, CallRule
  <2> QED
    BY <2>1 DEF AnyStep, Next
<1>7. ASSUME NEW r \in Requests, NEW s \in Sessions, RevokeLinked(r, s)
      PROVE  AnyStep
  BY <1>7 DEF RevokeLinked, AnyStep, Next
<1>8. ASSUME NEW r \in Requests, DieOutside(r)
      PROVE  OutsideFault
  BY <1>8 DEF DieOutside, OutsideFault
<1>9. ASSUME NEW r \in Requests, Call(r) \/ UNCHANGED vars \/ OutsideFault
      PROVE  AnyStep
  BY <1>9 DEF AnyStep, Next
<1>10. ASSUME NEW r \in Requests, Mobile(r)
       PROVE  AnyStep
  <2>1. CASE CallSignIn(r) \/ CallRefresh(r)
    BY <1>2, <1>3, <1>9, <2>1
  <2>2. CASE UpdateRotated(r) \/ InsertMobile(r) \/ MarkRevoked(r)
    BY <1>4, <1>9, <2>2
  <2>3. CASE \E d \in Devices : GetDevice(r, d) \/ \E s \in Sessions : CallRevokeDevice(r, d, s)
    <3>1. \A d \in Devices : GetDevice(r, d) => UNCHANGED vars
      BY DEF GetDevice
    <3> QED
      BY <1>5, <1>9, <2>3, <3>1
  <2>4. CASE DieOutside(r) \/ EndSession(r) \/ \E s \in Sessions : RevokeLinked(r, s)
    BY <1>6, <1>7, <1>8, <1>9, <2>4
  <2> QED
    BY <1>10, <2>1, <2>2, <2>3, <2>4 DEF Mobile
<1> QED
  BY <1>1, <1>10 DEF MobileNext

\* Sessions stay, and none comes back.
SessionsKept ==
  \A s \in Sessions :
    /\ sess[s].status # "none" => sess'[s].status # "none"
    /\ Refreshable(s)' => Refreshable(s) \/ sess[s].status = "none"

LEMMA SessionsStay ==
  ASSUME ReqInv, AnyStep
  PROVE  SessionsKept
<1>1. CASE NoToken
  BY <1>1 DEF NoToken, SessionsKept
<1>2. ASSUME NEW s \in Sessions, NewToken(s)
      PROVE  SessionsKept
  <2>1. ASSUME NEW x \in Sessions \ {s}
        PROVE  sess'[x] = sess[x]
    BY <1>2, <2>1 DEF NewToken
  <2>2. sess'[s].status = "live" /\ (sess[s].status = "none" \/ Refreshable(s))
    BY <1>2 DEF NewToken
  <2> QED
    BY <2>1, <2>2 DEF SessionsKept, Refreshable
<1> QED
  BY <1>1, <1>2, TokenMoves

\* What a request of the API knows stays true while it waits and the rows stay.
LEMMA CallKept ==
  ASSUME MobileInv, SessionsKept, NEW r \in Requests, CallRule(r), call'[r] = call[r],
         req'[r] = req[r] \/ call[r].at \in {"none", "sign in", "refresh"},
         mobile' = mobile, missed \subseteq missed'
  PROVE  CallRule(r)'
BY DEF CallRule, SessionsKept

\* What holds of the sessions stays true while the rows stay.
LEMMA RowsKept ==
  ASSUME MobileInv, SessionsKept, UNCHANGED <<device, mobile, late>>, missed \subseteq missed',
         NEW s \in Sessions,
         BeingEnded(s) => BeingEnded(s)' \/ ~Refreshable(s)' \/ s \in missed'
  PROVE  RowRule(s)' /\ EndRule(s)'
<1>1. RowRule(s) /\ EndRule(s)
  BY DEF MobileInv
<1>2. RowRule(s)'
  BY <1>1 DEF RowRule, SessionsKept
<1>3. EndRule(s)'
  <2>1. CASE ~Refreshable(s)'
    BY <2>1 DEF EndRule
  <2>2. CASE Refreshable(s)' /\ Refreshable(s)
    BY <1>1, <2>2 DEF EndRule
  <2>3. CASE Refreshable(s)' /\ sess[s].status = "none"
    <3>1. mobile[s] = NoMobile
      BY <1>1, <2>3 DEF RowRule
    <3> QED
      BY <3>1 DEF EndRule
  <2> QED
    BY <2>1, <2>2, <2>3 DEF SessionsKept
<1> QED
  BY <1>2, <1>3

\* A step in which the rows and the calls that are no longer waiting stay.
LEMMA CallsOnly ==
  ASSUME ReqInv, MobileInv, AnyStep, UNCHANGED <<mobileVars, mobileHistory>>,
         call' \in [Requests -> CallStates],
         NEW R \in SUBSET Requests, \A r \in R : CallRule(r)' /\ ~CallAt(r, "sessions"),
         \A r \in Requests \ R :
           /\ call'[r] = call[r]
           /\ req'[r] = req[r] \/ call[r].at \in {"none", "sign in", "refresh"}
  PROVE  MobileInv'
<1>1. SessionsKept
  BY SessionsStay
<1>2. UNCHANGED <<device, mobile, late, missed>>
  BY DEF mobileVars, mobileHistory
<1>3. \A r \in Requests : CallRule(r)'
  <2>1. ASSUME NEW r \in Requests \ R
        PROVE  CallRule(r)'
    BY <1>1, <1>2, CallKept DEF MobileInv
  <2> QED
    BY <2>1
<1>4. \A s \in Sessions : BeingEnded(s) => BeingEnded(s)'
  <2>1. \A r \in Requests : CallAt(r, "sessions") => CallAt(r, "sessions")' /\ call'[r] = call[r]
    <3>1. ASSUME NEW r \in Requests, CallAt(r, "sessions")
          PROVE  CallAt(r, "sessions")' /\ call'[r] = call[r]
      <4>1. r \notin R /\ call[r].at = "sessions" /\ req[r] = Idle
        BY <3>1 DEF CallAt
      <4> QED
        BY <4>1 DEF CallAt
    <3> QED
      BY <3>1
  <2> QED
    BY <2>1 DEF BeingEnded
<1>5. \A s \in Sessions : RowRule(s)' /\ EndRule(s)'
  <2>1. ASSUME NEW s \in Sessions
        PROVE  RowRule(s)' /\ EndRule(s)'
    BY <1>1, <1>2, <1>4, RowsKept
  <2> QED
    BY <2>1
<1>6. MobileTypeOK'
  BY <1>2 DEF MobileInv, MobileTypeOK
<1> QED
  BY <1>3, <1>5, <1>6 DEF MobileInv

LEMMA AuthStepDevices ==
  ASSUME ReqInv, MobileInv, AuthStep
  PROVE  MobileInv'
<1>1. AnyStep
  BY DEF AuthStep, AnyStep
<1>2. /\ call \in [Requests -> CallStates] /\ UNCHANGED <<mobileVars, mobileHistory>>
      /\ call' = [r \in Requests |-> IF Waits(r) /\ req'[r] = Idle THEN Returned(r) ELSE call[r]]
      /\ \A r \in Requests : call[r] # NoCall /\ ~Waits(r) => req'[r] = Idle
      /\ \A r \in Requests : CallRule(r)
  BY DEF AuthStep, MobileInv, MobileTypeOK
<1> DEFINE R == {r \in Requests : Waits(r) /\ req'[r] = Idle}
<1>3. NoCall \in CallStates
  BY DEF NoCall, CallStates, Places
<1>4. ASSUME NEW r \in R
      PROVE  call'[r] \in CallStates /\ CallRule(r)' /\ ~CallAt(r, "sessions")
  <2>1. call'[r] = Returned(r) /\ req'[r] = Idle /\ call[r].at \in {"sign in", "refresh"}
    BY <1>2 DEF Waits
  <2>2. CASE Returned(r) = NoCall
    <3>1. call'[r] = NoCall
      BY <2>1, <2>2
    <3>2. NoCall.at = "none"
      BY DEF NoCall
    <3> QED
      BY <1>3, <2>1, <3>1, <3>2 DEF CallRule, CallAt
  <2>3. CASE Returned(r) # NoCall
    <3>1. PICK s \in Sessions :
            /\ sess[s].refresh # sess'[s].refresh
            /\ \E p \in {"device", "rotated"} : Returned(r) = [NoCall EXCEPT !.sess = s, !.at = p]
      BY <2>3 DEF Returned
    <3>2. sess'[s].status # "none"
      BY <1>1, <3>1, TokenMoves DEF NoToken, NewToken
    <3>3. /\ call'[r] \in CallStates /\ call'[r].sess = s /\ call'[r].at \in {"device", "rotated"}
      <4>1. PICK p \in {"device", "rotated"} : call'[r] = [NoCall EXCEPT !.sess = s, !.at = p]
        BY <2>1, <3>1
      <4> QED
        BY <4>1 DEF CallStates, NoCall, Places
    <3> QED
      BY <2>1, <3>2, <3>3 DEF CallRule, CallAt
  <2> QED
    BY <2>2, <2>3
<1>5. ASSUME NEW r \in Requests \ R
      PROVE  call'[r] = call[r] /\ (req'[r] = req[r] \/ call[r].at \in {"none", "sign in", "refresh"})
  <2>1. call'[r] = call[r]
    BY <1>2
  <2>2. call[r] = NoCall => call[r].at = "none"
    BY DEF NoCall
  <2>3. Waits(r) => call[r].at \in {"sign in", "refresh"}
    BY DEF Waits
  <2> QED
    BY <1>2, <2>1, <2>2, <2>3 DEF CallRule
<1>6. call' \in [Requests -> CallStates]
  BY <1>2, <1>4, <1>5
<1> HIDE DEF R
<1>7. R \subseteq Requests
  BY DEF R
<1> QED
  BY <1>1, <1>2, <1>4, <1>5, <1>6, <1>7, CallsOnly

\* One request of the API goes on, with a step of its own or one of the service.
LEMMA OneCall ==
  ASSUME ReqInv, MobileInv, AnyStep, UNCHANGED <<mobileVars, mobileHistory>>, NEW r \in Requests,
         NEW c \in CallStates, Turn(r, c), CallRule(r)', ~CallAt(r, "sessions"),
         req' = req \/ Call(r)
  PROVE  MobileInv'
<1>1. call \in [Requests -> CallStates] /\ req \in [Requests -> RequestStates]
  BY DEF MobileInv, MobileTypeOK, ReqInv, AuthTypeOK
<1>2. call' \in [Requests -> CallStates] /\ \A x \in Requests \ {r} : call'[x] = call[x]
  BY <1>1 DEF Turn
<1>3. \A x \in Requests \ {r} : req'[x] = req[x]
  BY <1>1, CallMoves DEF Moved
<1>4. {r} \in SUBSET Requests /\ \A x \in {r} : CallRule(x)' /\ ~CallAt(x, "sessions")
  OBVIOUS
<1> QED
  BY <1>2, <1>3, <1>4, CallsOnly

LEMMA CallStepDevices ==
  ASSUME ReqInv, MobileInv, AnyStep, NEW r \in Requests,
         \/ CallSignIn(r) \/ CallRefresh(r) \/ UpdateRotated(r) \/ EndSession(r)
         \/ \E d \in Devices, s \in Sessions : CallRevokeDevice(r, d, s)
  PROVE  MobileInv'
<1>0. /\ NoCall \in CallStates /\ call \in [Requests -> CallStates] /\ call[r] \in CallStates
      /\ CallRule(r) /\ mobile \in [Sessions -> MobileRows \cup {NoMobile}]
  BY DEF NoCall, CallStates, Places, MobileInv, MobileTypeOK
<1>1. CASE CallSignIn(r) \/ CallRefresh(r)
  <2>1. PICK p \in {"sign in", "refresh"} : Turn(r, [NoCall EXCEPT !.at = p])
    BY <1>1 DEF CallSignIn, CallRefresh
  <2>2. [NoCall EXCEPT !.at = p] \in CallStates /\ [NoCall EXCEPT !.at = p].at = p
    BY <1>0 DEF NoCall, CallStates, Places
  <2>3. CallRule(r)'
    BY <1>0, <2>1, <2>2 DEF CallRule, Turn
  <2>4. ~CallAt(r, "sessions") /\ UNCHANGED <<mobileVars, mobileHistory>>
    <3>1. call[r] = NoCall /\ UNCHANGED <<mobileVars, mobileHistory>>
      BY <1>1 DEF CallSignIn, CallRefresh
    <3>2. NoCall.at = "none"
      BY DEF NoCall
    <3>3. ~CallAt(r, "sessions")
      BY <3>1, <3>2 DEF CallAt
    <3> QED
      BY <3>1, <3>3
  <2>5. Call(r)
    BY <1>1 DEF CallSignIn, CallRefresh, Call
  <2> QED
    BY <2>1, <2>2, <2>3, <2>4, <2>5, OneCall
<1>2. CASE UpdateRotated(r)
  <2>1. /\ call[r].at = "rotated" /\ req[r] = Idle /\ ~CallAt(r, "sessions")
        /\ UNCHANGED <<vars, mobileVars, mobileHistory>>
        /\ (Turn(r, NoCall) \/ Turn(r, [call[r] EXCEPT !.at = "end"]))
    BY <1>2 DEF UpdateRotated, CallAt, OnlyCalls
  <2>2. UNCHANGED <<req, sess, mobileVars, mobileHistory>>
    BY <2>1 DEF vars, sessVars
  <2>3. CASE Turn(r, NoCall)
    <3>1. CallRule(r)'
      BY <1>0, <2>3 DEF CallRule, Turn, NoCall
    <3> QED
      BY <1>0, <2>1, <2>2, <2>3, <3>1, OneCall
  <2>4. CASE Turn(r, [call[r] EXCEPT !.at = "end"])
    <3>1. /\ [call[r] EXCEPT !.at = "end"] \in CallStates /\ [call[r] EXCEPT !.at = "end"].at = "end"
          /\ [call[r] EXCEPT !.at = "end"].sess = call[r].sess
      BY <1>0 DEF CallStates, Places
    <3>2. CallRule(r)'
      BY <1>0, <2>1, <2>2, <2>4, <3>1 DEF CallRule, Turn
    <3> QED
      BY <2>1, <2>2, <2>4, <3>1, <3>2, OneCall
  <2> QED
    BY <2>1, <2>3, <2>4
<1>3. CASE EndSession(r)
  <2>1. /\ Turn(r, NoCall) /\ UNCHANGED <<req, mobileVars, mobileHistory>> /\ ~CallAt(r, "sessions")
    BY <1>3 DEF EndSession, RevokeSession, CallAt
  <2>2. CallRule(r)'
    BY <1>0, <2>1 DEF CallRule, Turn, NoCall
  <2> QED
    BY <1>0, <2>1, <2>2, OneCall
<1>4. ASSUME NEW d \in Devices, NEW s \in Sessions, CallRevokeDevice(r, d, s)
      PROVE  MobileInv'
  <2> DEFINE c == [NoCall EXCEPT !.at = "devices", !.device = d, !.left = Linked(d, s)]
  <2>1. /\ Turn(r, c) /\ req[r] = Idle /\ call[r] = NoCall /\ UNCHANGED <<vars, mobileVars, mobileHistory>>
    BY <1>4 DEF CallRevokeDevice, OnlyCalls
  <2>2. UNCHANGED <<req, mobile, missed, mobileVars, mobileHistory>>
    BY <2>1 DEF vars, mobileVars, mobileHistory
  <2>3. c \in CallStates /\ c.at = "devices" /\ c.device = d /\ c.left = Linked(d, s)
    BY <1>0 DEF NoCall, CallStates, Places, Linked
  <2> HIDE DEF c
  <2>4. call'[r] = c
    BY <1>0, <2>1 DEF Turn
  <2>5. CallRule(r)'
    BY <2>1, <2>2, <2>3, <2>4 DEF CallRule, Linked
  <2>6. ~CallAt(r, "sessions")
    BY <2>1 DEF CallAt, NoCall
  <2> QED
    BY <2>1, <2>2, <2>3, <2>5, <2>6, OneCall
<1> QED
  BY <1>1, <1>2, <1>3, <1>4

\* The steps that write the rows of the devices.  The requests that do not take
\* them know what they knew.
LEMMA GetDeviceKept ==
  ASSUME ReqInv, MobileInv, NEW r \in Requests, NEW d \in Devices, GetDevice(r, d)
  PROVE  MobileInv'
<1>0. /\ call \in [Requests -> CallStates] /\ call[r] \in CallStates /\ CallRule(r)
      /\ mobile \in [Sessions -> MobileRows \cup {NoMobile}]
      /\ device \in [Devices -> {"none", "known", "revoked"}]
      /\ \A x \in Requests : CallRule(x)
      /\ \A s \in Sessions : RowRule(s) /\ EndRule(s)
  BY DEF MobileInv, MobileTypeOK
<1>1. /\ call[r].at = "device" /\ req[r] = Idle /\ device[d] # "revoked"
      /\ device' = [device EXCEPT ![d] = "known"]
      /\ call' = [call EXCEPT ![r] = [call[r] EXCEPT !.at = "row", !.device = d]]
      /\ UNCHANGED <<req, sess, mobile, late, missed>>
  BY DEF GetDevice, CallAt, Turn, vars, sessVars, mobileHistory
<1>2. /\ call'[r] \in CallStates /\ call'[r].at = "row" /\ call'[r].device = d
      /\ call'[r].sess = call[r].sess
      /\ \A x \in Requests \ {r} : call'[x] = call[x]
  <2> DEFINE c == call[r]
  <2>1. c \in CallStates /\ call'[r] = [c EXCEPT !.at = "row", !.device = d]
    BY <1>0, <1>1
  <2> HIDE DEF c
  <2>2. /\ call'[r] \in CallStates /\ call'[r].at = "row" /\ call'[r].device = d
        /\ call'[r].sess = c.sess
    BY <2>1 DEF CallStates, Places
  <2> QED
    BY <1>0, <1>1, <2>2 DEF c
<1>3. MobileTypeOK'
  BY <1>0, <1>1, <1>2 DEF MobileTypeOK
<1>4. \A x \in Requests : CallRule(x)'
  <2>1. CallRule(r)'
    BY <1>0, <1>1, <1>2 DEF CallRule
  <2>2. ASSUME NEW x \in Requests \ {r}
        PROVE  CallRule(x)'
    BY <1>0, <1>1, <1>2 DEF CallRule
  <2> QED
    BY <2>1, <2>2
<1>5. \A e \in Devices : device'[e] = "revoked" <=> device[e] = "revoked"
  BY <1>0, <1>1
<1>6. ASSUME NEW s \in Sessions
      PROVE  RowRule(s)' /\ EndRule(s)'
  <2>1. mobile[s] # NoMobile => mobile[s].device \in Devices
    BY <1>0 DEF MobileRows
  <2>2. BeingEnded(s) => BeingEnded(s)'
    BY <1>1, <1>2 DEF BeingEnded, CallAt
  <2>3. RowRule(s)'
    BY <1>0, <1>1, <1>5, <2>1 DEF RowRule
  <2>4. EndRule(s)'
    BY <1>0, <1>1, <1>5, <2>1, <2>2 DEF EndRule, Refreshable
  <2> QED
    BY <2>3, <2>4
<1> QED
  BY <1>3, <1>4, <1>6 DEF MobileInv

LEMMA InsertMobileKept ==
  ASSUME ReqInv, MobileInv, NEW r \in Requests, InsertMobile(r)
  PROVE  MobileInv'
<1>0. /\ call \in [Requests -> CallStates] /\ CallRule(r)
      /\ mobile \in [Sessions -> MobileRows \cup {NoMobile}]
      /\ device \in [Devices -> {"none", "known", "revoked"}]
      /\ \A x \in Requests : CallRule(x)
      /\ \A s \in Sessions : RowRule(s) /\ EndRule(s)
  BY DEF MobileInv, MobileTypeOK
<1> DEFINE s == call[r].sess
           d == call[r].device
<1>1. call[r].at = "row" /\ req[r] = Idle /\ call' = [call EXCEPT ![r] = NoCall]
  BY DEF InsertMobile, CallAt, Turn
<1>2. /\ mobile' = [mobile EXCEPT ![s] = [device |-> d, revoked |-> FALSE]]
      /\ late' = IF device[d] = "revoked" THEN late \cup {s} ELSE late
      /\ missed' = IF \E q \in Requests : CallAt(q, "devices") /\ call[q].device = d
                   THEN missed \cup {s} ELSE missed
      /\ UNCHANGED <<req, sess, device>>
  BY DEF InsertMobile, vars, sessVars
<1>3. s \in Sessions /\ d \in Devices /\ sess[s].status # "none"
  BY <1>0, <1>1 DEF CallRule
<1> HIDE DEF s, d
<1>4. NoCall \in CallStates /\ NoCall.at = "none"
  BY DEF NoCall, CallStates, Places
<1>5. call'[r] = NoCall /\ \A x \in Requests \ {r} : call'[x] = call[x]
  BY <1>0, <1>1
<1>6. /\ mobile'[s] = [device |-> d, revoked |-> FALSE] /\ mobile'[s] \in MobileRows
      /\ mobile'[s].device = d /\ ~mobile'[s].revoked
      /\ \A x \in Sessions \ {s} : mobile'[x] = mobile[x]
  BY <1>0, <1>2, <1>3 DEF MobileRows
<1>7. MobileTypeOK'
  <2>1. call' \in [Requests -> CallStates]
    BY <1>0, <1>1, <1>4
  <2>2. mobile' \in [Sessions -> MobileRows \cup {NoMobile}]
    BY <1>0, <1>2, <1>6
  <2> QED
    BY <1>0, <1>2, <2>1, <2>2 DEF MobileTypeOK
<1>8. late \subseteq late' /\ missed \subseteq missed'
  BY <1>2
<1>9. ASSUME NEW x \in Requests
      PROVE  CallRule(x)'
  <2>1. CASE x = r
    BY <1>4, <1>5, <2>1 DEF CallRule
  <2>2. CASE x # r
    <3>1. call'[x] = call[x] /\ req'[x] = req[x] /\ CallRule(x)
      BY <1>0, <1>2, <1>5, <2>2
    <3>2. ASSUME call[x].at = "devices", NEW y \in Sessions, mobile'[y].device = call[x].device
          PROVE  y \in call[x].left \/ mobile'[y].revoked \/ y \in missed'
      <4>1. CASE y = s
        <5>1. CallAt(x, "devices") /\ call[x].device = d
          BY <1>6, <3>1, <3>2, <4>1 DEF CallAt, CallRule
        <5> QED
          BY <1>2, <4>1, <5>1
      <4>2. CASE y # s
        BY <1>6, <1>8, <3>1, <3>2, <4>2 DEF CallRule
      <4> QED
        BY <4>1, <4>2
    <3> QED
      BY <1>2, <3>1, <3>2 DEF CallRule
  <2> QED
    BY <2>1, <2>2
<1>10. ASSUME NEW y \in Sessions
       PROVE  RowRule(y)' /\ EndRule(y)'
  <2>1. CASE y = s
    BY <1>2, <1>3, <1>6, <2>1 DEF RowRule, EndRule
  <2>2. CASE y # s
    <3>1. BeingEnded(y) => BeingEnded(y)'
      BY <1>1, <1>2, <1>5 DEF BeingEnded, CallAt
    <3> QED
      BY <1>0, <1>2, <1>6, <1>8, <2>2, <3>1 DEF RowRule, EndRule, Refreshable
  <2> QED
    BY <2>1, <2>2
<1> QED
  BY <1>7, <1>9, <1>10 DEF MobileInv

LEMMA MarkRevokedKept ==
  ASSUME ReqInv, MobileInv, NEW r \in Requests, MarkRevoked(r)
  PROVE  MobileInv'
<1>0. /\ call \in [Requests -> CallStates] /\ call[r] \in CallStates /\ CallRule(r)
      /\ mobile \in [Sessions -> MobileRows \cup {NoMobile}]
      /\ device \in [Devices -> {"none", "known", "revoked"}]
      /\ \A x \in Requests : CallRule(x)
      /\ \A s \in Sessions : RowRule(s) /\ EndRule(s)
  BY DEF MobileInv, MobileTypeOK
<1> DEFINE d == call[r].device
           rest == call[r].left
           c == IF rest = {} THEN NoCall ELSE [call[r] EXCEPT !.at = "sessions"]
<1>1. call[r].at = "devices" /\ req[r] = Idle /\ call' = [call EXCEPT ![r] = c]
  BY DEF MarkRevoked, CallAt, Turn
<1>2. /\ device' = [device EXCEPT ![d] = "revoked"]
      /\ mobile' = [x \in Sessions |-> IF mobile[x].device = d THEN [mobile[x] EXCEPT !.revoked = TRUE]
                                       ELSE mobile[x]]
      /\ UNCHANGED <<req, sess, late, missed>>
  BY DEF MarkRevoked, vars, sessVars, mobileHistory
<1>3. d \in Devices /\ \A x \in Sessions : mobile[x].device = d => x \in rest \/ mobile[x].revoked \/ x \in missed
  BY <1>0, <1>1 DEF CallRule
<1>4. /\ c \in CallStates /\ (rest = {} => c.at = "none")
      /\ (rest # {} => c.at = "sessions" /\ c.left = rest /\ c.device = d)
  BY <1>0 DEF NoCall, CallStates, Places
<1> HIDE DEF d, rest, c
<1>5. call' \in [Requests -> CallStates] /\ call'[r] = c /\ \A x \in Requests \ {r} : call'[x] = call[x]
  BY <1>0, <1>1, <1>4
<1>6. NoMobile.device # d
  BY <1>3, MobileAssumption DEF NoMobile
<1>7. ASSUME NEW x \in Sessions
      PROVE  /\ mobile'[x] \in MobileRows \cup {NoMobile} /\ (mobile'[x] = NoMobile <=> mobile[x] = NoMobile)
             /\ mobile'[x].device = mobile[x].device
             /\ mobile[x] # NoMobile => (mobile'[x].revoked <=> mobile[x].revoked \/ mobile[x].device = d)
  <2>1. CASE mobile[x].device = d
    <3>1. mobile[x] \in MobileRows /\ mobile'[x] = [mobile[x] EXCEPT !.revoked = TRUE]
      BY <1>0, <1>2, <1>6, <2>1
    <3>2. mobile'[x] \in MobileRows /\ mobile'[x].device = d /\ mobile'[x].revoked
      BY <2>1, <3>1 DEF MobileRows
    <3> QED
      BY <1>6, <2>1, <3>2
  <2>2. CASE mobile[x].device # d
    BY <1>0, <1>2, <2>2
  <2> QED
    BY <2>1, <2>2
<1>8. MobileTypeOK'
  <2>1. mobile' \in [Sessions -> MobileRows \cup {NoMobile}]
    BY <1>2, <1>7
  <2> QED
    BY <1>0, <1>2, <1>5, <2>1 DEF MobileTypeOK
<1>9. ASSUME NEW x \in Requests
      PROVE  CallRule(x)'
  <2>1. CASE x = r
    BY <1>1, <1>2, <1>3, <1>4, <1>5, <2>1 DEF CallRule
  <2>2. CASE x # r
    <3>1. call'[x] = call[x] /\ req'[x] = req[x] /\ CallRule(x)
      BY <1>0, <1>2, <1>5, <2>2
    <3>2. ASSUME call[x].at = "devices", NEW y \in Sessions, mobile'[y].device = call[x].device
          PROVE  y \in call[x].left \/ mobile'[y].revoked \/ y \in missed'
      <4>1. mobile[y].device = call[x].device /\ call[x].device \in Devices
        BY <1>7, <3>1, <3>2 DEF CallRule
      <4>2. mobile[y] # NoMobile
        BY <4>1, MobileAssumption DEF NoMobile
      <4> QED
        BY <1>2, <1>7, <3>1, <3>2, <4>1, <4>2 DEF CallRule
    <3>3. sess' = sess
      BY <1>2
    <3> QED
      BY <3>1, <3>2, <3>3 DEF CallRule
  <2> QED
    BY <2>1, <2>2
<1>10. ASSUME NEW y \in Sessions
       PROVE  RowRule(y)' /\ EndRule(y)'
  <2>1. mobile[y] # NoMobile => mobile[y].device \in Devices
    BY <1>0 DEF MobileRows
  <2>2. \A e \in Devices : device'[e] = "revoked" <=> device[e] = "revoked" \/ e = d
    BY <1>0, <1>2
  <2>3. RowRule(y)'
    BY <1>0, <1>2, <1>7, <2>1, <2>2 DEF RowRule
  <2>4. BeingEnded(y) => BeingEnded(y)'
    BY <1>1, <1>2, <1>5 DEF BeingEnded, CallAt
  <2>5. CASE mobile[y].device = d /\ mobile[y] # NoMobile
    <3>1. CASE y \in rest
      <4>1. CallAt(r, "sessions")' /\ y \in call'[r].left
        BY <1>1, <1>2, <1>4, <1>5, <3>1 DEF CallAt
      <4>2. BeingEnded(y)'
        BY <4>1 DEF BeingEnded
      <4> QED
        BY <2>3, <4>2 DEF EndRule
    <3>2. CASE y \in missed
      BY <1>2, <2>3, <3>2 DEF EndRule
    <3>3. CASE mobile[y].revoked
      <4>1. device[d] = "revoked"
        BY <1>0, <2>5, <3>3 DEF RowRule
      <4> QED
        BY <1>0, <1>2, <2>3, <2>4, <2>5, <4>1 DEF EndRule, Refreshable
    <3> QED
      BY <1>3, <2>5, <3>1, <3>2, <3>3
  <2>6. CASE mobile[y].device # d \/ mobile[y] = NoMobile
    BY <1>0, <1>2, <1>7, <2>1, <2>2, <2>3, <2>4, <2>6 DEF EndRule, Refreshable
  <2> QED
    BY <2>5, <2>6
<1> QED
  BY <1>8, <1>9, <1>10 DEF MobileInv

LEMMA RevocationKept ==
  ASSUME ReqInv, MobileInv, AnyStep, NEW r \in Requests,
         DieOutside(r) \/ \E s \in Sessions : RevokeLinked(r, s)
  PROVE  MobileInv'
<1>0. /\ call \in [Requests -> CallStates] /\ call[r] \in CallStates /\ CallRule(r) /\ SessionsKept
      /\ MobileTypeOK
  BY SessionsStay DEF MobileInv, MobileTypeOK
<1>1. NoCall \in CallStates /\ NoCall.at = "none"
  BY DEF NoCall, CallStates, Places
\* The request ends, or goes on with the rest; what it leaves is over or missed.
<1>2. ASSUME NEW c \in CallStates, Turn(r, c), CallRule(r)', UNCHANGED <<req, device, mobile, late>>,
             missed \subseteq missed',
             \A y \in Sessions : CallAt(r, "sessions") /\ y \in call[r].left
                                 => \/ c.at = "sessions" /\ y \in c.left
                                    \/ ~Refreshable(y)' \/ y \in missed'
      PROVE  MobileInv'
  <2>1. call' \in [Requests -> CallStates] /\ call'[r] = c /\ \A x \in Requests \ {r} : call'[x] = call[x]
    BY <1>0, <1>2 DEF Turn
  <2>2. ASSUME NEW x \in Requests \ {r}
        PROVE  CallRule(x)'
    BY <1>0, <1>2, <2>1, CallKept DEF MobileInv
  <2>3. ASSUME NEW y \in Sessions
        PROVE  BeingEnded(y) => BeingEnded(y)' \/ ~Refreshable(y)' \/ y \in missed'
    <3>1. ASSUME NEW q \in Requests, CallAt(q, "sessions"), y \in call[q].left
          PROVE  BeingEnded(y)' \/ ~Refreshable(y)' \/ y \in missed'
      <4>1. CASE q = r
        BY <1>2, <2>1, <3>1, <4>1 DEF BeingEnded, CallAt
      <4>2. CASE q # r
        BY <1>2, <2>1, <3>1, <4>2 DEF BeingEnded, CallAt
      <4> QED
        BY <4>1, <4>2
    <3> QED
      BY <3>1 DEF BeingEnded
  <2>4. \A y \in Sessions : RowRule(y)' /\ EndRule(y)'
    BY <1>0, <1>2, <2>3, RowsKept
  <2>5. MobileTypeOK'
    BY <1>0, <1>2, <2>1 DEF MobileTypeOK
  <2> QED
    BY <1>2, <2>2, <2>4, <2>5 DEF MobileInv
<1>3. Turn(r, NoCall) => CallRule(r)'
  BY <1>0, <1>1 DEF Turn, CallRule
<1>4. CASE DieOutside(r)
  <2>1. Turn(r, NoCall) /\ UNCHANGED <<req, device, mobile, late>>
    BY <1>4 DEF DieOutside, mobileVars
  <2>2. missed \subseteq missed' /\ (CallAt(r, "sessions") => call[r].left \subseteq missed')
    BY <1>4 DEF DieOutside
  <2> QED
    BY <1>1, <1>2, <1>3, <2>1, <2>2
<1>5. ASSUME NEW s \in Sessions, RevokeLinked(r, s)
      PROVE  MobileInv'
  <2> DEFINE rest == call[r].left \ {s}
             c == IF rest = {} THEN NoCall ELSE [call[r] EXCEPT !.left = rest]
  <2>1. /\ call[r].at = "sessions" /\ req[r] = Idle /\ Turn(r, c) /\ RevokeSession(s)
        /\ UNCHANGED <<device, mobile, late, missed>>
    BY <1>5 DEF RevokeLinked, CallAt, mobileVars, mobileHistory
  <2>2. c \in CallStates /\ (rest # {} => c.at = "sessions" /\ c.left = rest /\ c.device = call[r].device)
    BY <1>0, <1>1, <2>1 DEF CallStates
  <2>3. req' = req /\ ~Refreshable(s)'
    BY <2>1 DEF RevokeSession, Refreshable, ReqInv, AuthTypeOK, SessionStates
  <2>4. c = NoCall \/ rest # {}
    OBVIOUS
  <2>5. \A y \in Sessions : y \in call[r].left => y \in rest \/ y = s
    OBVIOUS
  <2> HIDE DEF c, rest
  <2>6. CallRule(r)'
    <3>1. CASE rest # {}
      <4>1. call'[r] = c
        BY <1>0, <2>1 DEF Turn
      <4> QED
        BY <1>0, <2>1, <2>2, <2>3, <3>1, <4>1 DEF CallRule
    <3> QED
      BY <1>3, <2>1, <2>4, <3>1
  <2> QED
    BY <1>2, <2>1, <2>2, <2>3, <2>5, <2>6
<1> QED
  BY <1>4, <1>5

LEMMA MobileStep ==
  ASSUME ReqInv, MobileInv, MobileNext
  PROVE  MobileInv'
<1>1. AnyStep
  BY MobileSteps
<1>2. ASSUME NEW r \in Requests, Mobile(r)
      PROVE  MobileInv'
  BY <1>1, <1>2, CallStepDevices, GetDeviceKept, InsertMobileKept, MarkRevokedKept, RevocationKept
     DEF Mobile
<1> QED
  BY <1>2, AuthStepDevices DEF MobileNext

LEMMA MobileInitially ==
  ASSUME MobileInit
  PROVE  MobileInv
<1>1. NoCall \in CallStates /\ NoCall.at = "none"
  BY DEF NoCall, CallStates, Places
<1>2. MobileTypeOK
  BY <1>1 DEF MobileInit, MobileTypeOK
<1>3. \A r \in Requests : CallRule(r)
  BY <1>1 DEF MobileInit, CallRule
<1> QED
  BY <1>2, <1>3 DEF MobileInit, MobileInv, RowRule, EndRule

LEMMA MobileStutters ==
  ASSUME MobileInv, UNCHANGED <<vars, mobileVars, call, mobileHistory>>
  PROVE  MobileInv'
BY DEF MobileInv, MobileTypeOK, CallRule, RowRule, EndRule, BeingEnded, CallAt, Refreshable,
   vars, sessVars, mobileVars, mobileHistory

-----------------------------------------------------------------------------
(* The theorems. *)

\* The service alone keeps its invariant.
THEOREM AuthInvariant == Spec => []AuthInv
<1>1. Init => AuthInv
  BY AuthInitially
<1>2. AuthInv /\ [Next]_vars => AuthInv'
  BY AuthSteps DEF AnyStep
<1> QED
  BY <1>1, <1>2, PTL DEF Spec

\* Under the API, whose requests also fail outside the service, it keeps it
\* too, and the rows of the devices theirs.
THEOREM MobileInvariant == MobileSpec => [](AuthInv /\ MobileInv)
<1>1. MobileInit => AuthInv /\ MobileInv
  BY AuthInitially, MobileInitially DEF MobileInit
<1>2. ASSUME AuthInv, MobileInv, [MobileNext]_<<vars, mobileVars, call, mobileHistory>>
      PROVE  AuthInv' /\ MobileInv'
  <2>1. CASE MobileNext
    BY <1>2, <2>1, AuthSteps, MobileSteps, MobileStep DEF AuthInv
  <2>2. CASE UNCHANGED <<vars, mobileVars, call, mobileHistory>>
    BY <1>2, <2>2, AuthSteps, MobileStutters DEF AnyStep
  <2> QED
    BY <1>2, <2>1, <2>2
<1> QED
  BY <1>1, <1>2, PTL DEF MobileSpec

\* Every variable of the service has its type: rows, requests and answers.
THEOREM SessionsTypeCorrect == (Spec => []AuthTypeOK) /\ (MobileSpec => []AuthTypeOK)
<1>1. AuthInv => AuthTypeOK
  BY DEF AuthInv, ReqInv
<1> QED
  BY <1>1, AuthInvariant, MobileInvariant, PTL

\* The lockout (assertNotLocked, recordLoginAttempt): whatever the interleaving
\* of the sign-ins, the failures of a window exceed the limit by at most the
\* attempts that were being made at the same time.
THEOREM LockoutIsBounded == (Spec => []LockoutBounded) /\ (MobileSpec => []LockoutBounded)
<1>1. AuthInv => LockoutBounded
  BY LockoutHolds DEF AuthInv
<1> QED
  BY <1>1, AuthInvariant, MobileInvariant, PTL

\* resetPassword: no session of the old password outlives the reset, but for a
\* sign-in that overtakes it and a reset that dies between its two statements.
THEOREM ResetEndsSessions ==
  (Spec => []PasswordOfLiveSession) /\ (MobileSpec => []PasswordOfLiveSession)
<1>1. AuthInv => PasswordOfLiveSession
  BY DEF AuthInv
<1> QED
  BY <1>1, AuthInvariant, MobileInvariant, PTL

\* verifyMfaCode, enableTotpFactor and the passkeys: a session whose
\* mfa_verified_at is set has shown a second factor.
THEOREM MfaIsProved == (Spec => []MfaMeansProof) /\ (MobileSpec => []MfaMeansProof)
<1>1. AuthInv => MfaMeansProof
  BY DEF AuthInv
<1> QED
  BY <1>1, AuthInvariant, MobileInvariant, PTL

\* rotateRefreshToken: one successor for each refresh token, and the winner's
\* result for those who share its coordinator.
THEOREM RotationsAgree == (Spec => []RotationCoordinated) /\ (MobileSpec => []RotationCoordinated)
<1>1. AuthInv => RotationCoordinated
  BY TokenCoordinated DEF AuthInv
<1> QED
  BY <1>1, AuthInvariant, MobileInvariant, PTL

\* revokeMobileDevice: a revoked device has no session that authenticates, and
\* when the revocation has returned none that refreshes, but for the sessions
\* that are made or missed meanwhile.
THEOREM RevocationHolds == MobileSpec => []DeviceRevocation
<1>1. MobileInv => DeviceRevocation
  BY DevicesRevoked
<1> QED
  BY <1>1, MobileInvariant, PTL

=============================================================================
