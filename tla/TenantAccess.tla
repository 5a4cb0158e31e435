----------------------------- MODULE TenantAccess -----------------------------
(***************************************************************************)
(* What is changed in an organization, and on whose behalf: server actions *)
(* of members and of operators who act for a member                        *)
(* (apps/web/src/lib/tenant.ts, packages/tenant/src/index.ts) and requests *)
(* with a key (packages/api/src/service.ts).                               *)
(*                                                                         *)
(* One action is one autocommitted statement, with the checks up to the    *)
(* next one.  Meanwhile the members change as in TenantMembership.         *)
(***************************************************************************)
EXTENDS TenantMembership

CONSTANTS
  Operators,       \* users with a global operator role; no operation changes it
  ApiKeys, Impersonations, Endpoints,
  Nothing,
  KeyScopes,       \* the scopes that tenant keys are created with
  TokenScopes,     \* the scopes that personal access tokens are created with
  MaxChanges       \* bound: changes made

ASSUME AccessAssumption ==
  /\ Operators \subseteq Users /\ Nothing \notin ApiKeys \cup Impersonations
  /\ MaxChanges \in Nat

VARIABLES
  apiKey,    \* api_keys
  imp,       \* impersonation_sessions
  endpoint,  \* api_webhook_endpoints: who made each
  tested,    \* api_webhook_deliveries: endpoints with a queued row; nothing sends it
  setting,   \* updated_by of the organization, its flags, limits and quota
  access,    \* what each request does
  trail,     \* tenant_audit_events, api_audit_events and api_usage_records
  held,      \* history: what each request could rely on since it began
  changes,   \* history: what was changed or read
  unjustified, \* history: the changes whose request held too little
  dropped    \* history: changes whose request died before its last statement

accessRows == <<apiKey, imp, endpoint, tested, setting>>
accessVars == <<accessRows, access, trail, held, changes, unjustified, dropped>>

Settings == {"organization", "flag", "limit", "quota"}
NoApiKey == [status |-> "none", tenant |-> TRUE, by |-> NoUser, scopes |-> {}]
NoImpersonation == [status |-> "none", actor |-> NoUser, subject |-> NoUser]
NoAccess == [at |-> "none", op |-> "none", caller |-> NoUser, user |-> NoUser,
             imp |-> Nothing, key |-> Nothing, subject |-> NoUser]

AccessInit ==
  /\ apiKey = [k \in ApiKeys |-> NoApiKey] /\ imp = [i \in Impersonations |-> NoImpersonation]
  /\ endpoint = [e \in Endpoints |-> NoUser] /\ tested = {}
  /\ setting = [x \in Settings |-> NoUser]
  /\ access = [r \in Requests |-> NoAccess] /\ trail = {}
  /\ held = [r \in Requests |-> {}]
  /\ changes = {} /\ unjustified = {} /\ dropped = {}

-----------------------------------------------------------------------------
AccessAt(r, s) == access[r].at = s
Asks(r, op) == access[r].op = op
Free(r) == access[r] = NoAccess /\ at[r] = "idle"
Enter(r, x) == access' = [access EXCEPT ![r] = x]
Move(r, s) == access' = [access EXCEPT ![r].at = s]
Leave(r) == access' = [access EXCEPT ![r] = NoAccess]
OnlyAccess == UNCHANGED <<accessRows, trail, changes, unjustified, dropped>>

Member(u) == u \in active /\ u \notin deleted

\* scopeImplies.
Implied(s) ==
  CASE s = "api:write" -> {"api:read"}
    [] s = "api_keys:read" -> {"webhooks:read"}
    [] s = "api_keys:write" -> {"api_keys:read", "webhooks:read", "webhooks:write"}
    [] s = "audit:read" -> {"events:read"}
    [] s = "tenant:read" -> {"api:read"}
    [] s = "tenant:write" -> {"tenant:read", "api:write", "events:write"}
    [] OTHER -> {}
\* The scope that ends with ':*' and stands for all of a resource.  Neither it nor
\* '*' is in a catalogue, so no key that the code creates has one.
Wildcard(required) ==
  CASE required \in {"webhooks:write", "webhooks:read"} -> "webhooks:*"
    [] required = "members:read" -> "members:*" [] required = "events:read" -> "events:*"
    [] required = "tenant:read" -> "tenant:*"
\* assertScopes.
Sufficient(scopes, required) ==
  \E s \in scopes : s \in {"*", required, Wildcard(required)} \/ required \in Implied(s)

\* The scopes that the operations of the API ask for, and permissionForScopes.
ScopeFor(op) ==
  CASE op \in {"create endpoint", "test endpoint"} -> "webhooks:write"
    [] op = "list endpoints" -> "webhooks:read" [] op = "list members" -> "members:read"
    [] op = "list events" -> "events:read" [] op = "get organization" -> "tenant:read"
ScopePermission(scope) ==
  CASE scope \in {"webhooks:write", "webhooks:read"} -> "api_keys.manage"
    [] scope = "members:read" -> "members.read" [] scope = "events:read" -> "audit.read"
    [] scope = "tenant:read" -> "organization.read"
ApiOps == {"create endpoint", "test endpoint", "list endpoints", "list members", "list events",
           "get organization"}
\* The permission that an operation asks for.
Needed(op) ==
  CASE op = "organization" -> "organization.update" [] op = "flag" -> "feature_flags.manage"
    [] op \in {"limit", "quota"} -> "limits.manage"
    [] op \in {"create key", "revoke key"} -> "api_keys.manage"
    [] op = "impersonate" -> "impersonation.start"
    [] op \in ApiOps -> ScopePermission(ScopeFor(op))

\* What a request could rely on now: the rights of those it may act for, the
\* membership of its subject, its key and its impersonation.
Principals(r) ==
  LET a == access[r] IN
  {a.caller, a.user} \cup IF a.imp = Nothing THEN {} ELSE {imp[a.imp].subject}
Holds(r) ==
  LET a == access[r] IN
  {<<"right", u>> : u \in {x \in Principals(r) \cap Users : Allowed(x, Needed(a.op))}}
  \cup {<<"member", u>> : u \in {x \in {a.subject} \cap Users : Member(x)}}
  \cup {<<"key", k>> : k \in {x \in {a.key} \cap ApiKeys : apiKey[x].status = "live"}}
  \cup {<<"imp", i>> : i \in {x \in {a.imp} \cap Impersonations : imp[x].status = "active"}}

\* Whether a request is justified by what it held at some time since it began.
Justified(r) ==
  LET a == access[r]
      has(x, y) == <<x, y>> \in held[r]
  IN
  CASE a.op \in ApiOps ->
         /\ has("key", a.key) /\ Sufficient(apiKey[a.key].scopes, ScopeFor(a.op))
         /\ apiKey[a.key].tenant \/ has("right", a.user)
    [] a.op = "impersonate" ->
         has("member", a.subject) /\ (a.caller \in Operators \/ has("right", a.caller))
    [] a.op = "end" -> imp[a.imp].actor = a.caller
    [] OTHER ->
         /\ has("right", a.user)
         /\ a.user = a.caller \/ (has("imp", a.imp) /\ imp[a.imp].actor = a.caller
                                  /\ imp[a.imp].subject = a.user)

\* A change is made by request x, which goes on to write its trail.  The trail of
\* a server action names whom it acts for; only those of an impersonation itself
\* name that, and those of a key its maker.
Done(x) == [x EXCEPT !.at = "none"]
Change(r) == Done(access[r])
OfImpersonation(c) == c.op \in {"impersonate", "end"}
Row(c) == [op |-> c.op, actor |-> IF OfImpersonation(c) THEN c.caller ELSE c.user,
           imp |-> IF OfImpersonation(c) THEN c.imp ELSE Nothing, key |-> c.key]
Changed(r, x, next) ==
  /\ Cardinality(changes) < MaxChanges /\ changes' = changes \cup {Done(x)}
  /\ unjustified' = IF Justified(r) THEN unjustified ELSE unjustified \cup {Done(x)}
  /\ access' = [access EXCEPT ![r] = [x EXCEPT !.at = next]] /\ UNCHANGED <<trail, dropped>>

-----------------------------------------------------------------------------
(* A server action of a signed-in user, whose browser may have the cookie of *)
(* an impersonation: getActiveTenantContext, then the service *)

CallAction(r, u, i, op, k) ==
  /\ u \notin deleted /\ op \in Settings \cup {"create key", "revoke key"}
  /\ (k # Nothing <=> op = "revoke key")
  /\ Enter(r, [NoAccess EXCEPT !.at = IF i = Nothing THEN "context" ELSE "session",
                 !.op = op, !.caller = u, !.user = u, !.imp = i, !.key = k])
  /\ OnlyAccess

\* Mutant of Impersonating: expires_at is not compared.
ImpersonatingUnended(i, u) == imp[i].status \in {"active", "expired"} /\ imp[i].actor = u

\* getImpersonationSession and readActiveImpersonation.
Impersonating(i, u) == imp[i].status = "active" /\ imp[i].actor = u

\* Without an impersonation the caller acts for himself, in the organization that
\* his browser remembers.
ReadImpersonation(r) ==
  LET a == access[r] IN
  /\ AccessAt(r, "session")
  /\ access' = [access EXCEPT ![r].at = "context",
                  ![r].user = IF Impersonating(a.imp, a.caller) THEN imp[a.imp].subject
                              ELSE a.caller]
  /\ OnlyAccess
\* requireMembership, for the context and again in the service.  A user who is in
\* another organization, or lacks the second factor, is led elsewhere.
EnterContext(r) ==
  /\ AccessAt(r, "context")
  /\ IF Allowed(access[r].user, Needed(access[r].op)) THEN Move(r, "check") ELSE Leave(r)
  /\ OnlyAccess
CheckMember(r) ==
  /\ AccessAt(r, "check")
  /\ IF Allowed(access[r].user, Needed(access[r].op)) THEN Move(r, "write") ELSE Leave(r)
  /\ OnlyAccess

Stored(r, x) ==
  /\ AccessAt(r, "write") /\ Asks(r, x) /\ setting' = [setting EXCEPT ![x] = access[r].user]
  /\ Changed(r, access[r], "audit") /\ UNCHANGED <<apiKey, imp, endpoint, tested>>
UpdateOrganization(r) == Stored(r, "organization")
UpdateFeatureFlag(r) == Stored(r, "flag")
UpdateUsageLimit(r) == Stored(r, "limit")
UpdateQuota(r) == Stored(r, "quota")

InsertKey(r, k, scopes) ==
  /\ AccessAt(r, "write") /\ Asks(r, "create key") /\ apiKey[k] = NoApiKey
  /\ apiKey' = [apiKey EXCEPT ![k] = [status |-> "live", tenant |-> TRUE, scopes |-> scopes,
                                      by |-> access[r].user]]
  /\ Changed(r, [access[r] EXCEPT !.key = k], "audit") /\ UNCHANGED <<imp, endpoint, tested, setting>>
\* Mutant of RevokeKey: the rows of the UPDATE are not looked at.
RevokeKeyUnseen(r) ==
  LET k == access[r].key IN
  /\ AccessAt(r, "write") /\ Asks(r, "revoke key")
  /\ IF apiKey[k].tenant /\ apiKey[k].status \in {"live", "expired"}
     THEN apiKey' = [apiKey EXCEPT ![k].status = "revoked"] /\ Changed(r, access[r], "audit")
     ELSE UNCHANGED <<apiKey, trail, changes, unjustified, dropped>> /\ Move(r, "audit")
  /\ UNCHANGED <<imp, endpoint, tested, setting>>

\* The guarded UPDATE; an expired key can be revoked.
RevokeKey(r) ==
  LET k == access[r].key IN
  /\ AccessAt(r, "write") /\ Asks(r, "revoke key")
  /\ IF apiKey[k].tenant /\ apiKey[k].status \in {"live", "expired"}
     THEN apiKey' = [apiKey EXCEPT ![k].status = "revoked"] /\ Changed(r, access[r], "audit")
     ELSE UNCHANGED <<apiKey, trail, changes, unjustified, dropped>> /\ Leave(r)
  /\ UNCHANGED <<imp, endpoint, tested, setting>>

\* The audit event of the service.
AuditChange(r) ==
  /\ AccessAt(r, "audit") /\ trail' = trail \cup {Row(access[r])} /\ Leave(r)
  /\ UNCHANGED <<accessRows, changes, unjustified, dropped>>

-----------------------------------------------------------------------------
(* startImpersonation, endImpersonation *)

CallImpersonate(r, u, v) ==
  /\ u \notin deleted
  /\ Enter(r, [NoAccess EXCEPT !.at = "actor", !.op = "impersonate", !.caller = u, !.user = u,
                               !.subject = v])
  /\ OnlyAccess
\* An operator whose account is there, or a member with the permission.
CheckActor(r) ==
  LET u == access[r].caller IN
  /\ AccessAt(r, "actor")
  /\ IF /\ IF u \in Operators THEN u \notin deleted ELSE Allowed(u, "impersonation.start")
        /\ u # access[r].subject
     THEN Move(r, "subject") ELSE Leave(r)
  /\ OnlyAccess
CheckSubject(r) ==
  /\ AccessAt(r, "subject") /\ IF Member(access[r].subject) THEN Move(r, "write") ELSE Leave(r)
  /\ OnlyAccess
StartImpersonation(r, i) ==
  /\ AccessAt(r, "write") /\ Asks(r, "impersonate") /\ imp[i] = NoImpersonation
  /\ imp' = [imp EXCEPT ![i] = [status |-> "active", actor |-> access[r].caller,
                                subject |-> access[r].subject]]
  /\ Changed(r, [access[r] EXCEPT !.imp = i], "audit") /\ UNCHANGED <<apiKey, endpoint, tested, setting>>
\* One guarded UPDATE, then the audit event; the form names the session.
CallEnd(r, u, i) ==
  /\ u \notin deleted
  /\ Enter(r, [NoAccess EXCEPT !.at = "write", !.op = "end", !.caller = u, !.user = u, !.imp = i])
  /\ OnlyAccess
EndImpersonation(r) ==
  LET i == access[r].imp IN
  /\ AccessAt(r, "write") /\ Asks(r, "end")
  /\ IF imp[i].status \in {"active", "expired"} /\ imp[i].actor = access[r].caller
     THEN imp' = [imp EXCEPT ![i].status = "ended"] /\ Changed(r, access[r], "audit")
     ELSE UNCHANGED <<imp, trail, changes, unjustified, dropped>> /\ Leave(r)
  /\ UNCHANGED <<apiKey, endpoint, tested, setting>>

-----------------------------------------------------------------------------
(* Requests with a key *)

\* createPersonalAccessToken: one INSERT.
CreateToken(u, k, scopes) ==
  /\ u \notin deleted /\ apiKey[k] = NoApiKey
  /\ apiKey' = [apiKey EXCEPT ![k] = [status |-> "live", tenant |-> FALSE, scopes |-> scopes,
                                      by |-> u]]
  /\ UNCHANGED <<imp, endpoint, tested, setting, access, trail, changes, unjustified, dropped>>

CallApi(r, k, op) ==
  /\ op \in ApiOps /\ apiKey[k] # NoApiKey
  /\ Enter(r, [NoAccess EXCEPT !.at = "key", !.op = op, !.key = k, !.user = apiKey[k].by])
  /\ OnlyAccess

\* Mutant of KeyUsable: revoked_at is not compared.
KeyUsableUnexpired(k) == apiKey[k].status \in {"live", "revoked"}

\* The WHERE clause of authenticateApiKey.
KeyUsable(k) == apiKey[k].status = "live"

\* An error is recorded like an answer.
Refuse(r) == access' = [access EXCEPT ![r].at = "record", ![r].op = "refused"]
\* last_used_at is written next and read by nobody who decides.
AuthenticateKey(r) ==
  LET k == access[r].key IN
  /\ AccessAt(r, "key")
  /\ IF KeyUsable(k) THEN Move(r, IF apiKey[k].tenant THEN "authorise" ELSE "owner")
     ELSE Refuse(r)
  /\ OnlyAccess
\* The owner's account is there.  (disabled_at is NULL: it is read here and at
\* sign-in, and no statement of the repository writes it.)
OwnerActive(r) ==
  /\ AccessAt(r, "owner") /\ IF access[r].user \in deleted THEN Refuse(r) ELSE Move(r, "authorise")
  /\ OnlyAccess
\* A tenant key is for its tenant whoever is still in it; a token is for its owner.
AuthoriseTenant(r) ==
  LET a == access[r] IN
  /\ AccessAt(r, "authorise")
  /\ IF /\ Sufficient(apiKey[a.key].scopes, ScopeFor(a.op))
        /\ apiKey[a.key].tenant \/ Allowed(a.user, Needed(a.op))
     THEN Move(r, "serve") ELSE Refuse(r)
  /\ OnlyAccess

CreateEndpoint(r, e) ==
  /\ AccessAt(r, "serve") /\ Asks(r, "create endpoint") /\ endpoint[e] = NoUser
  /\ endpoint' = [endpoint EXCEPT ![e] = access[r].user]
  /\ Changed(r, access[r], "record") /\ UNCHANGED <<apiKey, imp, tested, setting>>
\* Endpoints stay once they are made: the SELECT before the INSERT finds it.
TestEndpoint(r, e) ==
  /\ AccessAt(r, "serve") /\ Asks(r, "test endpoint") /\ endpoint[e] # NoUser
  /\ tested' = tested \cup {e}
  /\ Changed(r, access[r], "record") /\ UNCHANGED <<apiKey, imp, endpoint, setting>>
EndpointMissing(r) ==
  /\ AccessAt(r, "serve") /\ Asks(r, "test endpoint") /\ Refuse(r) /\ OnlyAccess
\* A read counts like a change: it needs the same rights.
Listed(r, op) ==
  /\ AccessAt(r, "serve") /\ Asks(r, op) /\ Changed(r, access[r], "record") /\ UNCHANGED accessRows
ListWebhookEndpoints(r) == Listed(r, "list endpoints")
ListOrganizationMembers(r) == Listed(r, "list members")
ListEvents(r) == Listed(r, "list events")
GetOrganization(r) == Listed(r, "get organization")

\* recordApiRequest writes two rows.
RecordRequest(r) == AccessAt(r, "record") /\ Move(r, "meter") /\ OnlyAccess
MeterRequest(r) ==
  /\ AccessAt(r, "meter") /\ Leave(r)
  /\ trail' = IF Asks(r, "refused") THEN trail ELSE trail \cup {Row(access[r])}
  /\ UNCHANGED <<accessRows, changes, unjustified, dropped>>

-----------------------------------------------------------------------------
\* Time, and a process that dies or a statement that raises.
ExpireKey(k) ==
  /\ apiKey[k].status = "live" /\ apiKey' = [apiKey EXCEPT ![k].status = "expired"]
  /\ UNCHANGED <<imp, endpoint, tested, setting, access, trail, changes, unjustified, dropped>>
ExpireImpersonation(i) ==
  /\ imp[i].status = "active" /\ imp' = [imp EXCEPT ![i].status = "expired"]
  /\ UNCHANGED <<apiKey, endpoint, tested, setting, access, trail, changes, unjustified, dropped>>
Ending(r) == access[r].at \in {"audit", "record", "meter"} /\ ~Asks(r, "refused")
DieInAccess(r) ==
  /\ access[r] # NoAccess /\ Leave(r)
  /\ dropped' = IF Ending(r) THEN dropped \cup {Change(r)} ELSE dropped
  /\ UNCHANGED <<accessRows, trail, changes, unjustified>>

Call(r) ==
  /\ Free(r)
  /\ \/ \E u \in Users, i \in Impersonations \cup {Nothing}, k \in ApiKeys \cup {Nothing},
           op \in Settings \cup {"create key", "revoke key"} : CallAction(r, u, i, op, k)
     \/ \E u, v \in Users : CallImpersonate(r, u, v)
     \/ \E u \in Users, i \in Impersonations : CallEnd(r, u, i)
     \/ \E k \in ApiKeys, op \in ApiOps : CallApi(r, k, op)
Act(r) ==
  \/ ReadImpersonation(r) \/ EnterContext(r) \/ CheckMember(r)
  \/ UpdateOrganization(r) \/ UpdateFeatureFlag(r) \/ UpdateUsageLimit(r) \/ UpdateQuota(r)
  \/ \E k \in ApiKeys, scopes \in KeyScopes : InsertKey(r, k, scopes)
  \/ RevokeKey(r) \/ AuditChange(r)
  \/ CheckActor(r) \/ CheckSubject(r)
  \/ \E i \in Impersonations : StartImpersonation(r, i)
  \/ EndImpersonation(r)
Serve(r) ==
  \/ AuthenticateKey(r) \/ OwnerActive(r) \/ AuthoriseTenant(r)
  \/ \E e \in Endpoints : CreateEndpoint(r, e) \/ TestEndpoint(r, e)
  \/ EndpointMissing(r) \/ ListWebhookEndpoints(r) \/ ListOrganizationMembers(r)
  \/ ListEvents(r) \/ GetOrganization(r) \/ RecordRequest(r) \/ MeterRequest(r)
AccessStep ==
  \/ \E r \in Requests : Call(r) \/ Act(r) \/ Serve(r) \/ DieInAccess(r)
  \/ \E u \in Users, k \in ApiKeys, scopes \in TokenScopes : CreateToken(u, k, scopes)
  \/ \E k \in ApiKeys : ExpireKey(k)
  \/ \E i \in Impersonations : ExpireImpersonation(i)

Watched(r) == ~AccessAt(r, "none") /\ ~Ending(r) /\ access[r].op \notin {"refused", "end"}
Watch ==
  held' = [r \in Requests |->
             IF Watched(r)' THEN held[r] \cup Holds(r)' ELSE IF Ending(r)' THEN held[r] ELSE {}]

\* A step of a request, or one of the members' operations, given by M.
AccessOrMembers(M) ==
  /\ \/ AccessStep /\ UNCHANGED vars
     \/ M /\ UNCHANGED <<accessRows, access, trail, changes, unjustified, dropped>>
  /\ \A r \in Requests : at'[r] = "idle" \/ access'[r] = NoAccess
  /\ Watch
AccessNext == AccessOrMembers(Next)

AccessSpec == AccessInit /\ Init /\ [][AccessNext]_<<vars, accessVars>>

-----------------------------------------------------------------------------
\* Whatever members leave, keys are revoked and impersonations end while a request
\* is between its statements, what it changes or reads is justified: a right that
\* was withdrawn before the request began never serves it.  A tenant key stands for
\* itself, not for the member who made it.
AccessJustified == unjustified = {}

\* What is audited was done, and a change is audited unless its request is about
\* to write that or has ended between the two statements.
TrailTellsChanges ==
  /\ \A x \in trail : \E c \in changes : x = Row(c)
  /\ \A c \in changes :
       Row(c) \in trail \/ c \in dropped \/ \E r \in Requests : Ending(r) /\ Change(r) = c

=============================================================================
