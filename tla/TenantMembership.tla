-------------------------- MODULE TenantMembership --------------------------
(***************************************************************************)
(* The members and invitations of one organization                         *)
(* (packages/tenant/src/index.ts).                                         *)
(*                                                                         *)
(* A request runs one operation of the service.  Its statements are        *)
(* autocommitted, so each is an action and requests interleave between     *)
(* them; a request that throws is idle again.  The organization exists:    *)
(* createOrganization has committed it with its founder as owner.          *)
(***************************************************************************)
EXTENDS Naturals, FiniteSets

CONSTANTS
  Requests, Users, Invitations,
  NoUser,
  Founder,    \* created_by of the organization
  Personal,   \* whether it is the founder's personal organization
  EmailOf,    \* the e-mail address of a user's session
  Roles,      \* the roles callers ask for
  Grants      \* the custom_permissions callers ask for

AllRoles == {"owner", "admin", "member"}
ReadPermissions == {"organization.read", "members.read"}
Permissions == ReadPermissions \cup
  {"members.invite", "members.update", "members.remove", "invitations.reject",
   "organization.update", "feature_flags.manage", "limits.manage", "api_keys.manage",
   "impersonation.start", "audit.read"}
Emails == {EmailOf[u] : u \in Users}

ASSUME TenantAssumption ==
  /\ Founder \in Users /\ NoUser \notin Users /\ Invitations # {}
  /\ Personal \in BOOLEAN
  /\ Roles \subseteq AllRoles /\ Grants \subseteq SUBSET Permissions

VARIABLES
  role, custom, active,        \* organization_memberships; active: not removed
  issued, terms, acceptedBy, rejected, expired,  \* organization_invitations
  deleted,                     \* auth_users with deleted_at
  at, args,                    \* where a request is, and its input
  granted,     \* history: how many members an invitation made
  downgraded,  \* history: an owner accepted an invitation to a lower role
  raced        \* history: an owner left between a request's count and its UPDATE

memberVars == <<role, custom, active>>
inviteVars == <<issued, terms, acceptedBy, rejected, expired>>
history == <<granted, downgraded, raced>>
vars == <<memberVars, inviteVars, deleted, at, args, history>>

Terms == [role : AllRoles, custom : SUBSET Permissions, email : Emails]
\* What a request was called with; only the fields of its operation matter.
Input == [op : {"remove", "update", "invite", "cancel", "accept", "restore"},
          actor : Users, subject : Users, role : AllRoles, custom : SUBSET Permissions,
          inv : Invitations]
Default == [op |-> "remove", actor |-> Founder, subject |-> Founder, role |-> "member",
            custom |-> {}, inv |-> CHOOSE i \in Invitations : TRUE]
DefaultTerms == [role |-> "member", custom |-> {}, email |-> EmailOf[Founder]]

TypeOK ==
  /\ role \in [Users -> AllRoles] /\ custom \in [Users -> SUBSET Permissions]
  /\ active \subseteq Users /\ deleted \subseteq Users
  /\ terms \in [Invitations -> Terms]
  /\ acceptedBy \in [Invitations -> Users \cup {NoUser}]
  /\ issued \subseteq Invitations /\ rejected \subseteq issued /\ expired \subseteq issued
  /\ at \in [Requests -> {"idle", "count", "write", "grant"}]
  /\ args \in [Requests -> Input]
  /\ granted \in [Invitations -> Nat]
  /\ downgraded \in BOOLEAN /\ raced \in BOOLEAN

Init ==
  /\ role = [u \in Users |-> IF u = Founder THEN "owner" ELSE "member"]
  /\ custom = [u \in Users |-> {}] /\ active = {Founder}
  /\ issued = {} /\ terms = [i \in Invitations |-> DefaultTerms]
  /\ acceptedBy = [i \in Invitations |-> NoUser] /\ rejected = {} /\ expired = {}
  /\ deleted = {}
  /\ at = [r \in Requests |-> "idle"] /\ args = [r \in Requests |-> Default]
  /\ granted = [i \in Invitations |-> 0] /\ downgraded = FALSE /\ raced = FALSE

-----------------------------------------------------------------------------
\* tenantRolePermissions and hasTenantPermission, for the permissions used here.
RolePermissions(r) == IF r \in {"owner", "admin"} THEN Permissions ELSE ReadPermissions
PermissionsOf(u) == RolePermissions(role[u]) \cup custom[u]

\* requireMembership: an active row of a live account, and the permission.
Allowed(u, p) == u \in active /\ u \notin deleted /\ p \in PermissionsOf(u)

PermissionFor(op) ==
  CASE op = "remove" -> "members.remove" [] op = "update" -> "members.update"
    [] op = "invite" -> "members.invite" [] op = "cancel" -> "invitations.reject"

\* Mutant of CountsOwners: a demotion is not checked.
CountsOwnersOnRemoval(a) == a.op = "remove"

\* Whether an operation calls assertOwnerWillRemain.
CountsOwners(a) == a.op = "remove" \/ (a.op = "update" /\ a.role # "owner")

Owners == {u \in active : role[u] = "owner"}

Idle(r) == at' = [at EXCEPT ![r] = "idle"] /\ args' = [args EXCEPT ![r] = Default]
Read == <<memberVars, inviteVars, deleted, history>>

\* The first statement of removeMember, updateMember, createInvitation and
\* cancelInvitation: requireMembership, called with a signed-in actor.
Authorise(r, a) ==
  /\ at[r] = "idle" /\ a.op \in {"remove", "update", "invite", "cancel"}
  /\ Allowed(a.actor, PermissionFor(a.op))
  /\ at' = [at EXCEPT ![r] = IF CountsOwners(a) THEN "count" ELSE "write"]
  /\ args' = [args EXCEPT ![r] = a]
  /\ UNCHANGED Read

\* assertOwnerWillRemain: owners whose account is deleted count as well.
CountOwners(r) ==
  /\ at[r] = "count"
  /\ IF Owners \ {args[r].subject} # {}
     THEN at' = [at EXCEPT ![r] = "write"] /\ UNCHANGED args
     ELSE Idle(r)
  /\ UNCHANGED Read

-----------------------------------------------------------------------------
\* An owner leaves while another request relies on the owners it counted.
RelyingOnCount(r) == \E q \in Requests \ {r} : at[q] = "write" /\ CountsOwners(args[q])
NoteOwnerLeft(r, u) ==
  raced' = (raced \/ (u \in Owners /\ RelyingOnCount(r)))

\* The guarded UPDATE of removeMember.
Remove(r) ==
  LET u == args[r].subject IN
  /\ at[r] = "write" /\ args[r].op = "remove"
  /\ IF u \in active
     THEN active' = active \ {u} /\ NoteOwnerLeft(r, u)
     ELSE UNCHANGED <<active, raced>>
  /\ Idle(r)
  /\ UNCHANGED <<role, custom, inviteVars, deleted, granted, downgraded>>

\* The guarded UPDATE of updateMember.
Update(r) ==
  LET u == args[r].subject IN
  /\ at[r] = "write" /\ args[r].op = "update"
  /\ IF u \in active
     THEN /\ role' = [role EXCEPT ![u] = args[r].role]
          /\ custom' = [custom EXCEPT ![u] = args[r].custom]
          /\ IF args[r].role # "owner" THEN NoteOwnerLeft(r, u) ELSE UNCHANGED raced
     ELSE UNCHANGED <<role, custom, raced>>
  /\ Idle(r)
  /\ UNCHANGED <<active, inviteVars, deleted, granted, downgraded>>

\* The INSERT of createInvitation.  Its outbox row is an event of Messaging.
Invite(r, i, email) ==
  /\ at[r] = "write" /\ args[r].op = "invite" /\ i \notin issued
  /\ issued' = issued \cup {i}
  /\ terms' = [terms EXCEPT ![i] = [role |-> args[r].role, custom |-> args[r].custom,
                                    email |-> email]]
  /\ Idle(r)
  /\ UNCHANGED <<memberVars, acceptedBy, rejected, expired, deleted, history>>

\* Mutant of Pending: a rejected invitation may still be taken.
PendingUnlessAccepted(i) == i \in issued /\ acceptedBy[i] = NoUser

\* accepted_at IS NULL AND rejected_at IS NULL.
Pending(i) == i \in issued /\ acceptedBy[i] = NoUser /\ i \notin rejected

\* The guarded UPDATE of cancelInvitation: an expired invitation may be cancelled.
Cancel(r) ==
  /\ at[r] = "write" /\ args[r].op = "cancel"
  /\ rejected' = IF Pending(args[r].inv) THEN rejected \cup {args[r].inv} ELSE rejected
  /\ Idle(r)
  /\ UNCHANGED <<memberVars, issued, terms, acceptedBy, expired, deleted, history>>

-----------------------------------------------------------------------------
\* Mutant of ForMe: the address of the invitation is not compared.
ForAnyone(i, u) == Pending(i) /\ i \notin expired

\* The WHERE clause shared by acceptInvitation and rejectInvitation.
ForMe(i, u) == Pending(i) /\ i \notin expired /\ terms[i].email = EmailOf[u]

\* acceptInvitation, first statement: the invitation is claimed for user u.
ClaimInvitation(r, u, i) ==
  /\ at[r] = "idle" /\ u \notin deleted /\ ForMe(i, u)
  /\ acceptedBy' = [acceptedBy EXCEPT ![i] = u]
  /\ at' = [at EXCEPT ![r] = "grant"]
  /\ args' = [args EXCEPT ![r] = [Default EXCEPT !.op = "accept", !.actor = u,
                                                 !.subject = u, !.inv = i]]
  /\ UNCHANGED <<memberVars, issued, terms, rejected, expired, deleted, history>>

\* Second statement: the membership is upserted with the invited role, whatever
\* role the user has.
GrantMembership(r) ==
  LET u == args[r].subject
      i == args[r].inv
      loses == u \in Owners /\ terms[i].role # "owner" IN
  /\ at[r] = "grant" /\ args[r].op = "accept"
  /\ role' = [role EXCEPT ![u] = terms[i].role]
  /\ custom' = [custom EXCEPT ![u] = terms[i].custom]
  /\ active' = active \cup {u}
  /\ granted' = [granted EXCEPT ![i] = @ + 1]
  /\ downgraded' = (downgraded \/ loses)
  /\ Idle(r)
  /\ UNCHANGED <<inviteVars, deleted, raced>>

\* rejectInvitation: one guarded UPDATE.
Reject(u, i) ==
  /\ u \notin deleted /\ ForMe(i, u)
  /\ rejected' = rejected \cup {i}
  /\ UNCHANGED <<memberVars, issued, terms, acceptedBy, expired, deleted, at, args, history>>

\* ensurePersonalOrganization on a visit of the founder: it found no membership.
FindNoOrganization(r) ==
  /\ at[r] = "idle" /\ Personal
  /\ Founder \notin active \cup deleted
  /\ at' = [at EXCEPT ![r] = "grant"]
  /\ args' = [args EXCEPT ![r] = [Default EXCEPT !.op = "restore"]]
  /\ UNCHANGED Read

\* The upsert that makes the founder its owner again.
RestoreOwner(r) ==
  /\ at[r] = "grant" /\ args[r].op = "restore"
  /\ role' = [role EXCEPT ![Founder] = "owner"]
  /\ active' = active \cup {Founder}
  /\ Idle(r)
  /\ UNCHANGED <<custom, inviteVars, deleted, history>>

-----------------------------------------------------------------------------
\* The process running a request dies, or a statement raises.
Abandon(r) == at[r] # "idle" /\ Idle(r) /\ UNCHANGED Read

\* expires_at passes.
Expire(i) ==
  /\ Pending(i) /\ i \notin expired
  /\ expired' = expired \cup {i}
  /\ UNCHANGED <<memberVars, issued, terms, acceptedBy, rejected, deleted, at, args, history>>

\* deleteAccount of the auth service leaves the membership alone.
DeleteAccount(u) ==
  /\ u \notin deleted
  /\ deleted' = deleted \cup {u}
  /\ UNCHANGED <<memberVars, inviteVars, at, args, history>>

\* What user u may call a permission-checked operation with.
RemoveCall(u, v) == [Default EXCEPT !.op = "remove", !.actor = u, !.subject = v]
UpdateCall(u, v, x, c) ==
  [Default EXCEPT !.op = "update", !.actor = u, !.subject = v, !.role = x, !.custom = c]
InviteCall(u, x, c) == [Default EXCEPT !.op = "invite", !.actor = u, !.role = x, !.custom = c]
CancelCall(u, i) == [Default EXCEPT !.op = "cancel", !.actor = u, !.inv = i]

Authorised(r) ==
  \E u \in Users :
    \/ \E v \in Users : Authorise(r, RemoveCall(u, v))
    \/ \E v \in Users, x \in Roles, c \in Grants : Authorise(r, UpdateCall(u, v, x, c))
    \/ \E x \in Roles, c \in Grants : Authorise(r, InviteCall(u, x, c))
    \/ \E i \in issued : Authorise(r, CancelCall(u, i))

Step(r) ==
  \/ Authorised(r)
  \/ CountOwners(r) \/ Remove(r) \/ Update(r) \/ Cancel(r)
  \/ \E i \in Invitations, e \in Emails : Invite(r, i, e)
  \/ \E u \in Users, i \in Invitations : ClaimInvitation(r, u, i)
  \/ GrantMembership(r) \/ FindNoOrganization(r) \/ RestoreOwner(r) \/ Abandon(r)

Next ==
  \/ \E r \in Requests : Step(r)
  \/ \E u \in Users, i \in Invitations : Reject(u, i)
  \/ \E i \in Invitations : Expire(i)
  \/ \E u \in Users : DeleteAccount(u)

Spec == Init /\ [][Next]_vars

-----------------------------------------------------------------------------
\* The message of assertOwnerWillRemain: "An organization must keep at least
\* one owner."
OwnerRemains == Owners # {}

\* What the code does hold to: an organization loses its last owner only if an
\* owner left between the count and the UPDATE of another request, or if an
\* owner accepted an invitation to a lower role.
OwnerLostOnlyByRace == Owners = {} => raced \/ downgraded

\* Accept, reject and cancel racing for an invitation: at most one of them wins
\* and an accepted invitation makes at most one member, once.
InvitationSettlesOnce ==
  \A i \in Invitations :
    /\ acceptedBy[i] # NoUser => i \notin rejected
    /\ granted[i] <= 1
    /\ granted[i] = 1 => acceptedBy[i] # NoUser

\* Except for the founder, whoever is a member was let in by an invitation sent
\* to his own address and accepted by himself; no removal, restore or update in
\* flight brings in anyone else.
InvitedMembersOnly ==
  \A u \in active \ {Founder} :
    \E i \in Invitations :
      acceptedBy[i] = u /\ granted[i] = 1 /\ terms[i].email = EmailOf[u]

=============================================================================
