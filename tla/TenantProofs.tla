---------------------------- MODULE TenantProofs ----------------------------
(***************************************************************************)
(* Proofs about TenantMembership and TenantAccess.  The inductive          *)
(* invariant of the first adds what the requests in flight rely on: the    *)
(* owner a request counted is still there unless somebody raced it, and an *)
(* invitation being turned into a membership belongs to one request and    *)
(* has made no member yet.  The one of the second says what each request   *)
(* has been shown before each of its statements.                           *)
(***************************************************************************)
EXTENDS TenantAccess, TLAPS

\* A request about to remove or demote someone has another owner to rely on.
CountInv ==
  \A r \in Requests :
    at[r] = "write" /\ CountsOwners(args[r])
    => Owners \ {args[r].subject} # {} \/ raced \/ downgraded

\* An invitation that is answered was issued, and is answered once.
AnswerInv ==
  \A i \in Invitations :
    /\ acceptedBy[i] # NoUser => i \in issued /\ i \notin rejected
    /\ granted[i] \in {0, 1}
    /\ granted[i] = 1 => acceptedBy[i] # NoUser

Granting(r) == at[r] = "grant" /\ args[r].op = "accept"

\* The request that claimed an invitation is alone in granting it.
GrantInv ==
  \A r \in Requests : Granting(r) =>
    LET i == args[r].inv IN
    /\ acceptedBy[i] = args[r].subject /\ granted[i] = 0
    /\ terms[i].email = EmailOf[args[r].subject]
    /\ \A q \in Requests : Granting(q) /\ args[q].inv = i => q = r

IInv ==
  /\ TypeOK /\ OwnerLostOnlyByRace /\ CountInv
  /\ AnswerInv /\ GrantInv /\ InvitedMembersOnly

-----------------------------------------------------------------------------
\* The placeholders are well typed.
LEMMA DefaultTyped == Default \in Input /\ DefaultTerms \in Terms
  BY TenantAssumption DEF Default, DefaultTerms, Input, Terms, AllRoles, Emails

\* An authorised request has a well-typed input of an operation that checks
\* permissions.
Checked == {a \in Input : a.op \in {"remove", "update", "invite", "cancel"}}

LEMMA AuthorisedTyped ==
  ASSUME TypeOK, NEW r \in Requests, Authorised(r)
  PROVE  \E a \in Checked : Authorise(r, a)
<1>0. /\ Default \in Input /\ issued \subseteq Invitations
      /\ Roles \subseteq AllRoles /\ Grants \subseteq SUBSET Permissions
  BY DefaultTyped, TenantAssumption DEF TypeOK
<1>1. ASSUME NEW u \in Users, NEW v \in Users PROVE RemoveCall(u, v) \in Checked
  BY <1>0 DEF Checked, Input, RemoveCall
<1>2. ASSUME NEW u \in Users, NEW v \in Users, NEW x \in Roles, NEW c \in Grants
      PROVE  UpdateCall(u, v, x, c) \in Checked
  BY <1>0 DEF Checked, Input, UpdateCall
<1>3. ASSUME NEW u \in Users, NEW x \in Roles, NEW c \in Grants
      PROVE  InviteCall(u, x, c) \in Checked
  BY <1>0 DEF Checked, Input, InviteCall
<1>4. ASSUME NEW u \in Users, NEW i \in issued PROVE CancelCall(u, i) \in Checked
  BY <1>0 DEF Checked, Input, CancelCall
<1>5. QED
  BY <1>1, <1>2, <1>3, <1>4, Zenon DEF Authorised

\* Every step keeps the types.
LEMMA TypeStep == TypeOK /\ [Next]_vars => TypeOK'
<1> SUFFICES ASSUME TypeOK, [Next]_vars PROVE TypeOK'
  OBVIOUS
<1> USE DefaultTyped, TenantAssumption
<1>1. CASE UNCHANGED vars
  BY <1>1 DEF TypeOK, vars, memberVars, inviteVars, history
<1>2. ASSUME NEW r \in Requests, NEW a \in Checked, Authorise(r, a) PROVE TypeOK'
  BY <1>2 DEF TypeOK, Checked, Authorise, Read, memberVars, inviteVars, history
<1>3. ASSUME NEW r \in Requests, CountOwners(r) PROVE TypeOK'
  BY <1>3 DEF TypeOK, CountOwners, Idle, Read, memberVars, inviteVars, history
<1>4. ASSUME NEW r \in Requests, Remove(r) PROVE TypeOK'
  <2>1. args[r].subject \in Users /\ raced' \in BOOLEAN /\ active' \subseteq Users
    BY <1>4 DEF TypeOK, Remove, NoteOwnerLeft, Input
  <2>2. QED
    BY <1>4, <2>1 DEF TypeOK, Remove, Idle, inviteVars
<1>5. ASSUME NEW r \in Requests, Update(r) PROVE TypeOK'
  <2>1. /\ args[r].subject \in Users /\ args[r].role \in AllRoles
        /\ args[r].custom \in SUBSET Permissions
    BY DEF TypeOK, Input
  <2>2. raced' \in BOOLEAN
    BY <1>5 DEF TypeOK, Update, NoteOwnerLeft
  <2>3. role' \in [Users -> AllRoles] /\ custom' \in [Users -> SUBSET Permissions]
    BY <1>5, <2>1 DEF TypeOK, Update
  <2>4. QED
    BY <1>5, <2>2, <2>3 DEF TypeOK, Update, Idle, inviteVars
<1>6. ASSUME NEW r \in Requests, NEW i \in Invitations, NEW e \in Emails, Invite(r, i, e)
      PROVE  TypeOK'
  <2>1. [role |-> args[r].role, custom |-> args[r].custom, email |-> e] \in Terms
    BY DEF TypeOK, Input, Terms
  <2>2. terms' \in [Invitations -> Terms] /\ issued' = issued \cup {i}
    BY <1>6, <2>1 DEF TypeOK, Invite
  <2>3. QED
    BY <1>6, <2>2 DEF TypeOK, Invite, Idle, memberVars, history
<1>7. ASSUME NEW r \in Requests, Cancel(r) PROVE TypeOK'
  BY <1>7 DEF TypeOK, Cancel, Pending, Idle, memberVars, history
<1>8. ASSUME NEW r \in Requests, NEW u \in Users, NEW i \in Invitations,
             ClaimInvitation(r, u, i)
      PROVE  TypeOK'
  <2>1. [Default EXCEPT !.op = "accept", !.actor = u, !.subject = u, !.inv = i] \in Input
    BY DEF Default, Input
  <2>2. QED
    BY <1>8, <2>1 DEF TypeOK, ClaimInvitation, memberVars, history
<1>9. ASSUME NEW r \in Requests, GrantMembership(r) PROVE TypeOK'
  <2>1. /\ args[r].subject \in Users /\ args[r].inv \in Invitations
        /\ terms[args[r].inv] \in Terms
    BY DEF TypeOK, Input
  <2>2. /\ terms[args[r].inv].role \in AllRoles
        /\ terms[args[r].inv].custom \in SUBSET Permissions
    BY <2>1 DEF Terms
  <2>3. role' \in [Users -> AllRoles] /\ custom' \in [Users -> SUBSET Permissions]
    BY <1>9, <2>1, <2>2 DEF TypeOK, GrantMembership
  <2>4. granted' \in [Invitations -> Nat] /\ active' \subseteq Users
    BY <1>9, <2>1 DEF TypeOK, GrantMembership
  <2>5. downgraded' \in BOOLEAN
    BY <1>9 DEF TypeOK, GrantMembership
  <2>6. QED
    BY <1>9, <2>3, <2>4, <2>5 DEF TypeOK, GrantMembership, Idle, inviteVars
<1>10. ASSUME NEW r \in Requests, FindNoOrganization(r) PROVE TypeOK'
  <2>1. [Default EXCEPT !.op = "restore"] \in Input
    BY DEF Default, Input
  <2>2. QED
    BY <1>10, <2>1 DEF TypeOK, FindNoOrganization, Read, memberVars, inviteVars, history
<1>11. ASSUME NEW r \in Requests, RestoreOwner(r) PROVE TypeOK'
  BY <1>11 DEF TypeOK, RestoreOwner, Idle, inviteVars, history, AllRoles
<1>12. ASSUME NEW r \in Requests, Abandon(r) PROVE TypeOK'
  BY <1>12 DEF TypeOK, Abandon, Idle, Read, memberVars, inviteVars, history
<1>13. ASSUME NEW u \in Users, NEW i \in Invitations, Reject(u, i) PROVE TypeOK'
  BY <1>13 DEF TypeOK, Reject, ForMe, Pending, memberVars, history
<1>14. ASSUME NEW i \in Invitations, Expire(i) PROVE TypeOK'
  BY <1>14 DEF TypeOK, Expire, Pending, memberVars, history
<1>15. ASSUME NEW u \in Users, DeleteAccount(u) PROVE TypeOK'
  BY <1>15 DEF TypeOK, DeleteAccount, memberVars, inviteVars, history
<1>16. QED
  BY <1>1, <1>2, <1>3, <1>4, <1>5, <1>6, <1>7, <1>8, <1>9, <1>10, <1>11, <1>12, <1>13,
     <1>14, <1>15, AuthorisedTyped DEF Next, Step

-----------------------------------------------------------------------------
OwnerInv == OwnerLostOnlyByRace /\ CountInv

\* Steps that leave the owners, the counts and the history alone.
LEMMA OwnersUntouched ==
  ASSUME OwnerInv, Owners \subseteq Owners', raced' = raced, downgraded' = downgraded,
         \A r \in Requests :
           at'[r] = "write" /\ CountsOwners(args'[r])
           => at[r] = "write" /\ CountsOwners(args[r]) /\ args'[r] = args[r]
  PROVE  OwnerInv'
<1>1. OwnerLostOnlyByRace'
  BY DEF OwnerInv, OwnerLostOnlyByRace
<1>2. CountInv'
  BY DEF OwnerInv, CountInv, CountsOwners
<1>3. QED
  BY <1>1, <1>2 DEF OwnerInv

\* An owner leaves by the write of a request that counted the others.
LEMMA OwnerLeaves ==
  ASSUME TypeOK, OwnerInv, NEW r \in Requests, at[r] = "write", CountsOwners(args[r]), Idle(r),
         Owners \ {args[r].subject} \subseteq Owners', downgraded' = downgraded,
         NoteOwnerLeft(r, args[r].subject)
  PROVE  OwnerInv'
<1> DEFINE u == args[r].subject
<1>1. Owners \ {u} # {} \/ raced \/ downgraded
  BY DEF OwnerInv, CountInv
<1>2. OwnerLostOnlyByRace'
  BY <1>1 DEF OwnerLostOnlyByRace, NoteOwnerLeft
<1>3. ASSUME NEW q \in Requests, at'[q] = "write", CountsOwners(args'[q])
      PROVE  (Owners \ {args[q].subject} # {})' \/ raced' \/ downgraded'
  <2>1. q # r /\ at[q] = "write" /\ args'[q] = args[q]
    BY <1>3 DEF Idle, TypeOK
  <2>2. CountsOwners(args[q])
    BY <1>3, <2>1 DEF CountsOwners
  <2>3. Owners \ {args[q].subject} # {} \/ raced \/ downgraded
    BY <2>1, <2>2 DEF OwnerInv, CountInv
  <2>4. CASE u \in Owners
    BY <2>1, <2>2, <2>4 DEF NoteOwnerLeft, RelyingOnCount
  <2>5. CASE u \notin Owners
    BY <2>1, <2>3, <2>5 DEF NoteOwnerLeft
  <2>6. QED
    BY <2>4, <2>5
<1>4. QED
  BY <1>2, <1>3 DEF OwnerInv, CountInv

\* A request that is idle again relies on nothing.
LEMMA IdleKeeps ==
  ASSUME TypeOK, NEW r \in Requests, Idle(r)
  PROVE  \A q \in Requests : at'[q] = "write" => at[q] = "write" /\ args'[q] = args[q]
  BY DEF TypeOK, Idle

\* Every step keeps what the requests in flight rely on.
LEMMA OwnerStep == TypeOK /\ OwnerInv /\ [Next]_vars => OwnerInv'
<1> SUFFICES ASSUME TypeOK, OwnerInv, [Next]_vars PROVE OwnerInv'
  OBVIOUS
<1>1. CASE UNCHANGED vars
  <2>1. Owners' = Owners
    BY <1>1 DEF vars, memberVars, Owners
  <2>2. QED
    BY <1>1, <2>1, OwnersUntouched DEF vars, history
<1>2. ASSUME NEW r \in Requests, NEW a \in Checked, Authorise(r, a) PROVE OwnerInv'
  <2>1. Owners' = Owners
    BY <1>2 DEF Authorise, Read, memberVars, Owners
  <2>2. ASSUME NEW q \in Requests, at'[q] = "write", CountsOwners(args'[q])
        PROVE  at[q] = "write" /\ CountsOwners(args[q]) /\ args'[q] = args[q]
    <3>1. q # r
      BY <1>2, <2>2 DEF Authorise, TypeOK, CountsOwners
    <3>2. QED
      BY <1>2, <2>2, <3>1 DEF Authorise, TypeOK, CountsOwners
  <2>3. QED
    BY <1>2, <2>1, <2>2, OwnersUntouched DEF Authorise, Read, history
<1>3. ASSUME NEW r \in Requests, CountOwners(r) PROVE OwnerInv'
  <2>1. Owners' = Owners /\ raced' = raced /\ downgraded' = downgraded
    BY <1>3 DEF CountOwners, Read, memberVars, Owners, history
  <2>2. CASE Owners \ {args[r].subject} # {}
    <3>1. at' = [at EXCEPT ![r] = "write"] /\ args' = args
      BY <1>3, <2>2 DEF CountOwners
    <3>2. OwnerLostOnlyByRace'
      BY <2>1 DEF OwnerInv, OwnerLostOnlyByRace
    <3>3. CountInv'
      BY <2>1, <2>2, <3>1 DEF TypeOK, OwnerInv, CountInv, CountsOwners
    <3>4. QED
      BY <3>2, <3>3 DEF OwnerInv
  <2>3. CASE Owners \ {args[r].subject} = {}
    <3>1. Idle(r)
      BY <1>3, <2>3 DEF CountOwners
    <3>2. QED
      BY <2>1, <3>1, IdleKeeps, OwnersUntouched DEF CountsOwners
  <2>4. QED
    BY <2>2, <2>3
<1>4. ASSUME NEW r \in Requests, Remove(r) PROVE OwnerInv'
  <2>1. at[r] = "write" /\ CountsOwners(args[r]) /\ Idle(r) /\ downgraded' = downgraded
    BY <1>4 DEF Remove, CountsOwners
  <2>2. CASE args[r].subject \in active
    <3>1. Owners \ {args[r].subject} \subseteq Owners'
      BY <1>4, <2>2 DEF Remove, Owners
    <3>2. QED
      BY <1>4, <2>1, <2>2, <3>1, OwnerLeaves DEF Remove
  <2>3. CASE args[r].subject \notin active
    <3>1. Owners' = Owners
      BY <1>4, <2>3 DEF Remove, Owners
    <3>2. raced' = raced
      BY <1>4, <2>3 DEF Remove
    <3>3. QED
      BY <2>1, <3>1, <3>2, IdleKeeps, OwnersUntouched DEF CountsOwners
  <2>4. QED
    BY <2>2, <2>3
<1>5. ASSUME NEW r \in Requests, Update(r) PROVE OwnerInv'
  <2>1. at[r] = "write" /\ Idle(r) /\ downgraded' = downgraded
    BY <1>5 DEF Update
  <2>2. CASE args[r].subject \in active /\ args[r].role # "owner"
    <3>1. CountsOwners(args[r])
      BY <1>5, <2>2 DEF Update, CountsOwners
    <3>2. Owners \ {args[r].subject} \subseteq Owners'
      BY <1>5, <2>2 DEF TypeOK, Update, Owners
    <3>3. QED
      BY <1>5, <2>1, <2>2, <3>1, <3>2, OwnerLeaves DEF Update
  <2>3. CASE ~(args[r].subject \in active /\ args[r].role # "owner")
    <3>1. Owners \subseteq Owners' /\ raced' = raced
      BY <1>5, <2>3 DEF TypeOK, Update, Owners
    <3>2. QED
      BY <2>1, <3>1, IdleKeeps, OwnersUntouched DEF CountsOwners
  <2>4. QED
    BY <2>2, <2>3
<1>6. ASSUME NEW r \in Requests, NEW i \in Invitations, NEW e \in Emails, Invite(r, i, e)
      PROVE  OwnerInv'
  <2>1. Idle(r) /\ Owners' = Owners /\ raced' = raced /\ downgraded' = downgraded
    BY <1>6 DEF Invite, memberVars, history, Owners
  <2>2. QED
    BY <2>1, IdleKeeps, OwnersUntouched DEF CountsOwners
<1>7. ASSUME NEW r \in Requests, Cancel(r) PROVE OwnerInv'
  <2>1. Idle(r) /\ Owners' = Owners /\ raced' = raced /\ downgraded' = downgraded
    BY <1>7 DEF Cancel, memberVars, history, Owners
  <2>2. QED
    BY <2>1, IdleKeeps, OwnersUntouched DEF CountsOwners
<1>8. ASSUME NEW r \in Requests, NEW u \in Users, NEW i \in Invitations,
             ClaimInvitation(r, u, i)
      PROVE  OwnerInv'
  <2>1. Owners' = Owners /\ raced' = raced /\ downgraded' = downgraded
    BY <1>8 DEF ClaimInvitation, memberVars, history, Owners
  <2>2. \A q \in Requests : at'[q] = "write" => at[q] = "write" /\ args'[q] = args[q]
    BY <1>8 DEF TypeOK, ClaimInvitation
  <2>3. QED
    BY <2>1, <2>2, OwnersUntouched DEF CountsOwners
<1>9. ASSUME NEW r \in Requests, GrantMembership(r) PROVE OwnerInv'
  <2> DEFINE u == args[r].subject
             i == args[r].inv
  <2>1. Idle(r) /\ raced' = raced
    BY <1>9 DEF GrantMembership
  <2>2. CASE u \in Owners /\ terms[i].role # "owner"
    <3>1. downgraded'
      BY <1>9, <2>2 DEF GrantMembership
    <3>2. QED
      BY <3>1 DEF OwnerInv, OwnerLostOnlyByRace, CountInv
  <2>3. CASE ~(u \in Owners /\ terms[i].role # "owner")
    <3>1. Owners \subseteq Owners'
      BY <1>9, <2>3 DEF TypeOK, GrantMembership, Owners
    <3>2. downgraded' = downgraded
      BY <1>9, <2>3 DEF TypeOK, GrantMembership
    <3>3. QED
      BY <2>1, <3>1, <3>2, IdleKeeps, OwnersUntouched DEF CountsOwners
  <2>4. QED
    BY <2>2, <2>3
<1>10. ASSUME NEW r \in Requests, FindNoOrganization(r) PROVE OwnerInv'
  <2>1. Owners' = Owners /\ raced' = raced /\ downgraded' = downgraded
    BY <1>10 DEF FindNoOrganization, Read, memberVars, history, Owners
  <2>2. \A q \in Requests : at'[q] = "write" => at[q] = "write" /\ args'[q] = args[q]
    BY <1>10 DEF TypeOK, FindNoOrganization
  <2>3. QED
    BY <2>1, <2>2, OwnersUntouched DEF CountsOwners
<1>11. ASSUME NEW r \in Requests, RestoreOwner(r) PROVE OwnerInv'
  <2>1. Idle(r) /\ Owners \subseteq Owners' /\ raced' = raced /\ downgraded' = downgraded
    BY <1>11 DEF TypeOK, RestoreOwner, history, Owners
  <2>2. QED
    BY <2>1, IdleKeeps, OwnersUntouched DEF CountsOwners
<1>12. ASSUME NEW r \in Requests, Abandon(r) PROVE OwnerInv'
  <2>1. Idle(r) /\ Owners' = Owners /\ raced' = raced /\ downgraded' = downgraded
    BY <1>12 DEF Abandon, Read, memberVars, history, Owners
  <2>2. QED
    BY <2>1, IdleKeeps, OwnersUntouched DEF CountsOwners
<1>13. CASE \/ \E u \in Users, i \in Invitations : Reject(u, i)
            \/ \E i \in Invitations : Expire(i)
            \/ \E u \in Users : DeleteAccount(u)
  <2>1. UNCHANGED <<memberVars, at, args, history>>
    BY <1>13 DEF Reject, Expire, DeleteAccount
  <2>2. Owners' = Owners
    BY <2>1 DEF memberVars, Owners
  <2>3. QED
    BY <2>1, <2>2, OwnersUntouched DEF history
<1>14. QED
  BY <1>1, <1>2, <1>3, <1>4, <1>5, <1>6, <1>7, <1>8, <1>9, <1>10, <1>11, <1>12, <1>13,
     AuthorisedTyped DEF Next, Step

-----------------------------------------------------------------------------
InviteInv == AnswerInv /\ GrantInv /\ InvitedMembersOnly

\* Steps that leave the invitations and the members but for removals alone, and
\* start no grant.
LEMMA InvitationsUntouched ==
  ASSUME InviteInv, UNCHANGED <<acceptedBy, granted, terms>>,
         active' \subseteq active \cup {Founder},
         issued \subseteq issued',
         \A i \in rejected' : i \in rejected \/ acceptedBy[i] = NoUser,
         \A r \in Requests : Granting(r)' => Granting(r) /\ args'[r] = args[r]
  PROVE  InviteInv'
<1>1. AnswerInv'
  BY DEF InviteInv, AnswerInv
<1>2. GrantInv'
  BY DEF InviteInv, GrantInv
<1>3. InvitedMembersOnly'
  BY DEF InviteInv, InvitedMembersOnly
<1>4. QED
  BY <1>1, <1>2, <1>3 DEF InviteInv

\* Every step keeps what is known of invitations, grants and members.
LEMMA InviteStep == TypeOK /\ InviteInv /\ [Next]_vars => InviteInv'
<1> SUFFICES ASSUME TypeOK, InviteInv, [Next]_vars PROVE InviteInv'
  OBVIOUS
<1> DEFINE Quiet == /\ UNCHANGED <<acceptedBy, granted, terms>>
                    /\ active' \subseteq active \cup {Founder}
                    /\ issued \subseteq issued'
                    /\ \A i \in rejected' : i \in rejected \/ acceptedBy[i] = NoUser
                    /\ \A r \in Requests : Granting(r)' => Granting(r) /\ args'[r] = args[r]
<1>0. Quiet => InviteInv'
  BY InvitationsUntouched
<1>1. CASE UNCHANGED vars
  BY <1>0, <1>1 DEF vars, memberVars, inviteVars, history, Granting
<1>2. ASSUME NEW r \in Requests, NEW a \in Checked, Authorise(r, a) PROVE InviteInv'
  BY <1>0, <1>2 DEF TypeOK, Checked, Authorise, Read, memberVars, inviteVars, history, Granting
<1>3. ASSUME NEW r \in Requests, CountOwners(r) PROVE InviteInv'
  BY <1>0, <1>3
  DEF TypeOK, CountOwners, Idle, Read, memberVars, inviteVars, history, Granting
<1>4. ASSUME NEW r \in Requests, Remove(r) PROVE InviteInv'
  BY <1>0, <1>4 DEF TypeOK, Remove, Idle, inviteVars, Granting
<1>5. ASSUME NEW r \in Requests, Update(r) PROVE InviteInv'
  BY <1>0, <1>5 DEF TypeOK, Update, Idle, inviteVars, Granting
<1>6. ASSUME NEW r \in Requests, NEW i \in Invitations, NEW e \in Emails, Invite(r, i, e)
      PROVE  InviteInv'
  <2>1. /\ UNCHANGED <<acceptedBy, granted, rejected, active>> /\ i \notin issued
        /\ issued \subseteq issued'
        /\ \A j \in Invitations : j # i => terms'[j] = terms[j]
    BY <1>6 DEF TypeOK, Invite, memberVars, history
  <2>2. acceptedBy[i] = NoUser
    BY <2>1 DEF InviteInv, AnswerInv
  <2>3. \A q \in Requests : Granting(q)' => Granting(q) /\ args'[q] = args[q]
    BY <1>6 DEF TypeOK, Invite, Idle, Granting
  <2>4. AnswerInv'
    BY <2>1 DEF InviteInv, AnswerInv
  <2>5. GrantInv'
    <3> SUFFICES ASSUME NEW q \in Requests, Granting(q)'
                 PROVE  LET j == args'[q].inv IN
                        /\ acceptedBy'[j] = args'[q].subject /\ granted'[j] = 0
                        /\ terms'[j].email = EmailOf[args'[q].subject]
                        /\ \A p \in Requests : Granting(p)' /\ args'[p].inv = j => p = q
      BY DEF GrantInv, Granting
    <3>1. args[q].inv \in Invitations /\ args[q].subject \in Users
      BY DEF TypeOK, Input
    <3>2. args[q].inv # i
      BY <2>2, <2>3, <3>1, TenantAssumption DEF InviteInv, GrantInv
    <3>3. QED
      BY <2>1, <2>3, <3>1, <3>2 DEF InviteInv, GrantInv
  <2>6. InvitedMembersOnly'
    <3> SUFFICES ASSUME NEW u \in active \ {Founder}
                 PROVE  \E j \in Invitations : /\ acceptedBy'[j] = u /\ granted'[j] = 1
                                               /\ terms'[j].email = EmailOf[u]
      BY <2>1 DEF InvitedMembersOnly
    <3>1. PICK j \in Invitations :
                 acceptedBy[j] = u /\ granted[j] = 1 /\ terms[j].email = EmailOf[u]
      BY DEF InviteInv, InvitedMembersOnly
    <3>2. j # i
      BY <2>2, <3>1, TenantAssumption DEF TypeOK
    <3>3. QED
      BY <2>1, <3>1, <3>2
  <2>7. QED
    BY <2>4, <2>5, <2>6 DEF InviteInv
<1>7. ASSUME NEW r \in Requests, Cancel(r) PROVE InviteInv'
  BY <1>0, <1>7 DEF TypeOK, Cancel, Pending, Idle, memberVars, history, Granting
<1>8. ASSUME NEW r \in Requests, NEW u \in Users, NEW i \in Invitations,
             ClaimInvitation(r, u, i)
      PROVE  InviteInv'
  <2>1. /\ i \in issued /\ i \notin rejected /\ acceptedBy[i] = NoUser
        /\ terms[i].email = EmailOf[u]
    BY <1>8 DEF ClaimInvitation, ForMe, Pending
  <2>2. /\ UNCHANGED <<issued, terms, rejected, granted, active>>
        /\ acceptedBy'[i] = u /\ \A j \in Invitations : j # i => acceptedBy'[j] = acceptedBy[j]
        /\ args'[r].inv = i /\ args'[r].subject = u
        /\ \A q \in Requests : q # r => args'[q] = args[q] /\ at'[q] = at[q]
    BY <1>8, DefaultTyped DEF TypeOK, Input, ClaimInvitation, memberVars, history
  <2>3. granted[i] = 0
    BY <2>1 DEF InviteInv, AnswerInv
  <2>4. AnswerInv'
    BY <2>1, <2>2, <2>3 DEF InviteInv, AnswerInv
  <2>5. ASSUME NEW q \in Requests, q # r, Granting(q)'
        PROVE  Granting(q) /\ args[q].inv \in Invitations /\ args[q].inv # i
    <3>1. Granting(q) /\ args[q].inv \in Invitations /\ args[q].subject \in Users
      BY <2>2, <2>5 DEF Granting, TypeOK, Input
    <3>2. QED
      BY <2>1, <3>1, TenantAssumption DEF InviteInv, GrantInv
  <2>6. GrantInv'
    BY <2>1, <2>2, <2>3, <2>5 DEF InviteInv, GrantInv
  <2>7. InvitedMembersOnly'
    BY <2>1, <2>2, <2>3 DEF InviteInv, InvitedMembersOnly
  <2>8. QED
    BY <2>4, <2>6, <2>7 DEF InviteInv
<1>9. ASSUME NEW r \in Requests, GrantMembership(r) PROVE InviteInv'
  <2> DEFINE u == args[r].subject
             i == args[r].inv
  <2>1. /\ Granting(r) /\ u \in Users /\ i \in Invitations
    BY <1>9 DEF TypeOK, Input, GrantMembership, Granting
  <2>2. acceptedBy[i] = u /\ granted[i] = 0 /\ terms[i].email = EmailOf[u]
    BY <2>1 DEF InviteInv, GrantInv
  <2>3. /\ UNCHANGED inviteVars /\ active' = active \cup {u}
        /\ granted'[i] = 1 /\ \A j \in Invitations : j # i => granted'[j] = granted[j]
    BY <1>9, <2>1, <2>2 DEF TypeOK, GrantMembership
  <2>4. AnswerInv'
    BY <2>1, <2>2, <2>3, TenantAssumption DEF InviteInv, AnswerInv, inviteVars
  <2>5. ASSUME NEW q \in Requests, Granting(q)'
        PROVE  /\ Granting(q) /\ args'[q] = args[q]
               /\ args[q].inv \in Invitations /\ args[q].inv # i
    <3>1. q # r /\ Granting(q) /\ args'[q] = args[q]
      BY <1>9, <2>5 DEF TypeOK, GrantMembership, Idle, Granting
    <3>2. QED
      BY <2>1, <3>1 DEF TypeOK, Input, InviteInv, GrantInv
  <2>6. GrantInv'
    BY <2>3, <2>5 DEF InviteInv, GrantInv, inviteVars
  <2>7. InvitedMembersOnly'
    BY <2>1, <2>2, <2>3 DEF InviteInv, InvitedMembersOnly, inviteVars
  <2>8. QED
    BY <2>4, <2>6, <2>7 DEF InviteInv
<1>10. ASSUME NEW r \in Requests, FindNoOrganization(r) PROVE InviteInv'
  BY <1>0, <1>10, DefaultTyped
  DEF TypeOK, Input, FindNoOrganization, Read, memberVars, inviteVars, history, Granting
<1>11. ASSUME NEW r \in Requests, RestoreOwner(r) PROVE InviteInv'
  BY <1>0, <1>11 DEF TypeOK, RestoreOwner, Idle, inviteVars, history, Granting
<1>12. ASSUME NEW r \in Requests, Abandon(r) PROVE InviteInv'
  BY <1>0, <1>12 DEF TypeOK, Abandon, Idle, Read, memberVars, inviteVars, history, Granting
<1>13. CASE \/ \E u \in Users, i \in Invitations : Reject(u, i)
            \/ \E i \in Invitations : Expire(i)
            \/ \E u \in Users : DeleteAccount(u)
  BY <1>0, <1>13
  DEF Reject, ForMe, Pending, Expire, DeleteAccount, memberVars, inviteVars, history, Granting
<1>14. QED
  BY <1>1, <1>2, <1>3, <1>4, <1>5, <1>6, <1>7, <1>8, <1>9, <1>10, <1>11, <1>12, <1>13,
     AuthorisedTyped DEF Next, Step

-----------------------------------------------------------------------------
\* The inductive invariant holds initially and in every reachable state.
LEMMA Invariance == Spec => []IInv
<1>1. Init => IInv
  <2> SUFFICES ASSUME Init PROVE IInv
    OBVIOUS
  <2>1. TypeOK
    BY DefaultTyped, TenantAssumption DEF Init, TypeOK, AllRoles
  <2>2. OwnerInv
    BY TenantAssumption DEF Init, OwnerInv, OwnerLostOnlyByRace, CountInv, Owners
  <2>3. InviteInv
    BY DEF Init, InviteInv, AnswerInv, GrantInv, Granting, InvitedMembersOnly
  <2>4. QED
    BY <2>1, <2>2, <2>3 DEF IInv, OwnerInv, InviteInv
<1>2. IInv /\ [Next]_vars => IInv'
  BY TypeStep, OwnerStep, InviteStep DEF IInv, OwnerInv, InviteInv
<1>3. QED
  BY <1>1, <1>2, PTL DEF Spec

\* The rows, requests and inputs keep their types (type correctness).
THEOREM TypeCorrect == Spec => []TypeOK
  BY Invariance, PTL DEF IInv

\* An organization loses its last owner only to a race for it or to an owner's
\* own acceptance of a lower role: assertOwnerWillRemain is right about
\* everything it sees.
THEOREM OwnersKept == Spec => []OwnerLostOnlyByRace
  BY Invariance, PTL DEF IInv

\* An invitation is accepted or rejected, never both, and makes one member.
THEOREM InvitationsSettleOnce == Spec => []InvitationSettlesOnce
<1>1. IInv => InvitationSettlesOnce
  BY DEF IInv, AnswerInv, InvitationSettlesOnce
<1>2. QED
  BY <1>1, Invariance, PTL

\* Apart from the founder, members are those who accepted an invitation to
\* their own address.
THEOREM MembersWereInvited == Spec => []InvitedMembersOnly
  BY Invariance, PTL DEF IInv

-----------------------------------------------------------------------------
(* TenantAccess: what a request was shown *)

KeyRows ==
  [status : {"none", "live", "expired", "revoked"}, tenant : BOOLEAN, by : Users \cup {NoUser},
   scopes : KeyScopes \cup TokenScopes \cup {{}}]
ImpersonationRows ==
  [status : {"none", "active", "expired", "ended"}, actor : Users \cup {NoUser},
   subject : Users \cup {NoUser}]
AccessStates ==
  [at : {"none", "session", "context", "check", "write", "audit", "actor", "subject", "key", "owner",
         "authorise", "serve", "record", "meter"},
   op : {"none", "refused", "create key", "revoke key", "impersonate", "end"} \cup Settings \cup ApiOps,
   caller : Users \cup {NoUser}, user : Users \cup {NoUser}, imp : Impersonations \cup {Nothing},
   key : ApiKeys \cup {Nothing}, subject : Users \cup {NoUser}]

AccessTypeOK ==
  /\ apiKey \in [ApiKeys -> KeyRows] /\ imp \in [Impersonations -> ImpersonationRows]
  /\ endpoint \in [Endpoints -> Users \cup {NoUser}] /\ tested \subseteq Endpoints
  /\ setting \in [Settings -> Users \cup {NoUser}] /\ access \in [Requests -> AccessStates]

\* Whoever made a key or an impersonation is a user, and so is its subject.
RowRule ==
  /\ \A k \in ApiKeys : apiKey[k] # NoApiKey => apiKey[k].status # "none" /\ apiKey[k].by \in Users
  /\ \A i \in Impersonations :
       imp[i].status # "none" => imp[i].actor \in Users /\ imp[i].subject \in Users

Acting(r) == access[r].op \in Settings \cup {"create key", "revoke key"}
Has(r, x, y) == <<x, y>> \in held[r]
\* The user it acts for is the caller, or the subject of an impersonation of his
\* that was active.
ActsFor(r) ==
  LET a == access[r] IN
  \/ a.user = a.caller
  \/ /\ a.imp \in Impersonations /\ imp[a.imp].status # "none" /\ Has(r, "imp", a.imp)
     /\ imp[a.imp].actor = a.caller /\ imp[a.imp].subject = a.user

\* What was checked before the statement that a request is at.
ActingRule(r) ==
  LET a == access[r] IN
  /\ a.at \in {"session", "context", "check"} => Acting(r)
  /\ a.at = "session" => a.imp \in Impersonations
  /\ Acting(r) /\ a.at \in {"session", "context", "check", "write"}
     => a.caller \in Users /\ a.user \in Users /\ ActsFor(r)
  /\ Acting(r) /\ a.at \in {"check", "write"} => Has(r, "right", a.user)
ImpersonateRule(r) ==
  LET a == access[r] IN
  /\ a.at \in {"actor", "subject"} => a.op = "impersonate"
  /\ a.op = "impersonate" => a.caller \in Users /\ a.subject \in Users
  /\ a.op = "impersonate" /\ a.at \in {"subject", "write"}
     => a.caller \in Operators \/ Has(r, "right", a.caller)
  /\ a.op = "impersonate" /\ a.at = "write" => Has(r, "member", a.subject)
ServingRule(r) ==
  LET a == access[r] IN
  /\ a.at \in {"key", "owner", "authorise", "serve"} =>
       /\ a.op \in ApiOps /\ a.key \in ApiKeys /\ apiKey[a.key].status # "none"
       /\ a.user = apiKey[a.key].by
  /\ a.at \in {"owner", "authorise", "serve"} => Has(r, "key", a.key)
  /\ a.at = "serve" => /\ Sufficient(apiKey[a.key].scopes, ScopeFor(a.op))
                       /\ apiKey[a.key].tenant \/ Has(r, "right", a.user)
\* Operations of members write; those of keys are at the statements above.
WriteRule(r) ==
  LET a == access[r] IN
  /\ a.at = "write" => Acting(r) \/ a.op \in {"impersonate", "end"}
  /\ Watched(r) => Holds(r) \subseteq held[r]
Knows(r) == ActingRule(r) /\ ImpersonateRule(r) /\ ServingRule(r) /\ WriteRule(r)

AccessInv ==
  /\ AccessTypeOK /\ RowRule /\ \A r \in Requests : Knows(r)
  /\ AccessJustified

\* No operation is two of these.
LEMMA Operations ==
  /\ \A op \in Settings \cup {"create key", "revoke key"} :
       op \notin ApiOps /\ op \notin {"none", "refused", "impersonate", "end"}
  /\ \A op \in ApiOps : op \notin {"none", "refused", "impersonate", "end"}
  /\ NoAccess \in AccessStates /\ NoAccess.at = "none" /\ NoAccess.op = "none"
  /\ NoAccess.user = NoUser /\ NoAccess.imp = Nothing
<1>1. /\ \A op \in Settings \cup {"create key", "revoke key"} :
           op \notin ApiOps /\ op \notin {"none", "refused", "impersonate", "end"}
      /\ \A op \in ApiOps : op \notin {"none", "refused", "impersonate", "end"}
  BY DEF Settings, ApiOps
<1>2. NoAccess \in AccessStates
  BY DEF NoAccess, AccessStates
<1> QED
  BY <1>1, <1>2 DEF NoAccess

LEMMA AccessInitially == AccessInit => AccessInv
<1> SUFFICES ASSUME AccessInit PROVE AccessInv
  OBVIOUS
<1>1. NoApiKey \in KeyRows /\ NoApiKey.status = "none"
  BY DEF NoApiKey, KeyRows
<1>2. NoImpersonation \in ImpersonationRows /\ NoImpersonation.status = "none"
  BY DEF NoImpersonation, ImpersonationRows
<1>3. AccessTypeOK /\ RowRule
  BY <1>1, <1>2, Operations DEF AccessInit, AccessTypeOK, RowRule
<1>4. \A r \in Requests : access[r].at = "none" /\ access[r].op = "none"
  BY Operations DEF AccessInit
<1>5. \A r \in Requests : Knows(r)
  BY <1>4, Operations DEF Knows, ActingRule, ImpersonateRule, ServingRule, WriteRule, Watched, AccessAt,
    Acting
<1> QED
  BY <1>3, <1>5 DEF AccessInv, AccessInit, AccessJustified

\* A request is justified when it makes its change.
LEMMA JustifiedNow ==
  ASSUME NEW r \in Requests, Knows(r),
         \/ access[r].at = "write" /\ access[r].op # "end"
         \/ access[r].at = "serve"
  PROVE  Justified(r)
<1>1. CASE access[r].at = "serve"
  <2>1. /\ access[r].op \in ApiOps /\ <<"key", access[r].key>> \in held[r]
        /\ Sufficient(apiKey[access[r].key].scopes, ScopeFor(access[r].op))
        /\ apiKey[access[r].key].tenant \/ <<"right", access[r].user>> \in held[r]
    BY <1>1 DEF Knows, ServingRule, Has
  <2> QED
    BY <2>1, Operations DEF Justified
<1>2. CASE access[r].at = "write" /\ access[r].op = "impersonate"
  BY <1>2, Operations DEF Knows, ImpersonateRule, Justified, Has
<1>3. CASE access[r].at = "write" /\ Acting(r)
  <2>1. access[r].op \notin ApiOps \cup {"impersonate", "end"}
    BY <1>3, Operations DEF Acting
  <2> QED
    BY <1>3, <2>1 DEF Knows, ActingRule, ActsFor, Justified, Has
<1> QED
  BY <1>1, <1>2, <1>3 DEF Knows, WriteRule

\* What a request holds is held from then on.
LEMMA HeldGrows ==
  ASSUME Watch, NEW r \in Requests, Watched(r)'
  PROVE  held[r] \subseteq held'[r] /\ Holds(r)' \subseteq held'[r]
<1>1. held'[r] = held[r] \cup Holds(r)'
  BY DEF Watch
<1> QED
  BY <1>1

\* Keys and impersonations change only in their status.
RowsKept ==
  /\ \A k \in ApiKeys : apiKey[k].status # "none" =>
       /\ apiKey'[k].status # "none" /\ apiKey'[k].by = apiKey[k].by
       /\ apiKey'[k].tenant = apiKey[k].tenant /\ apiKey'[k].scopes = apiKey[k].scopes
  /\ \A i \in Impersonations : imp[i].status # "none" =>
       /\ imp'[i].status # "none" /\ imp'[i].actor = imp[i].actor /\ imp'[i].subject = imp[i].subject

\* A request that does nothing still knows what it was shown.
LEMMA RestKnows ==
  ASSUME Watch, RowsKept, AccessTypeOK, NEW r \in Requests, Knows(r), access'[r] = access[r]
  PROVE  Knows(r)'
<1>1. /\ Acting(r) /\ access[r].at \in {"session", "context", "check", "write"} => Watched(r)'
      /\ access[r].op = "impersonate" /\ access[r].at \in {"actor", "subject", "write"} => Watched(r)'
      /\ access[r].op \in ApiOps /\ access[r].at \in {"key", "owner", "authorise", "serve"}
         => Watched(r)'
  BY Operations DEF Acting, Watched, Ending, AccessAt, Asks
<1>2. \A x, y : Watched(r)' /\ Has(r, x, y) => Has(r, x, y)'
  BY HeldGrows DEF Has
<1>3. Acting(r)' <=> Acting(r)
  BY DEF Acting
<1>4. ActingRule(r)'
  BY <1>1, <1>2, <1>3 DEF Knows, ActingRule, ActsFor, RowsKept
<1>5. ImpersonateRule(r)'
  BY <1>1, <1>2 DEF Knows, ImpersonateRule
<1>6. ServingRule(r)'
  BY <1>1, <1>2 DEF Knows, ServingRule, RowsKept
<1>7. WriteRule(r)'
  BY <1>3, HeldGrows DEF Knows, WriteRule
<1> QED
  BY <1>4, <1>5, <1>6, <1>7 DEF Knows

-----------------------------------------------------------------------------
(* TenantAccess: the steps of a request *)

\* Only request r has moved, and it knows what it relies on there.
Told(r) ==
  /\ access' \in [Requests -> AccessStates] /\ Knows(r)'
  /\ \A q \in Requests \ {r} : access'[q] = access[q]

LEMMA Entered ==
  ASSUME AccessTypeOK, NEW r \in Requests, NEW x \in AccessStates, access' = [access EXCEPT ![r] = x]
  PROVE  /\ access' \in [Requests -> AccessStates] /\ access'[r] = x
         /\ \A q \in Requests \ {r} : access'[q] = access[q]
BY DEF AccessTypeOK

LEMMA MovedOn ==
  ASSUME AccessTypeOK, NEW r \in Requests,
         NEW s \in {"context", "check", "write", "subject", "owner", "authorise", "serve", "meter"},
         Move(r, s)
  PROVE  LET x == access'[r]
             a == access[r]
         IN /\ access' \in [Requests -> AccessStates]
            /\ x.at = s /\ x.op = a.op /\ x.caller = a.caller /\ x.user = a.user /\ x.imp = a.imp
            /\ x.key = a.key /\ x.subject = a.subject
            /\ \A q \in Requests \ {r} : access'[q] = access[q]
<1> DEFINE x == [access[r] EXCEPT !.at = s]
<1>1. /\ x \in AccessStates /\ x.at = s /\ x.op = access[r].op /\ x.caller = access[r].caller
      /\ x.user = access[r].user /\ x.imp = access[r].imp /\ x.key = access[r].key
      /\ x.subject = access[r].subject
  BY DEF AccessTypeOK, AccessStates
<1>2. access' = [access EXCEPT ![r] = x]
  BY DEF Move
<1> HIDE DEF x
<1> QED
  BY <1>1, <1>2, Entered

\* A request that has ended, or only has its trail to write, relies on nothing.
LEMMA Resting ==
  ASSUME NEW r \in Requests,
         access'[r].at \in {"none", "audit", "record", "meter"},
         access'[r].op = "impersonate" => access[r].op = "impersonate"
           /\ access'[r].caller = access[r].caller /\ access'[r].subject = access[r].subject,
         Knows(r)
  PROVE  Knows(r)'
<1>1. Watched(r)' => access'[r].op = "refused"
  BY DEF Watched, Ending, AccessAt, Asks
<1>2. ~Watched(r)'
  BY <1>1 DEF Watched
<1> QED
  BY <1>2 DEF Knows, ActingRule, ImpersonateRule, ServingRule, WriteRule

\* A request that is called.
LEMMA CallKnows ==
  ASSUME AccessInv, Watch, NEW r \in Requests, Call(r), UNCHANGED <<apiKey, imp>>
  PROVE  Told(r)
<1>1. Watched(r)' => Holds(r)' \subseteq held'[r]
  BY HeldGrows
<1>2. ASSUME NEW u \in Users, NEW i \in Impersonations \cup {Nothing}, NEW k \in ApiKeys \cup {Nothing},
             NEW op \in Settings \cup {"create key", "revoke key"}, CallAction(r, u, i, op, k)
      PROVE  Told(r)
  <2> DEFINE s == IF i = Nothing THEN "context" ELSE "session"
             x == [NoAccess EXCEPT !.at = s, !.op = op, !.caller = u, !.user = u, !.imp = i, !.key = k]
  <2>1. /\ x \in AccessStates /\ x.at = s /\ x.op = op /\ x.caller = u /\ x.user = u /\ x.imp = i
    BY DEF NoAccess, AccessStates
  <2>2. access' = [access EXCEPT ![r] = x]
    BY <1>2 DEF CallAction, Enter
  <2> HIDE DEF x
  <2>3. /\ access' \in [Requests -> AccessStates] /\ access'[r] = x
        /\ \A q \in Requests \ {r} : access'[q] = access[q]
    BY <2>1, <2>2, Entered DEF AccessInv
  <2>4. op \notin ApiOps \cup {"impersonate"}
    BY Operations
  <2>5. Knows(r)'
    BY <1>1, <2>1, <2>3, <2>4 DEF Knows, ActingRule, ImpersonateRule, ServingRule, WriteRule, Acting, ActsFor
  <2> QED
    BY <2>3, <2>5 DEF Told
<1>3. ASSUME NEW u \in Users, NEW v \in Users, CallImpersonate(r, u, v)
      PROVE  Told(r)
  <2> DEFINE x == [NoAccess EXCEPT !.at = "actor", !.op = "impersonate", !.caller = u, !.user = u,
                                   !.subject = v]
  <2>1. /\ x \in AccessStates /\ x.at = "actor" /\ x.op = "impersonate" /\ x.caller = u
        /\ x.subject = v
    BY DEF NoAccess, AccessStates
  <2>2. access' = [access EXCEPT ![r] = x]
    BY <1>3 DEF CallImpersonate, Enter
  <2> HIDE DEF x
  <2>3. /\ access' \in [Requests -> AccessStates] /\ access'[r] = x
        /\ \A q \in Requests \ {r} : access'[q] = access[q]
    BY <2>1, <2>2, Entered DEF AccessInv
  <2>4. Knows(r)'
    BY <1>1, <2>1, <2>3, Operations DEF Knows, ActingRule, ImpersonateRule, ServingRule, WriteRule, Acting
  <2> QED
    BY <2>3, <2>4 DEF Told
<1>4. ASSUME NEW u \in Users, NEW i \in Impersonations, CallEnd(r, u, i)
      PROVE  Told(r)
  <2> DEFINE x == [NoAccess EXCEPT !.at = "write", !.op = "end", !.caller = u, !.user = u, !.imp = i]
  <2>1. x \in AccessStates /\ x.at = "write" /\ x.op = "end"
    BY DEF NoAccess, AccessStates
  <2>2. access' = [access EXCEPT ![r] = x]
    BY <1>4 DEF CallEnd, Enter
  <2> HIDE DEF x
  <2>3. /\ access' \in [Requests -> AccessStates] /\ access'[r] = x
        /\ \A q \in Requests \ {r} : access'[q] = access[q]
    BY <2>1, <2>2, Entered DEF AccessInv
  <2>4. Knows(r)'
    BY <1>1, <2>1, <2>3, Operations DEF Knows, ActingRule, ImpersonateRule, ServingRule, WriteRule, Acting
  <2> QED
    BY <2>3, <2>4 DEF Told
<1>5. ASSUME NEW k \in ApiKeys, NEW op \in ApiOps, CallApi(r, k, op)
      PROVE  Told(r)
  <2> DEFINE x == [NoAccess EXCEPT !.at = "key", !.op = op, !.key = k, !.user = apiKey[k].by]
  <2>1. apiKey[k] \in KeyRows
    BY DEF AccessInv, AccessTypeOK
  <2>2. /\ x \in AccessStates /\ x.at = "key" /\ x.op = op /\ x.key = k /\ x.user = apiKey[k].by
    BY <2>1 DEF NoAccess, AccessStates, KeyRows
  <2>3. access' = [access EXCEPT ![r] = x] /\ apiKey[k] # NoApiKey
    BY <1>5 DEF CallApi, Enter
  <2> HIDE DEF x
  <2>4. /\ access' \in [Requests -> AccessStates] /\ access'[r] = x
        /\ \A q \in Requests \ {r} : access'[q] = access[q]
    BY <2>2, <2>3, Entered DEF AccessInv
  <2>5. apiKey[k].status # "none"
    BY <2>3 DEF AccessInv, RowRule
  <2>6. Knows(r)'
    BY <1>1, <2>2, <2>4, <2>5, Operations
       DEF Knows, ActingRule, ImpersonateRule, ServingRule, WriteRule, Acting
  <2> QED
    BY <2>4, <2>6 DEF Told
<1> QED
  BY <1>2, <1>3, <1>4, <1>5 DEF Call

\* A request that ends, or is refused, has nothing left to know.
LEMMA Leaves ==
  ASSUME AccessTypeOK, NEW r \in Requests, Knows(r), Leave(r) \/ Refuse(r)
  PROVE  Told(r)
<1>1. CASE Leave(r)
  <2>1. /\ access' \in [Requests -> AccessStates] /\ access'[r] = NoAccess
        /\ \A q \in Requests \ {r} : access'[q] = access[q]
    BY <1>1, Entered, Operations DEF Leave
  <2>2. Knows(r)'
    BY <2>1, Resting, Operations
  <2> QED
    BY <2>1, <2>2 DEF Told
<1>2. CASE Refuse(r)
  <2> DEFINE x == [access[r] EXCEPT !.at = "record", !.op = "refused"]
  <2>1. x \in AccessStates /\ x.at = "record" /\ x.op = "refused"
    BY DEF AccessTypeOK, AccessStates
  <2>2. access' = [access EXCEPT ![r] = x]
    BY <1>2 DEF Refuse, AccessTypeOK
  <2> HIDE DEF x
  <2>3. /\ access' \in [Requests -> AccessStates] /\ access'[r] = x
        /\ \A q \in Requests \ {r} : access'[q] = access[q]
    BY <2>1, <2>2, Entered
  <2>4. Knows(r)'
    BY <2>1, <2>3, Resting
  <2> QED
    BY <2>3, <2>4 DEF Told
<1> QED
  BY <1>1, <1>2

\* A change is made by a request that goes on to its trail.
LEMMA ChangeKnows ==
  ASSUME AccessTypeOK, NEW r \in Requests, Knows(r), NEW x \in AccessStates,
         NEW s \in {"audit", "record"}, Changed(r, x, s),
         x.op = access[r].op, x.caller = access[r].caller, x.subject = access[r].subject
  PROVE  Told(r)
<1> DEFINE y == [x EXCEPT !.at = s]
<1>1. y \in AccessStates /\ y.at = s
  BY DEF AccessStates
<1>2. y.op = x.op /\ y.caller = x.caller /\ y.subject = x.subject
  BY DEF AccessStates
<1>3. access' = [access EXCEPT ![r] = y]
  BY DEF Changed
<1> HIDE DEF y
<1>4. /\ access' \in [Requests -> AccessStates] /\ access'[r] = y
      /\ \A q \in Requests \ {r} : access'[q] = access[q]
  BY <1>1, <1>3, Entered
<1>5. Knows(r)'
  BY <1>1, <1>2, <1>4, Resting
<1> QED
  BY <1>4, <1>5 DEF Told

\* What a request is shown while the members stay is held.
LEMMA ShownHeld ==
  ASSUME Watch, UNCHANGED vars, UNCHANGED <<apiKey, imp>>, NEW r \in Requests, Watched(r)',
         access'[r].op = access[r].op
  PROVE  /\ \A u \in {access'[r].caller, access'[r].user} \cap Users :
              Allowed(u, Needed(access[r].op)) => Has(r, "right", u)'
         /\ access'[r].subject \in Users /\ Member(access'[r].subject)
            => Has(r, "member", access[r].subject)'
         /\ access'[r].key \in ApiKeys /\ apiKey[access'[r].key].status = "live"
            => Has(r, "key", access[r].key)'
         /\ access'[r].imp \in Impersonations /\ imp[access'[r].imp].status = "active"
            => Has(r, "imp", access[r].imp)'
<1>1. Holds(r)' \subseteq held'[r]
  BY HeldGrows
<1>2. \A u, p : Allowed(u, p)' <=> Allowed(u, p)
  BY DEF vars, memberVars, Allowed, PermissionsOf
<1>3. \A u : Member(u)' <=> Member(u)
  BY DEF vars, memberVars, Member
<1>4. {access'[r].caller, access'[r].user} \subseteq Principals(r)'
  BY DEF Principals
<1>5. ASSUME NEW u \in {access'[r].caller, access'[r].user} \cap Users,
             Allowed(u, Needed(access[r].op))
      PROVE  Has(r, "right", u)'
  <2>1. Allowed(u, Needed(access[r].op))'
    BY <1>2, <1>5
  <2>2. <<"right", u>> \in Holds(r)'
    BY <2>1, <1>4 DEF Holds
  <2> QED
    BY <2>2, <1>1 DEF Has
<1>6. ASSUME access'[r].subject \in Users, Member(access'[r].subject)
      PROVE  Has(r, "member", access[r].subject)'
  BY <1>1, <1>3, <1>6 DEF Holds, Has
<1>7. ASSUME access'[r].key \in ApiKeys, apiKey[access'[r].key].status = "live"
      PROVE  Has(r, "key", access[r].key)'
  BY <1>1, <1>7 DEF Holds, Has
<1>8. ASSUME access'[r].imp \in Impersonations, imp[access'[r].imp].status = "active"
      PROVE  Has(r, "imp", access[r].imp)'
  BY <1>1, <1>8 DEF Holds, Has
<1> QED
  BY <1>5, <1>6, <1>7, <1>8

\* The checks of a server action.
LEMMA ReadImpersonationKnows ==
  ASSUME AccessInv, Watch, UNCHANGED vars, UNCHANGED <<apiKey, imp>>, NEW r \in Requests,
         ReadImpersonation(r)
  PROVE  Told(r)
<1> DEFINE a == access[r]
           v == IF Impersonating(a.imp, a.caller) THEN imp[a.imp].subject ELSE a.caller
           x == [a EXCEPT !.at = "context", !.user = v]
<1>1. /\ a \in AccessStates /\ a.at = "session" /\ Acting(r) /\ a.imp \in Impersonations
      /\ a.caller \in Users /\ a.op \notin ApiOps \cup {"impersonate", "refused", "end"}
  BY Operations DEF AccessInv, AccessTypeOK, Knows, ActingRule, ReadImpersonation, AccessAt, Acting
<1>2. v \in Users
  BY <1>1 DEF AccessInv, RowRule, Impersonating
<1>3. /\ x \in AccessStates /\ x.at = "context" /\ x.op = a.op /\ x.caller = a.caller /\ x.user = v
      /\ x.imp = a.imp /\ x.key = a.key /\ x.subject = a.subject
  BY <1>1, <1>2 DEF AccessStates
<1>4. access' = [access EXCEPT ![r] = x]
  BY DEF ReadImpersonation, AccessInv, AccessTypeOK
<1>5. v # a.caller => imp[a.imp].status = "active" /\ imp[a.imp].actor = a.caller
                       /\ imp[a.imp].subject = v
  BY DEF Impersonating
<1> HIDE DEF a, v, x
<1>6. /\ access' \in [Requests -> AccessStates] /\ access'[r] = x
      /\ \A q \in Requests \ {r} : access'[q] = access[q]
  BY <1>3, <1>4, Entered DEF AccessInv
<1>7. Watched(r)'
  BY <1>1, <1>3, <1>6 DEF Watched, Ending, AccessAt, Asks
<1>8. imp[a.imp].status = "active" => <<"imp", a.imp>> \in held'[r]
  BY <1>1, <1>3, <1>6, <1>7, ShownHeld DEF a, Has
<1>9. Acting(r)'
  BY <1>1, <1>3, <1>6 DEF Acting, a
<1>10. ActsFor(r)'
  BY <1>1, <1>3, <1>5, <1>6, <1>8 DEF ActsFor, Has
<1>11. Holds(r)' \subseteq held'[r]
  BY <1>7, HeldGrows
<1>12. Knows(r)'
  BY <1>1, <1>2, <1>3, <1>6, <1>9, <1>10, <1>11
     DEF Knows, ActingRule, ImpersonateRule, ServingRule, WriteRule
<1> QED
  BY <1>6, <1>12 DEF Told

LEMMA MemberChecksKnow ==
  ASSUME AccessInv, Watch, UNCHANGED vars, UNCHANGED <<apiKey, imp>>, NEW r \in Requests,
         EnterContext(r) \/ CheckMember(r)
  PROVE  Told(r)
<1> DEFINE a == access[r]
<1>1. /\ AccessTypeOK /\ Knows(r) /\ a.at \in {"context", "check"} /\ Acting(r)
      /\ a.op \notin ApiOps \cup {"impersonate", "refused", "end"}
      /\ a.caller \in Users /\ a.user \in Users /\ ActsFor(r)
  BY Operations DEF AccessInv, Knows, ActingRule, EnterContext, CheckMember, AccessAt, Acting
<1>2. CASE Leave(r)
  BY <1>1, <1>2, Leaves
<1>3. ASSUME NEW s \in {"check", "write"}, Move(r, s), Allowed(a.user, Needed(a.op))
      PROVE  Told(r)
  <2>1. /\ access' \in [Requests -> AccessStates] /\ access'[r].at = s /\ access'[r].op = a.op
        /\ access'[r].caller = a.caller /\ access'[r].user = a.user /\ access'[r].imp = a.imp
        /\ \A q \in Requests \ {r} : access'[q] = access[q]
    BY <1>1, <1>3, MovedOn
  <2>2. Watched(r)'
    BY <1>1, <2>1 DEF Watched, Ending, AccessAt, Asks
  <2>3. Has(r, "right", a.user)'
    BY <1>1, <1>3, <2>1, <2>2, ShownHeld
  <2>4. held[r] \subseteq held'[r] /\ Holds(r)' \subseteq held'[r]
    BY <2>2, HeldGrows
  <2>5. ActsFor(r)'
    BY <1>1, <2>1, <2>4 DEF ActsFor, Has
  <2>6. Acting(r)'
    BY <1>1, <2>1 DEF Acting
  <2>7. Knows(r)'
    BY <1>1, <2>1, <2>3, <2>4, <2>5, <2>6
       DEF Knows, ActingRule, ImpersonateRule, ServingRule, WriteRule
  <2> QED
    BY <2>1, <2>7 DEF Told
<1> QED
  BY <1>2, <1>3 DEF EnterContext, CheckMember

\* The checks before an impersonation.
LEMMA ImpersonateChecksKnow ==
  ASSUME AccessInv, Watch, UNCHANGED vars, UNCHANGED <<apiKey, imp>>, NEW r \in Requests,
         CheckActor(r) \/ CheckSubject(r)
  PROVE  Told(r)
<1> DEFINE a == access[r]
<1>1. /\ AccessTypeOK /\ Knows(r) /\ a.at \in {"actor", "subject"} /\ a.op = "impersonate"
      /\ a.op \notin ApiOps \cup {"refused"} /\ ~Acting(r)
      /\ a.caller \in Users /\ a.subject \in Users
  BY Operations DEF AccessInv, Knows, ImpersonateRule, CheckActor, CheckSubject, AccessAt, Acting
<1>2. CASE Leave(r)
  BY <1>1, <1>2, Leaves
<1>3. ASSUME NEW s \in {"subject", "write"}, Move(r, s)
      PROVE  /\ access' \in [Requests -> AccessStates] /\ access'[r].at = s /\ access'[r].op = a.op
             /\ access'[r].caller = a.caller /\ access'[r].subject = a.subject
             /\ \A q \in Requests \ {r} : access'[q] = access[q]
             /\ Watched(r)' /\ held[r] \subseteq held'[r] /\ Holds(r)' \subseteq held'[r]
  <2>1. /\ access' \in [Requests -> AccessStates] /\ access'[r].at = s /\ access'[r].op = a.op
        /\ access'[r].caller = a.caller /\ access'[r].subject = a.subject
        /\ \A q \in Requests \ {r} : access'[q] = access[q]
    BY <1>1, <1>3, MovedOn
  <2>2. Watched(r)'
    BY <1>1, <2>1 DEF Watched, Ending, AccessAt, Asks
  <2> QED
    BY <2>1, <2>2, HeldGrows
<1>4. ASSUME CheckActor(r), Move(r, "subject"), a.caller \in Operators \/ Allowed(a.caller, Needed(a.op))
      PROVE  Told(r)
  <2>1. /\ access' \in [Requests -> AccessStates] /\ access'[r].at = "subject"
        /\ access'[r].op = a.op
        /\ access'[r].caller = a.caller /\ access'[r].subject = a.subject
        /\ \A q \in Requests \ {r} : access'[q] = access[q]
        /\ Watched(r)' /\ Holds(r)' \subseteq held'[r]
    BY <1>3, <1>4
  <2>2. a.caller \in Operators \/ Has(r, "right", a.caller)'
    BY <1>1, <1>4, <2>1, ShownHeld
  <2>3. Knows(r)'
    BY <1>1, <2>1, <2>2, Operations
       DEF Knows, ActingRule, ImpersonateRule, ServingRule, WriteRule, Acting
  <2> QED
    BY <2>1, <2>3 DEF Told
<1>5. ASSUME CheckSubject(r), Move(r, "write"), Member(a.subject)
      PROVE  Told(r)
  <2>1. /\ access' \in [Requests -> AccessStates] /\ access'[r].at = "write"
        /\ access'[r].op = a.op
        /\ access'[r].caller = a.caller /\ access'[r].subject = a.subject
        /\ \A q \in Requests \ {r} : access'[q] = access[q]
        /\ Watched(r)' /\ held[r] \subseteq held'[r] /\ Holds(r)' \subseteq held'[r]
    BY <1>3, <1>5
  <2>2. Has(r, "member", a.subject)'
    BY <1>1, <1>5, <2>1, ShownHeld
  <2>3. a.caller \in Operators \/ Has(r, "right", a.caller)
    BY <1>1, <1>5 DEF CheckSubject, AccessAt, Knows, ImpersonateRule
  <2>4. Knows(r)'
    BY <1>1, <2>1, <2>2, <2>3, Operations
       DEF Knows, ActingRule, ImpersonateRule, ServingRule, WriteRule, Acting, Has
  <2> QED
    BY <2>1, <2>4 DEF Told
<1>6. Needed(a.op) = "impersonation.start"
  BY <1>1, Operations DEF Needed, Settings
<1> QED
  BY <1>1, <1>2, <1>4, <1>5, <1>6 DEF CheckActor, CheckSubject

\* The checks of a request with a key.
LEMMA KeyChecksKnow ==
  ASSUME AccessInv, Watch, UNCHANGED vars, UNCHANGED <<apiKey, imp>>, NEW r \in Requests,
         AuthenticateKey(r) \/ OwnerActive(r) \/ AuthoriseTenant(r)
  PROVE  Told(r)
<1> DEFINE a == access[r]
<1>1. /\ AccessTypeOK /\ Knows(r) /\ a.at \in {"key", "owner", "authorise"} /\ a.op \in ApiOps
      /\ a.op \notin {"none", "impersonate", "refused", "end"} /\ ~Acting(r)
      /\ a.key \in ApiKeys /\ apiKey[a.key].status # "none" /\ a.user = apiKey[a.key].by
  BY Operations
     DEF AccessInv, Knows, ServingRule, AuthenticateKey, OwnerActive, AuthoriseTenant, AccessAt, Acting
<1>2. a.user \in Users
  BY <1>1 DEF AccessInv, RowRule, NoApiKey
<1>3. CASE Refuse(r)
  BY <1>1, <1>3, Leaves
<1>4. ASSUME NEW s \in {"owner", "authorise", "serve"}, Move(r, s)
      PROVE  /\ access' \in [Requests -> AccessStates] /\ access'[r].at = s /\ access'[r].op = a.op
             /\ access'[r].user = a.user /\ access'[r].key = a.key
             /\ \A q \in Requests \ {r} : access'[q] = access[q]
             /\ Watched(r)' /\ held[r] \subseteq held'[r] /\ Holds(r)' \subseteq held'[r]
             /\ ~Acting(r)'
  <2>1. /\ access' \in [Requests -> AccessStates] /\ access'[r].at = s /\ access'[r].op = a.op
        /\ access'[r].user = a.user /\ access'[r].key = a.key
        /\ \A q \in Requests \ {r} : access'[q] = access[q]
    BY <1>1, <1>4, MovedOn
  <2>2. Watched(r)' /\ ~Acting(r)'
    BY <1>1, <2>1 DEF Watched, Ending, AccessAt, Asks, Acting
  <2> QED
    BY <2>1, <2>2, HeldGrows
<1>5. ASSUME NEW s \in {"owner", "authorise"}, Move(r, s), Has(r, "key", a.key) \/ KeyUsable(a.key)
      PROVE  Told(r)
  <2>1. /\ access' \in [Requests -> AccessStates] /\ access'[r].at = s /\ access'[r].op = a.op
        /\ access'[r].user = a.user /\ access'[r].key = a.key
        /\ \A q \in Requests \ {r} : access'[q] = access[q]
        /\ Watched(r)' /\ held[r] \subseteq held'[r] /\ Holds(r)' \subseteq held'[r]
        /\ ~Acting(r)'
    BY <1>4, <1>5
  <2>2. <<"key", a.key>> \in held'[r]
    BY <1>1, <1>5, <2>1, ShownHeld DEF Has, KeyUsable
  <2>3. Knows(r)'
    BY <1>1, <2>1, <2>2 DEF Knows, ActingRule, ImpersonateRule, ServingRule, WriteRule, Has
  <2> QED
    BY <2>1, <2>3 DEF Told
<1>6. CASE AuthenticateKey(r)
  BY <1>3, <1>5, <1>6 DEF AuthenticateKey
<1>7. CASE OwnerActive(r)
  <2>1. Has(r, "key", a.key)
    BY <1>1, <1>7 DEF OwnerActive, AccessAt, Knows, ServingRule
  <2> QED
    BY <2>1, <1>3, <1>5, <1>7 DEF OwnerActive
<1>8. ASSUME AuthoriseTenant(r), Move(r, "serve"),
             Sufficient(apiKey[a.key].scopes, ScopeFor(a.op)),
             apiKey[a.key].tenant \/ Allowed(a.user, Needed(a.op))
      PROVE  Told(r)
  <2>1. /\ access' \in [Requests -> AccessStates] /\ access'[r].at = "serve" /\ access'[r].op = a.op
        /\ access'[r].user = a.user /\ access'[r].key = a.key
        /\ \A q \in Requests \ {r} : access'[q] = access[q]
        /\ Watched(r)' /\ held[r] \subseteq held'[r] /\ Holds(r)' \subseteq held'[r]
        /\ ~Acting(r)'
    BY <1>4, <1>8
  <2>2. <<"key", a.key>> \in held'[r]
    BY <1>1, <1>8, <2>1 DEF AuthoriseTenant, AccessAt, Knows, ServingRule, Has
  <2>3. apiKey[a.key].tenant \/ <<"right", a.user>> \in held'[r]
    BY <1>2, <1>8, <2>1, ShownHeld DEF Has
  <2>4. Knows(r)'
    BY <1>1, <1>8, <2>1, <2>2, <2>3
       DEF Knows, ActingRule, ImpersonateRule, ServingRule, WriteRule, Has
  <2> QED
    BY <2>1, <2>4 DEF Told
<1>9. CASE AuthoriseTenant(r)
  BY <1>3, <1>8, <1>9 DEF AuthoriseTenant
<1> QED
  BY <1>6, <1>7, <1>9

\* A statement that leaves the keys and the impersonations as they are.
LEMMA RowsStay == UNCHANGED <<apiKey, imp>> => RowsKept
BY DEF RowsKept

\* A change that the request is justified in leaves the rest of them so.
LEMMA StillJustified ==
  ASSUME AccessJustified, NEW r \in Requests, NEW x, NEW s, Changed(r, x, s), Justified(r)
  PROVE  AccessJustified'
BY DEF AccessJustified, Changed

\* What one step of a request leaves true of the rows and of that request.
Acted(r) ==
  /\ Told(r) /\ RowsKept /\ RowRule' /\ AccessJustified'
  /\ apiKey' \in [ApiKeys -> KeyRows] /\ imp' \in [Impersonations -> ImpersonationRows]
  /\ endpoint' \in [Endpoints -> Users \cup {NoUser}] /\ tested' \subseteq Endpoints
  /\ setting' \in [Settings -> Users \cup {NoUser}]

\* A step that only reads.
LEMMA ReadActs ==
  ASSUME AccessInv, NEW r \in Requests, Told(r), UNCHANGED accessRows, UNCHANGED unjustified
  PROVE  Acted(r)
<1>1. UNCHANGED <<apiKey, imp, endpoint, tested, setting>>
  BY DEF accessRows
<1>2. RowRule'
  BY <1>1 DEF AccessInv, RowRule
<1> QED
  BY <1>1, <1>2, RowsStay DEF AccessInv, AccessTypeOK, Acted, AccessJustified

\* The statements of a server action.
LEMMA SettingActs ==
  ASSUME AccessInv, NEW r \in Requests, NEW x \in Settings, Stored(r, x)
  PROVE  Acted(r)
<1>1. /\ AccessTypeOK /\ AccessJustified /\ RowRule /\ Knows(r) /\ access[r].at = "write"
      /\ access[r].op = x /\ Changed(r, access[r], "audit")
      /\ UNCHANGED <<apiKey, imp, endpoint, tested>> /\ access[r] \in AccessStates
  BY DEF AccessInv, AccessTypeOK, Stored, AccessAt, Asks
<1>2. x # "end"
  BY Operations
<1>3. Justified(r)
  BY <1>1, <1>2, JustifiedNow
<1>4. Told(r)
  BY <1>1, ChangeKnows
<1>5. AccessJustified'
  BY <1>1, <1>3, StillJustified
<1>6. setting' \in [Settings -> Users \cup {NoUser}]
  BY <1>1 DEF Stored, AccessTypeOK, AccessStates
<1>7. RowRule' /\ RowsKept
  BY <1>1, RowsStay DEF RowRule
<1> QED
  BY <1>1, <1>4, <1>5, <1>6, <1>7 DEF Acted, AccessTypeOK

LEMMA InsertKeyActs ==
  ASSUME AccessInv, NEW r \in Requests, NEW k \in ApiKeys, NEW scopes \in KeyScopes,
         InsertKey(r, k, scopes)
  PROVE  Acted(r)
<1> DEFINE a == access[r]
           x == [a EXCEPT !.key = k]
           row == [status |-> "live", tenant |-> TRUE, scopes |-> scopes, by |-> a.user]
<1>1. /\ AccessTypeOK /\ AccessJustified /\ RowRule /\ Knows(r) /\ a.at = "write"
      /\ a.op = "create key" /\ UNCHANGED <<imp, endpoint, tested, setting>> /\ a \in AccessStates
      /\ apiKey[k] = NoApiKey
  BY DEF AccessInv, AccessTypeOK, InsertKey, AccessAt, Asks
<1>2. /\ x \in AccessStates /\ x.op = a.op /\ x.caller = a.caller /\ x.subject = a.subject
  BY <1>1 DEF AccessStates
<1>3. a.user \in Users
  BY <1>1 DEF Knows, ActingRule, Acting
<1>4. row \in KeyRows /\ row.status = "live" /\ row.by = a.user
  BY <1>3 DEF KeyRows
<1>5. apiKey' = [apiKey EXCEPT ![k] = row] /\ Changed(r, x, "audit")
  BY DEF InsertKey
<1> HIDE DEF x, row
<1>6. Justified(r)
  BY <1>1, JustifiedNow
<1>7. Told(r)
  BY <1>1, <1>2, <1>5, ChangeKnows
<1>8. AccessJustified'
  BY <1>1, <1>5, <1>6, StillJustified
<1>9. apiKey' \in [ApiKeys -> KeyRows]
  BY <1>1, <1>4, <1>5 DEF AccessTypeOK
<1>10. RowRule'
  BY <1>1, <1>3, <1>4, <1>5 DEF AccessTypeOK, RowRule
<1>11. apiKey[k].status = "none" /\ \A j \in ApiKeys \ {k} : apiKey'[j] = apiKey[j]
  <2>1. NoApiKey.status = "none"
    BY DEF NoApiKey
  <2> QED
    BY <1>1, <1>5, <2>1 DEF AccessTypeOK
<1>12. RowsKept
  BY <1>1, <1>11 DEF RowsKept
<1> QED
  BY <1>1, <1>7, <1>8, <1>9, <1>10, <1>12 DEF Acted, AccessTypeOK

LEMMA RevokeKeyActs ==
  ASSUME AccessInv, NEW r \in Requests, RevokeKey(r)
  PROVE  Acted(r)
<1> DEFINE a == access[r]
           k == a.key
<1>1. /\ AccessTypeOK /\ AccessJustified /\ RowRule /\ Knows(r) /\ a.at = "write"
      /\ a.op = "revoke key" /\ UNCHANGED <<imp, endpoint, tested, setting>> /\ a \in AccessStates
  BY DEF AccessInv, AccessTypeOK, RevokeKey, AccessAt, Asks
<1>2. CASE UNCHANGED <<apiKey, unjustified>> /\ Leave(r)
  BY <1>1, <1>2, Leaves, ReadActs DEF accessRows
<1>3. CASE /\ apiKey[k].status \in {"live", "expired"}
           /\ apiKey' = [apiKey EXCEPT ![k].status = "revoked"] /\ Changed(r, access[r], "audit")
  <2>1. Justified(r) /\ Told(r)
    BY <1>1, <1>3, JustifiedNow, ChangeKnows
  <2>2. AccessJustified'
    BY <1>1, <1>3, <2>1, StillJustified
  <2> DEFINE row(j) == [apiKey[j] EXCEPT !.status = "revoked"]
  <2>3. \A j \in ApiKeys : /\ row(j) \in KeyRows /\ row(j).status = "revoked"
                           /\ row(j).by = apiKey[j].by /\ row(j).tenant = apiKey[j].tenant
                           /\ row(j).scopes = apiKey[j].scopes
    BY <1>1 DEF AccessTypeOK, KeyRows
  <2>4. apiKey' = [apiKey EXCEPT ![k] = row(k)]
    BY <1>3
  <2> HIDE DEF row
  <2>5. apiKey' \in [ApiKeys -> KeyRows]
    BY <1>1, <2>3, <2>4 DEF AccessTypeOK
  <2>6. \A j \in ApiKeys : /\ apiKey'[j].by = apiKey[j].by /\ apiKey'[j].tenant = apiKey[j].tenant
                           /\ apiKey'[j].scopes = apiKey[j].scopes
                           /\ apiKey'[j] = apiKey[j]
                              \/ (apiKey[j].status # "none" /\ apiKey'[j].status # "none")
    <3> SUFFICES ASSUME NEW j \in ApiKeys
                 PROVE  /\ apiKey'[j].by = apiKey[j].by /\ apiKey'[j].tenant = apiKey[j].tenant
                        /\ apiKey'[j].scopes = apiKey[j].scopes
                        /\ apiKey'[j] = apiKey[j]
                           \/ (apiKey[j].status # "none" /\ apiKey'[j].status # "none")
      OBVIOUS
    <3>1. CASE j = k
      BY <1>1, <1>3, <2>3, <2>4, <3>1 DEF AccessTypeOK
    <3>2. CASE j # k
      BY <1>1, <2>4, <3>2 DEF AccessTypeOK
    <3> QED
      BY <3>1, <3>2
  <2>7. RowsKept
    BY <1>1, <2>6 DEF RowsKept
  <2>8. NoApiKey.status = "none"
    BY DEF NoApiKey
  <2>9. RowRule'
    BY <1>1, <2>6, <2>8 DEF RowRule
  <2> QED
    BY <1>1, <2>1, <2>2, <2>5, <2>7, <2>9 DEF Acted, AccessTypeOK
<1> QED
  BY <1>2, <1>3 DEF RevokeKey

LEMMA StartActs ==
  ASSUME AccessInv, NEW r \in Requests, NEW i \in Impersonations, StartImpersonation(r, i)
  PROVE  Acted(r)
<1> DEFINE a == access[r]
           x == [a EXCEPT !.imp = i]
           row == [status |-> "active", actor |-> a.caller, subject |-> a.subject]
<1>1. /\ AccessTypeOK /\ AccessJustified /\ RowRule /\ Knows(r) /\ a.at = "write"
      /\ a.op = "impersonate" /\ UNCHANGED <<apiKey, endpoint, tested, setting>> /\ a \in AccessStates
      /\ imp[i] = NoImpersonation
  BY DEF AccessInv, AccessTypeOK, StartImpersonation, AccessAt, Asks
<1>2. /\ x \in AccessStates /\ x.op = a.op /\ x.caller = a.caller /\ x.subject = a.subject
  BY <1>1 DEF AccessStates
<1>3. a.caller \in Users /\ a.subject \in Users
  BY <1>1 DEF Knows, ImpersonateRule
<1>4. row \in ImpersonationRows /\ row.actor = a.caller /\ row.subject = a.subject
  BY <1>3 DEF ImpersonationRows
<1>5. imp' = [imp EXCEPT ![i] = row] /\ Changed(r, x, "audit")
  BY DEF StartImpersonation
<1> HIDE DEF x, row
<1>6. Justified(r)
  BY <1>1, JustifiedNow
<1>7. Told(r)
  BY <1>1, <1>2, <1>5, ChangeKnows
<1>8. AccessJustified'
  BY <1>1, <1>5, <1>6, StillJustified
<1>9. imp' \in [Impersonations -> ImpersonationRows]
  BY <1>1, <1>4, <1>5 DEF AccessTypeOK
<1>10. RowRule'
  BY <1>1, <1>3, <1>4, <1>5 DEF AccessTypeOK, RowRule
<1>11. RowsKept
  BY <1>1, <1>5 DEF AccessTypeOK, RowsKept, NoImpersonation
<1> QED
  BY <1>1, <1>7, <1>8, <1>9, <1>10, <1>11 DEF Acted, AccessTypeOK

LEMMA EndActs ==
  ASSUME AccessInv, NEW r \in Requests, EndImpersonation(r)
  PROVE  Acted(r)
<1> DEFINE a == access[r]
           i == a.imp
<1>1. /\ AccessTypeOK /\ AccessJustified /\ RowRule /\ Knows(r) /\ a.at = "write"
      /\ a.op = "end" /\ UNCHANGED <<apiKey, endpoint, tested, setting>> /\ a \in AccessStates
  BY DEF AccessInv, AccessTypeOK, EndImpersonation, AccessAt, Asks
<1>2. CASE UNCHANGED <<imp, unjustified>> /\ Leave(r)
  BY <1>1, <1>2, Leaves, ReadActs DEF accessRows
<1>3. CASE /\ imp[i].status \in {"active", "expired"} /\ imp[i].actor = access[r].caller
           /\ imp' = [imp EXCEPT ![i].status = "ended"] /\ Changed(r, access[r], "audit")
  <2>1. Told(r)
    BY <1>1, <1>3, ChangeKnows
  <2>2. Justified(r)
    BY <1>1, <1>3, Operations DEF Justified
  <2>3. AccessJustified'
    BY <1>1, <1>3, <2>2, StillJustified
  <2>4. imp' \in [Impersonations -> ImpersonationRows]
    BY <1>1, <1>3 DEF AccessTypeOK, ImpersonationRows
  <2>5. \A j \in Impersonations :
          /\ imp'[j].actor = imp[j].actor /\ imp'[j].subject = imp[j].subject
          /\ imp'[j] = imp[j] \/ (imp[j].status # "none" /\ imp'[j].status # "none")
    BY <1>1, <1>3 DEF AccessTypeOK, ImpersonationRows
  <2>6. RowsKept
    BY <1>1, <2>5 DEF RowsKept
  <2>7. RowRule'
    BY <1>1, <2>5 DEF RowRule
  <2> QED
    BY <1>1, <2>1, <2>3, <2>4, <2>6, <2>7 DEF Acted, AccessTypeOK
<1> QED
  BY <1>2, <1>3 DEF EndImpersonation

\* What is done for a key: a change, or a read that counts like one.
LEMMA ServeActs ==
  ASSUME AccessInv, NEW r \in Requests, AccessAt(r, "serve"), Changed(r, access[r], "record"),
         UNCHANGED <<apiKey, imp, setting>>,
         endpoint' \in [Endpoints -> Users \cup {NoUser}], tested' \subseteq Endpoints
  PROVE  Acted(r)
<1>1. /\ AccessTypeOK /\ AccessJustified /\ RowRule /\ Knows(r) /\ access[r] \in AccessStates
      /\ access[r].at = "serve"
  BY DEF AccessInv, AccessTypeOK, AccessAt
<1>2. Justified(r) /\ Told(r)
  BY <1>1, JustifiedNow, ChangeKnows
<1>3. AccessJustified'
  BY <1>1, <1>2, StillJustified
<1>4. RowRule' /\ RowsKept
  BY <1>1, RowsStay DEF RowRule
<1> QED
  BY <1>1, <1>2, <1>3, <1>4 DEF Acted, AccessTypeOK

\* The rows of the record, and the audit event, change no access.
LEMMA TrailActs ==
  ASSUME AccessInv, NEW r \in Requests, UNCHANGED accessRows, UNCHANGED unjustified,
         Leave(r) \/ Refuse(r) \/ RecordRequest(r)
  PROVE  Acted(r)
<1>1. AccessTypeOK /\ Knows(r)
  BY DEF AccessInv
<1>2. CASE Leave(r) \/ Refuse(r)
  BY <1>1, <1>2, Leaves, ReadActs
<1>3. CASE RecordRequest(r)
  <2>1. /\ access' \in [Requests -> AccessStates] /\ access'[r].at = "meter"
        /\ access'[r].op = access[r].op /\ access'[r].caller = access[r].caller
        /\ access'[r].subject = access[r].subject
        /\ \A q \in Requests \ {r} : access'[q] = access[q]
    BY <1>1, <1>3, MovedOn DEF RecordRequest
  <2>2. Knows(r)'
    BY <1>1, <2>1, Resting
  <2> QED
    BY <2>1, <2>2, ReadActs DEF Told
<1> QED
  BY <1>2, <1>3

\* Every step of a request.
LEMMA RequestActs ==
  ASSUME AccessInv, Watch, UNCHANGED vars, NEW r \in Requests,
         Call(r) \/ Act(r) \/ Serve(r) \/ DieInAccess(r)
  PROVE  Acted(r)
<1>1. AccessTypeOK
  BY DEF AccessInv
<1>2. CASE Call(r)
  <2>1. UNCHANGED accessRows /\ UNCHANGED unjustified
    BY <1>2 DEF Call, CallAction, CallImpersonate, CallEnd, CallApi, OnlyAccess
  <2>2. Told(r)
    BY <1>2, <2>1, CallKnows DEF accessRows
  <2> QED
    BY <2>1, <2>2, ReadActs
<1>3. CASE Act(r)
  <2>1. CASE ReadImpersonation(r) \/ EnterContext(r) \/ CheckMember(r) \/ CheckActor(r) \/ CheckSubject(r)
    <3>1. UNCHANGED accessRows /\ UNCHANGED unjustified
      BY <2>1 DEF ReadImpersonation, EnterContext, CheckMember, CheckActor, CheckSubject, OnlyAccess
    <3>2. UNCHANGED <<apiKey, imp>>
      BY <3>1 DEF accessRows
    <3>3. Told(r)
      BY <2>1, <3>2, ReadImpersonationKnows, MemberChecksKnow, ImpersonateChecksKnow
    <3> QED
      BY <3>1, <3>3, ReadActs
  <2>2. CASE UpdateOrganization(r) \/ UpdateFeatureFlag(r) \/ UpdateUsageLimit(r) \/ UpdateQuota(r)
    BY <2>2, SettingActs
       DEF UpdateOrganization, UpdateFeatureFlag, UpdateUsageLimit, UpdateQuota, Settings
  <2>3. CASE \E k \in ApiKeys, scopes \in KeyScopes : InsertKey(r, k, scopes)
    BY <2>3, InsertKeyActs
  <2>4. CASE \E i \in Impersonations : StartImpersonation(r, i)
    BY <2>4, StartActs
  <2>5. CASE AuditChange(r)
    BY <2>5, TrailActs DEF AuditChange
  <2> QED
    BY <1>3, <2>1, <2>2, <2>3, <2>4, <2>5, RevokeKeyActs, EndActs DEF Act
<1>4. CASE Serve(r)
  <2>1. CASE AuthenticateKey(r) \/ OwnerActive(r) \/ AuthoriseTenant(r)
    <3>1. UNCHANGED accessRows /\ UNCHANGED unjustified
      BY <2>1 DEF AuthenticateKey, OwnerActive, AuthoriseTenant, OnlyAccess
    <3>2. UNCHANGED <<apiKey, imp>>
      BY <3>1 DEF accessRows
    <3>3. Told(r)
      BY <2>1, <3>2, KeyChecksKnow
    <3> QED
      BY <3>1, <3>3, ReadActs
  <2>2. ASSUME NEW e \in Endpoints, CreateEndpoint(r, e)
        PROVE  Acted(r)
    <3>1. access[r].user \in Users \cup {NoUser}
      BY <1>1 DEF AccessTypeOK, AccessStates
    <3>2. endpoint' \in [Endpoints -> Users \cup {NoUser}] /\ tested' \subseteq Endpoints
      BY <1>1, <2>2, <3>1 DEF CreateEndpoint, AccessTypeOK
    <3> QED
      BY <2>2, <3>2, ServeActs DEF CreateEndpoint
  <2>3. ASSUME NEW e \in Endpoints, TestEndpoint(r, e)
        PROVE  Acted(r)
    <3>1. endpoint' \in [Endpoints -> Users \cup {NoUser}] /\ tested' \subseteq Endpoints
      BY <1>1, <2>3 DEF TestEndpoint, AccessTypeOK
    <3> QED
      BY <2>3, <3>1, ServeActs DEF TestEndpoint
  <2>4. CASE EndpointMissing(r) \/ RecordRequest(r) \/ MeterRequest(r)
    BY <2>4, TrailActs DEF EndpointMissing, RecordRequest, MeterRequest, OnlyAccess
  <2>5. CASE \/ ListWebhookEndpoints(r) \/ ListOrganizationMembers(r) \/ ListEvents(r)
             \/ GetOrganization(r)
    <3>1. AccessAt(r, "serve") /\ Changed(r, access[r], "record") /\ UNCHANGED accessRows
      BY <2>5 DEF ListWebhookEndpoints, ListOrganizationMembers, ListEvents, GetOrganization, Listed
    <3>2. endpoint' \in [Endpoints -> Users \cup {NoUser}] /\ tested' \subseteq Endpoints
      BY <1>1, <3>1 DEF AccessTypeOK, accessRows
    <3> QED
      BY <3>1, <3>2, ServeActs DEF accessRows
  <2> QED
    BY <1>4, <2>1, <2>2, <2>3, <2>4, <2>5 DEF Serve
<1>5. CASE DieInAccess(r)
  BY <1>5, TrailActs DEF DieInAccess
<1> QED
  BY <1>2, <1>3, <1>4, <1>5

\* What happens to the rows alone: a token is created, a key or an impersonation ends.
Ages ==
  \/ \E u \in Users, k \in ApiKeys, scopes \in TokenScopes : CreateToken(u, k, scopes)
  \/ \E k \in ApiKeys : ExpireKey(k)
  \/ \E i \in Impersonations : ExpireImpersonation(i)
LEMMA RowsAge ==
  ASSUME AccessInv, Ages
  PROVE  /\ RowsKept /\ RowRule' /\ UNCHANGED <<endpoint, tested, setting, access, unjustified>>
         /\ apiKey' \in [ApiKeys -> KeyRows] /\ imp' \in [Impersonations -> ImpersonationRows]
<1>1. AccessTypeOK /\ RowRule
  BY DEF AccessInv
<1>2. NoApiKey.status = "none"
  BY DEF NoApiKey
<1>3. ASSUME NEW u \in Users, NEW k \in ApiKeys, NEW scopes \in TokenScopes, CreateToken(u, k, scopes)
      PROVE  RowsKept /\ RowRule' /\ apiKey' \in [ApiKeys -> KeyRows]
             /\ UNCHANGED <<imp, endpoint, tested, setting, access, unjustified>>
  <2> DEFINE row == [status |-> "live", tenant |-> FALSE, scopes |-> scopes, by |-> u]
  <2>1. row \in KeyRows /\ row.status = "live" /\ row.by = u
    BY DEF KeyRows
  <2>2. apiKey' = [apiKey EXCEPT ![k] = row] /\ apiKey[k].status = "none"
        /\ UNCHANGED <<imp, endpoint, tested, setting, access, unjustified>>
    BY <1>2, <1>3 DEF CreateToken
  <2> HIDE DEF row
  <2>3. apiKey' \in [ApiKeys -> KeyRows]
    BY <1>1, <2>1, <2>2 DEF AccessTypeOK
  <2>4. apiKey'[k] = row /\ \A j \in ApiKeys \ {k} : apiKey'[j] = apiKey[j]
    BY <1>1, <2>2 DEF AccessTypeOK
  <2>5. RowsKept
    BY <2>2, <2>4 DEF RowsKept
  <2>6. RowRule'
    BY <1>1, <2>1, <2>2, <2>4 DEF RowRule
  <2> QED
    BY <2>2, <2>3, <2>5, <2>6
<1>4. ASSUME NEW k \in ApiKeys, ExpireKey(k)
      PROVE  RowsKept /\ RowRule' /\ apiKey' \in [ApiKeys -> KeyRows]
             /\ UNCHANGED <<imp, endpoint, tested, setting, access, unjustified>>
  <2> DEFINE row == [apiKey[k] EXCEPT !.status = "expired"]
  <2>1. /\ row \in KeyRows /\ row.status = "expired" /\ row.by = apiKey[k].by
        /\ row.tenant = apiKey[k].tenant /\ row.scopes = apiKey[k].scopes
    BY <1>1 DEF AccessTypeOK, KeyRows
  <2>2. apiKey' = [apiKey EXCEPT ![k] = row] /\ apiKey[k].status = "live"
        /\ UNCHANGED <<imp, endpoint, tested, setting, access, unjustified>>
    BY <1>4 DEF ExpireKey
  <2> HIDE DEF row
  <2>3. apiKey' \in [ApiKeys -> KeyRows]
    BY <1>1, <2>1, <2>2 DEF AccessTypeOK
  <2>4. apiKey'[k] = row /\ \A j \in ApiKeys \ {k} : apiKey'[j] = apiKey[j]
    BY <1>1, <2>2 DEF AccessTypeOK
  <2>5. RowsKept
    BY <2>1, <2>2, <2>4 DEF RowsKept
  <2>6. RowRule'
    BY <1>1, <1>2, <2>1, <2>2, <2>4 DEF RowRule
  <2> QED
    BY <2>2, <2>3, <2>5, <2>6
<1>5. ASSUME NEW i \in Impersonations, ExpireImpersonation(i)
      PROVE  RowsKept /\ RowRule' /\ imp' \in [Impersonations -> ImpersonationRows]
             /\ UNCHANGED <<apiKey, endpoint, tested, setting, access, unjustified>>
  <2> DEFINE row == [imp[i] EXCEPT !.status = "expired"]
  <2>1. /\ row \in ImpersonationRows /\ row.status = "expired" /\ row.actor = imp[i].actor
        /\ row.subject = imp[i].subject
    BY <1>1 DEF AccessTypeOK, ImpersonationRows
  <2>2. imp' = [imp EXCEPT ![i] = row] /\ imp[i].status = "active"
        /\ UNCHANGED <<apiKey, endpoint, tested, setting, access, unjustified>>
    BY <1>5 DEF ExpireImpersonation
  <2> HIDE DEF row
  <2>3. imp' \in [Impersonations -> ImpersonationRows]
    BY <1>1, <2>1, <2>2 DEF AccessTypeOK
  <2>4. imp'[i] = row /\ \A j \in Impersonations \ {i} : imp'[j] = imp[j]
    BY <1>1, <2>2 DEF AccessTypeOK
  <2>5. RowsKept
    BY <2>1, <2>2, <2>4 DEF RowsKept
  <2>6. RowRule'
    BY <1>1, <2>1, <2>2, <2>4 DEF RowRule
  <2> QED
    BY <2>2, <2>3, <2>5, <2>6
<1> QED
  BY <1>1, <1>3, <1>4, <1>5 DEF Ages, AccessTypeOK

\* A member's operation leaves what requests did and hold to Watch.
LEMMA AccessStays ==
  ASSUME AccessInv, Watch, AccessTypeOK', RowRule', RowsKept, AccessJustified', UNCHANGED access
  PROVE  AccessInv'
<1>1. ASSUME NEW r \in Requests PROVE Knows(r)'
  BY <1>1, RestKnows DEF AccessInv
<1> QED
  BY <1>1 DEF AccessInv

LEMMA AccessInvariance == AccessSpec => []AccessInv
<1>1. AccessInit => AccessInv
  BY AccessInitially
<1>2. ASSUME AccessInv, [AccessNext]_<<vars, accessVars>> PROVE AccessInv'
  <2>1. CASE UNCHANGED <<vars, accessVars>>
    <3>1. UNCHANGED <<vars, apiKey, imp, endpoint, tested, setting, access, held, unjustified>>
      BY <2>1 DEF accessVars, accessRows
    <3>2. AccessTypeOK' /\ RowRule' /\ AccessJustified'
      BY <1>2, <3>1 DEF AccessInv, AccessTypeOK, RowRule, AccessJustified
    <3>3. \A u, p : Allowed(u, p)' <=> Allowed(u, p)
      BY <3>1 DEF vars, memberVars, Allowed, PermissionsOf
    <3>4. \A u : Member(u)' <=> Member(u)
      BY <3>1 DEF vars, memberVars, Member
    <3>5. ASSUME NEW r \in Requests PROVE Knows(r)'
      <4>1. Knows(r)
        BY <1>2 DEF AccessInv
      <4>2. Holds(r)' = Holds(r)
        BY <3>1, <3>3, <3>4 DEF Holds, Principals
      <4>3. WriteRule(r)'
        BY <3>1, <4>1, <4>2 DEF Knows, WriteRule, Watched, Acting, Ending, AccessAt, Asks
      <4>4. ActingRule(r)'
        BY <3>1, <4>1 DEF Knows, ActingRule, ActsFor, Acting, Has
      <4>5. ImpersonateRule(r)'
        BY <3>1, <4>1 DEF Knows, ImpersonateRule, Has
      <4>6. ServingRule(r)'
        BY <3>1, <4>1 DEF Knows, ServingRule, Has
      <4> QED
        BY <4>3, <4>4, <4>5, <4>6 DEF Knows
    <3> QED
      BY <3>2, <3>5 DEF AccessInv
  <2>2. ASSUME Watch, UNCHANGED vars, NEW r \in Requests,
               Call(r) \/ Act(r) \/ Serve(r) \/ DieInAccess(r)
        PROVE  AccessInv'
    <3>1. Acted(r)
      BY <1>2, <2>2, RequestActs
    <3>2. ASSUME NEW q \in Requests PROVE Knows(q)'
      BY <1>2, <2>2, <3>1, RestKnows DEF AccessInv, Acted, Told
    <3>3. AccessTypeOK'
      BY <3>1 DEF Acted, Told, AccessTypeOK
    <3> QED
      BY <3>1, <3>2, <3>3 DEF AccessInv, Acted
  <2>3. CASE Ages /\ Watch
    <3>1. RowsKept /\ RowRule' /\ AccessTypeOK' /\ AccessJustified' /\ UNCHANGED access
      BY <1>2, <2>3, RowsAge DEF AccessInv, AccessTypeOK, AccessJustified
    <3> QED
      BY <1>2, <2>3, <3>1, AccessStays
  <2>4. CASE UNCHANGED <<accessRows, access, unjustified>> /\ Watch
    <3>1. RowsKept /\ RowRule' /\ AccessTypeOK' /\ AccessJustified' /\ UNCHANGED access
      BY <1>2, <2>4, RowsStay DEF AccessInv, AccessTypeOK, AccessJustified, RowRule, accessRows
    <3> QED
      BY <1>2, <2>4, <3>1, AccessStays
  <2> QED
    BY <1>2, <2>1, <2>2, <2>3, <2>4 DEF AccessNext, AccessOrMembers, AccessStep, Ages
<1> QED
  BY <1>1, <1>2, PTL DEF AccessSpec

-----------------------------------------------------------------------------
(* TenantAccess: the trail, and what members still do *)

\* A request that ends has made the change that it tells of.
TrailInv ==
  /\ TrailTellsChanges
  /\ \A r \in Requests : Ending(r) => Change(r) \in changes
  /\ \A r \in Requests : access[r].at = "audit" => access[r].op # "refused"

\* A row says the same of a change as of the request that has just made it.
LEMMA RowOfDone ==
  ASSUME NEW x \in AccessStates
  PROVE  Row(Done(x)) = Row(x)
<1>1. Done(x).op = x.op /\ Done(x).caller = x.caller /\ Done(x).user = x.user /\ Done(x).imp = x.imp
      /\ Done(x).key = x.key
  BY DEF Done, AccessStates
<1> QED
  BY <1>1 DEF Row, OfImpersonation

\* A request that has nothing to tell, before or after its step.
LEMMA QuietTrail ==
  ASSUME TrailInv, NEW r \in Requests, ~Ending(r), ~Ending(r)', access'[r].at # "audit",
         \A q \in Requests \ {r} : access'[q] = access[q], UNCHANGED <<trail, changes, dropped>>
  PROVE  TrailInv'
<1>1. \A q \in Requests \ {r} : (Ending(q)' <=> Ending(q)) /\ Change(q)' = Change(q)
  BY DEF Ending, Asks, Change
<1>2. TrailTellsChanges'
  BY <1>1 DEF TrailInv, TrailTellsChanges
<1> QED
  BY <1>1, <1>2 DEF TrailInv

\* A request that makes a change is about to tell it.
LEMMA ChangeTrail ==
  ASSUME AccessTypeOK, TrailInv, NEW r \in Requests, ~Ending(r), NEW x \in AccessStates,
         NEW s \in {"audit", "record"}, Changed(r, x, s), x.op # "refused"
  PROVE  TrailInv'
<1> DEFINE y == [x EXCEPT !.at = s]
<1>1. y \in AccessStates /\ y.at = s /\ y.op = x.op /\ Done(y) = Done(x)
  BY DEF AccessStates, Done
<1>2. access' = [access EXCEPT ![r] = y] /\ changes' = changes \cup {Done(x)} /\ UNCHANGED <<trail, dropped>>
  BY DEF Changed
<1> HIDE DEF y
<1>3. access'[r] = y /\ \A q \in Requests \ {r} : access'[q] = access[q]
  BY <1>1, <1>2, Entered
<1>4. Ending(r)' /\ Change(r)' = Done(x)
  BY <1>1, <1>3 DEF Ending, Asks, Change
<1>5. \A q \in Requests \ {r} : (Ending(q)' <=> Ending(q)) /\ Change(q)' = Change(q)
  BY <1>3 DEF Ending, Asks, Change
<1>6. TrailTellsChanges'
  <2>1. ASSUME NEW z \in trail' PROVE \E c \in changes' : z = Row(c)
    BY <1>2, <2>1 DEF TrailInv, TrailTellsChanges
  <2>2. ASSUME NEW c \in changes'
        PROVE  Row(c) \in trail' \/ c \in dropped' \/ \E q \in Requests : Ending(q)' /\ Change(q)' = c
    BY <1>2, <1>4, <1>5, <2>2 DEF TrailInv, TrailTellsChanges
  <2> QED
    BY <2>1, <2>2 DEF TrailTellsChanges
<1> QED
  BY <1>1, <1>2, <1>3, <1>4, <1>5, <1>6 DEF TrailInv

\* A request that tells its change, and ends.
LEMMA TellTrail ==
  ASSUME AccessTypeOK, TrailInv, NEW r \in Requests, Ending(r), Leave(r),
         trail' = trail \cup {Row(access[r])}, UNCHANGED <<changes, dropped>>
  PROVE  TrailInv'
<1>1. access'[r] = NoAccess /\ \A q \in Requests \ {r} : access'[q] = access[q]
  BY DEF Leave, AccessTypeOK
<1>2. \A q \in Requests \ {r} : (Ending(q)' <=> Ending(q)) /\ Change(q)' = Change(q)
  BY <1>1 DEF Ending, Asks, Change
<1>3. Row(Change(r)) = Row(access[r]) /\ Change(r) \in changes
  BY RowOfDone DEF AccessTypeOK, Change, TrailInv
<1>4. ~Ending(r)' /\ access'[r].at # "audit"
  BY <1>1, Operations DEF Ending
<1>5. ASSUME NEW z \in trail' PROVE \E c \in changes' : z = Row(c)
  BY <1>3, <1>5 DEF TrailInv, TrailTellsChanges
<1>6. ASSUME NEW c \in changes'
      PROVE  Row(c) \in trail' \/ c \in dropped' \/ \E q \in Requests : Ending(q)' /\ Change(q)' = c
  BY <1>2, <1>3, <1>6 DEF TrailInv, TrailTellsChanges
<1>7. TrailTellsChanges'
  BY <1>5, <1>6 DEF TrailTellsChanges
<1> QED
  BY <1>1, <1>2, <1>4, <1>7 DEF TrailInv

\* A request that dies.
LEMMA DieTrail ==
  ASSUME AccessTypeOK, TrailInv, NEW r \in Requests, DieInAccess(r)
  PROVE  TrailInv'
<1>1. access'[r] = NoAccess /\ (\A q \in Requests \ {r} : access'[q] = access[q])
      /\ UNCHANGED <<trail, changes>> /\ dropped \subseteq dropped'
      /\ (Ending(r) => Change(r) \in dropped')
  BY DEF DieInAccess, Leave, AccessTypeOK
<1>2. \A q \in Requests \ {r} : (Ending(q)' <=> Ending(q)) /\ Change(q)' = Change(q)
  BY <1>1 DEF Ending, Asks, Change
<1>3. ~Ending(r)' /\ access'[r].at # "audit"
  BY <1>1, Operations DEF Ending
<1>4. ASSUME NEW z \in trail' PROVE \E c \in changes' : z = Row(c)
  BY <1>1, <1>4 DEF TrailInv, TrailTellsChanges
<1>5. ASSUME NEW c \in changes'
      PROVE  Row(c) \in trail' \/ c \in dropped' \/ \E q \in Requests : Ending(q)' /\ Change(q)' = c
  BY <1>1, <1>2, <1>5 DEF TrailInv, TrailTellsChanges
<1>6. TrailTellsChanges'
  BY <1>4, <1>5 DEF TrailTellsChanges
<1> QED
  BY <1>1, <1>2, <1>3, <1>6 DEF TrailInv

\* A request that has recorded its answer still has to meter it.
LEMMA RecordTrail ==
  ASSUME AccessTypeOK, TrailInv, NEW r \in Requests, RecordRequest(r)
  PROVE  TrailInv'
<1> DEFINE y == [access[r] EXCEPT !.at = "meter"]
<1>1. y.at = "meter" /\ y.op = access[r].op /\ Done(y) = Done(access[r]) /\ y \in AccessStates
      /\ access[r].at = "record"
  <2>1. access[r] \in AccessStates /\ access[r].at = "record"
    BY DEF AccessTypeOK, RecordRequest, AccessAt
  <2>2. y.at = "meter" /\ y.op = access[r].op /\ y \in AccessStates
    BY <2>1 DEF AccessStates
  <2>3. Done(y) = Done(access[r])
    BY <2>1 DEF AccessStates, Done
  <2> QED
    BY <2>1, <2>2, <2>3
<1>2. access' = [access EXCEPT ![r] = y] /\ UNCHANGED <<trail, changes, dropped>>
  BY DEF RecordRequest, Move, OnlyAccess, AccessTypeOK
<1> HIDE DEF y
<1>3. access'[r] = y /\ \A q \in Requests \ {r} : access'[q] = access[q]
  BY <1>1, <1>2, Entered
<1>4. \A q \in Requests : (Ending(q)' <=> Ending(q)) /\ Change(q)' = Change(q)
  BY <1>1, <1>3 DEF Ending, Asks, Change
<1>5. TrailTellsChanges'
  BY <1>2, <1>4 DEF TrailInv, TrailTellsChanges
<1> QED
  BY <1>1, <1>2, <1>3, <1>4, <1>5 DEF TrailInv

\* The steps before a change, and those that refuse.
LEMMA EarlierTrail ==
  ASSUME AccessInv, TrailInv, NEW r \in Requests,
         NEW s \in {"context", "check", "write", "subject", "owner", "authorise", "serve"},
         \/ Free(r) /\ access'[r].at \notin {"none", "audit", "record", "meter"}
         \/ ~Ending(r) /\ access[r].at # "audit" /\ (Leave(r) \/ Refuse(r) \/ Move(r, s)),
         \A q \in Requests \ {r} : access'[q] = access[q], UNCHANGED <<trail, changes, dropped>>
  PROVE  TrailInv'
<1>1. AccessTypeOK
  BY DEF AccessInv
<1>2. CASE Free(r) /\ access'[r].at \notin {"none", "audit", "record", "meter"}
  <2>1. ~Ending(r) /\ ~Ending(r)'
    BY <1>2, Operations DEF Free, Ending
  <2> QED
    BY <1>2, <2>1, QuietTrail
<1>3. CASE ~Ending(r) /\ Leave(r)
  <2>1. access'[r] = NoAccess
    BY <1>1, <1>3 DEF Leave, AccessTypeOK
  <2>2. access'[r].at = "none" /\ ~Ending(r)'
    BY <2>1, Operations DEF Ending
  <2> QED
    BY <1>3, <2>2, QuietTrail
<1>4. CASE ~Ending(r) /\ Refuse(r)
  <2> DEFINE x == [access[r] EXCEPT !.at = "record", !.op = "refused"]
  <2>1. x \in AccessStates /\ x.at = "record" /\ x.op = "refused"
    BY <1>1 DEF AccessTypeOK, AccessStates
  <2>2. access' = [access EXCEPT ![r] = x]
    BY <1>1, <1>4 DEF Refuse, AccessTypeOK
  <2> HIDE DEF x
  <2>3. access'[r].at = "record" /\ access'[r].op = "refused"
    BY <1>1, <2>1, <2>2, Entered
  <2> QED
    BY <1>4, <2>3, QuietTrail DEF Ending, Asks
<1>5. CASE ~Ending(r) /\ Move(r, s)
  <2>1. access'[r].at = s
    BY <1>1, <1>5, MovedOn
  <2> QED
    BY <1>5, <2>1, QuietTrail DEF Ending
<1> QED
  BY <1>2, <1>3, <1>4, <1>5

\* Where a request is before each of its steps.
LEMMA TrailStep ==
  ASSUME AccessInv, Watch, UNCHANGED vars, TrailInv, NEW r \in Requests,
         Call(r) \/ Act(r) \/ Serve(r) \/ DieInAccess(r)
  PROVE  TrailInv'
<1>1. AccessTypeOK /\ Knows(r) /\ access[r] \in AccessStates
  BY DEF AccessInv, AccessTypeOK
<1>2. \A q \in Requests \ {r} : access'[q] = access[q]
  BY RequestActs DEF Acted, Told
<1>3. access[r].at \notin {"audit", "record", "meter"} => ~Ending(r)
  BY DEF Ending
<1>4. CASE Call(r)
  <2>1. Free(r) /\ UNCHANGED <<trail, changes, dropped>>
    BY <1>4 DEF Call, CallAction, CallImpersonate, CallEnd, CallApi, OnlyAccess
  <2>2. ASSUME NEW x, access' = [access EXCEPT ![r] = x] PROVE access'[r] = x
    BY <1>1, <2>2 DEF AccessTypeOK
  <2>3. ASSUME NEW u \in Users, NEW i \in Impersonations \cup {Nothing}, NEW k \in ApiKeys \cup {Nothing},
               NEW op \in Settings \cup {"create key", "revoke key"}, CallAction(r, u, i, op, k)
        PROVE  access'[r].at \notin {"none", "audit", "record", "meter"}
    <3>1. access'[r] = [NoAccess EXCEPT !.at = IF i = Nothing THEN "context" ELSE "session",
                          !.op = op, !.caller = u, !.user = u, !.imp = i, !.key = k]
      BY <2>2, <2>3 DEF CallAction, Enter
    <3> QED
      BY <3>1 DEF NoAccess
  <2>4. ASSUME NEW u \in Users, NEW v \in Users, CallImpersonate(r, u, v)
        PROVE  access'[r].at \notin {"none", "audit", "record", "meter"}
    <3>1. access'[r] = [NoAccess EXCEPT !.at = "actor", !.op = "impersonate", !.caller = u, !.user = u,
                                        !.subject = v]
      BY <2>2, <2>4 DEF CallImpersonate, Enter
    <3> QED
      BY <3>1 DEF NoAccess
  <2>5. ASSUME NEW u \in Users, NEW i \in Impersonations, CallEnd(r, u, i)
        PROVE  access'[r].at \notin {"none", "audit", "record", "meter"}
    <3>1. access'[r] = [NoAccess EXCEPT !.at = "write", !.op = "end", !.caller = u, !.user = u, !.imp = i]
      BY <2>2, <2>5 DEF CallEnd, Enter
    <3> QED
      BY <3>1 DEF NoAccess
  <2>6. ASSUME NEW k \in ApiKeys, NEW op \in ApiOps, CallApi(r, k, op)
        PROVE  access'[r].at \notin {"none", "audit", "record", "meter"}
    <3>1. access'[r] = [NoAccess EXCEPT !.at = "key", !.op = op, !.key = k, !.user = apiKey[k].by]
      BY <2>2, <2>6 DEF CallApi, Enter
    <3> QED
      BY <3>1 DEF NoAccess
  <2>7. access'[r].at \notin {"none", "audit", "record", "meter"}
    BY <1>4, <2>3, <2>4, <2>5, <2>6 DEF Call
  <2> QED
    BY <1>2, <2>1, <2>7, EarlierTrail
<1>5. CASE Act(r)
  <2>1. CASE ReadImpersonation(r)
    <3>1. access[r].at = "session" /\ Acting(r) /\ UNCHANGED <<trail, changes, dropped>>
      BY <1>1, <2>1 DEF ReadImpersonation, AccessAt, Knows, ActingRule, OnlyAccess
    <3>2. access'[r].at = "context"
      BY <1>1, <2>1 DEF ReadImpersonation, AccessTypeOK, AccessStates
    <3> QED
      BY <1>2, <1>3, <3>1, <3>2, QuietTrail DEF Ending
  <2>2. CASE EnterContext(r) \/ CheckMember(r) \/ CheckActor(r) \/ CheckSubject(r)
    <3>1. /\ access[r].at \in {"context", "check", "actor", "subject"}
          /\ Leave(r) \/ Move(r, "check") \/ Move(r, "write") \/ Move(r, "subject")
          /\ UNCHANGED <<trail, changes, dropped>>
      BY <2>2 DEF EnterContext, CheckMember, CheckActor, CheckSubject, AccessAt, OnlyAccess
    <3> QED
      BY <1>2, <1>3, <3>1, EarlierTrail
  <2>3. ASSUME NEW x \in Settings, Stored(r, x) PROVE TrailInv'
    BY <1>1, <1>3, <2>3, Operations, ChangeTrail DEF Stored, AccessAt, Asks
  <2>4. ASSUME NEW k \in ApiKeys, NEW scopes \in KeyScopes, InsertKey(r, k, scopes)
        PROVE  TrailInv'
    <3>1. [access[r] EXCEPT !.key = k] \in AccessStates
          /\ [access[r] EXCEPT !.key = k].op = "create key"
      BY <1>1, <2>4 DEF AccessStates, InsertKey, Asks
    <3> QED
      BY <1>1, <1>3, <2>4, <3>1, ChangeTrail DEF InsertKey, AccessAt
  <2>5. ASSUME NEW i \in Impersonations, StartImpersonation(r, i)
        PROVE  TrailInv'
    <3>1. [access[r] EXCEPT !.imp = i] \in AccessStates
          /\ [access[r] EXCEPT !.imp = i].op = "impersonate"
      BY <1>1, <2>5 DEF AccessStates, StartImpersonation, Asks
    <3> QED
      BY <1>1, <1>3, <2>5, <3>1, ChangeTrail DEF StartImpersonation, AccessAt
  <2>6. CASE RevokeKey(r) \/ EndImpersonation(r)
    <3>1. /\ access[r].at = "write" /\ access[r].op \in {"revoke key", "end"}
          /\ \/ Changed(r, access[r], "audit")
             \/ Leave(r) /\ UNCHANGED <<trail, changes, dropped>>
      BY <2>6 DEF RevokeKey, EndImpersonation, AccessAt, Asks
    <3> QED
      BY <1>1, <1>2, <1>3, <3>1, ChangeTrail, EarlierTrail
  <2>7. CASE AuditChange(r)
    <3>1. access[r].at = "audit" /\ access[r].op # "refused"
      BY <2>7 DEF AuditChange, AccessAt, TrailInv
    <3> QED
      BY <1>1, <2>7, <3>1, TellTrail DEF AuditChange, Ending, Asks
  <2> QED
    BY <1>5, <2>1, <2>2, <2>3, <2>4, <2>5, <2>6, <2>7
       DEF Act, UpdateOrganization, UpdateFeatureFlag, UpdateUsageLimit, UpdateQuota, Settings
<1>6. CASE Serve(r)
  <2>1. CASE AuthenticateKey(r) \/ OwnerActive(r) \/ AuthoriseTenant(r) \/ EndpointMissing(r)
    <3>1. /\ access[r].at \in {"key", "owner", "authorise", "serve"}
          /\ Refuse(r) \/ Move(r, "owner") \/ Move(r, "authorise") \/ Move(r, "serve")
          /\ UNCHANGED <<trail, changes, dropped>>
      BY <2>1 DEF AuthenticateKey, OwnerActive, AuthoriseTenant, EndpointMissing, AccessAt, OnlyAccess
    <3> QED
      BY <1>2, <1>3, <3>1, EarlierTrail
  <2>2. CASE AccessAt(r, "serve") /\ Changed(r, access[r], "record")
    <3>1. access[r].op # "refused" /\ access[r].at = "serve"
      BY <1>1, <2>2, Operations DEF AccessAt, Knows, ServingRule
    <3> QED
      BY <1>1, <1>3, <2>2, <3>1, ChangeTrail
  <2>3. CASE MeterRequest(r)
    <3>1. /\ access[r].at = "meter" /\ Leave(r) /\ UNCHANGED <<changes, dropped>>
          /\ IF Asks(r, "refused") THEN trail' = trail ELSE trail' = trail \cup {Row(access[r])}
      BY <2>3 DEF MeterRequest, AccessAt
    <3>2. CASE Asks(r, "refused")
      <4>1. ~Ending(r)
        BY <3>2 DEF Ending
      <4> QED
        BY <1>2, <3>1, <3>2, <4>1, EarlierTrail
    <3>3. CASE ~Asks(r, "refused")
      <4>1. Ending(r)
        BY <3>1, <3>3 DEF Ending
      <4> QED
        BY <1>1, <3>1, <3>3, <4>1, TellTrail
    <3> QED
      BY <3>2, <3>3
  <2>4. CASE RecordRequest(r)
    BY <1>1, <2>4, RecordTrail
  <2> QED
    BY <1>6, <2>1, <2>2, <2>3, <2>4
       DEF Serve, CreateEndpoint, TestEndpoint, ListWebhookEndpoints, ListOrganizationMembers,
           ListEvents, GetOrganization, Listed
<1>7. CASE DieInAccess(r)
  BY <1>1, <1>7, DieTrail
<1> QED
  BY <1>4, <1>5, <1>6, <1>7

\* Server actions and key requests leave the members as their own operations do, so
\* that whatever holds of the members alone holds beside them.
LEMMA MembersBeside == AccessSpec => Spec
<1>1. [AccessNext]_<<vars, accessVars>> => [Next]_vars
  BY DEF AccessNext, AccessOrMembers
<1> QED
  BY <1>1, PTL DEF AccessSpec, Spec

\* What is stored of members, keys and impersonations, and what each request is
\* doing, stays well-formed whatever interleaves.
THEOREM AccessTypesCorrect == AccessSpec => [](TypeOK /\ AccessTypeOK)
<1>1. AccessInv => AccessTypeOK
  BY DEF AccessInv
<1> QED
  BY <1>1, AccessInvariance, MembersBeside, TypeCorrect, PTL

\* Whatever members leave, keys are revoked and impersonations end meanwhile, a
\* change is made only by a request that held the right it needs since it began.
THEOREM ChangesAreJustified == AccessSpec => []AccessJustified
<1>1. AccessInv => AccessJustified
  BY DEF AccessInv
<1> QED
  BY <1>1, AccessInvariance, PTL

\* An audit row tells of a change that was made; a change is told, unless its
\* request is about to tell it or died between the two statements.
THEOREM TrailIsTrue == AccessSpec => []TrailTellsChanges
<1>1. AccessInit => TrailInv
  BY Operations DEF AccessInit, TrailInv, TrailTellsChanges, Ending
<1>2. ASSUME AccessInv, TrailInv, [AccessNext]_<<vars, accessVars>> PROVE TrailInv'
  <2>1. ASSUME Watch, UNCHANGED vars, NEW r \in Requests,
               Call(r) \/ Act(r) \/ Serve(r) \/ DieInAccess(r)
        PROVE  TrailInv'
    BY <1>2, <2>1, TrailStep
  <2>2. CASE UNCHANGED <<access, trail, changes, dropped>>
    BY <1>2, <2>2 DEF TrailInv, TrailTellsChanges, Ending, Change, Asks
  <2>3. CASE Ages
    BY <2>2, <2>3 DEF Ages, CreateToken, ExpireKey, ExpireImpersonation
  <2> QED
    BY <1>2, <2>1, <2>2, <2>3 DEF AccessNext, AccessOrMembers, AccessStep, Ages, accessVars
<1>3. TrailInv => TrailTellsChanges
  BY DEF TrailInv
<1> QED
  BY <1>1, <1>2, <1>3, AccessInvariance, PTL DEF AccessSpec

=============================================================================
