---------------------------- MODULE MCTenantAccess ----------------------------
(* Small instances of TenantMembership and TenantAccess for TLC.  A behaviour *)
(* is about the members alone, or about what a member changes while the       *)
(* owner demotes or removes him: with server actions, or with keys, which the *)
(* owner makes and revokes.                                                   *)
EXTENDS TenantAccess, TLC

CONSTANTS ann, bob, inv1

MCEmailOf == [u \in Users |-> u]
MCGrants == {{}, {"members.remove"}}
MCKeyScopes == {{"api_keys:write", "members:read"}}
MCTokenScopes == {{"*"}}

VARIABLE about

\* An administrator has accepted an invitation; some keys, endpoints and
\* impersonations are there.
Invited ==
  /\ issued = {inv1} /\ acceptedBy = [i \in Invitations |-> bob]
  /\ terms = [i \in Invitations |-> [role |-> "admin", custom |-> {}, email |-> bob]]
  /\ role = [u \in Users |-> IF u = ann THEN "owner" ELSE "admin"] /\ active = Users
  /\ custom = [u \in Users |-> {}] /\ rejected = {} /\ expired = {} /\ deleted = {}
  /\ at = [r \in Requests |-> "idle"] /\ args = [r \in Requests |-> Default]
  /\ granted = [i \in Invitations |-> 1] /\ downgraded = FALSE /\ raced = FALSE
MCInit ==
  /\ about \in {"members", "actions", "keys"}
  /\ IF about = "members" THEN Init ELSE Invited
  /\ AccessInit

\* At most one request of the owner demotes or removes the administrator, or with
\* "keys" makes or revokes one.
OwnerActs ==
  \/ \E r \in Requests :
       \/ Authorise(r, RemoveCall(ann, bob)) \/ Authorise(r, UpdateCall(ann, bob, "member", {}))
       \/ CountOwners(r) \/ Remove(r) \/ Update(r)
  \/ DeleteAccount(bob)
OneOfOwner ==
  /\ Cardinality({r \in Requests : at'[r] # "idle" \/ access'[r].caller = ann}) <= 1
  /\ \A r \in Requests :
       access'[r].caller = ann =>
         about = "keys" /\ access'[r].op \in {"revoke key", "create key"} /\ access'[r].imp = Nothing
  /\ \A c \in dropped' : c.caller # ann
\* Nor do two act for the administrator, who ends when he has changed something.
OfMember(r) == access'[r] # NoAccess /\ access'[r].caller # ann
OneOfMember ==
  /\ Cardinality({r \in Requests : OfMember(r)}) <= 1
  /\ \A r \in Requests :
       OfMember(r) =>
         /\ access'[r].subject \in {NoUser, ann}
         /\ access'[r].imp # Nothing => access'[r].op \in {"organization", "impersonate", "end"}
         /\ access[r] = NoAccess => \A c \in changes : c.caller = ann \/ c.op \in {"create endpoint", "impersonate"}
         /\ about = "keys" => access'[r].op \in ApiOps \cup {"refused"}
         /\ about = "actions" => access'[r].op \notin ApiOps
MCNext ==
  /\ UNCHANGED about
  /\ CASE about = "members" -> Next /\ UNCHANGED accessVars
       [] about = "actions" -> AccessOrMembers(OwnerActs) /\ OneOfOwner /\ OneOfMember
       [] about = "keys" -> AccessOrMembers(OwnerActs) /\ OneOfOwner /\ OneOfMember /\ UNCHANGED imp
  /\ about = "actions" => Cardinality(changes') < MaxChanges
MCSpec == MCInit /\ [][MCNext]_<<vars, accessVars, about>>


Symmetry == Permutations(Requests)
=============================================================================
