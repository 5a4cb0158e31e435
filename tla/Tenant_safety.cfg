\* Two requests, two users, one invitation; a member may be granted a permission.
\* One key, one impersonation, one endpoint, three changes.
CONSTANTS
  ann = ann
  bob = bob
  inv1 = inv1
  Requests = {r1, r2}
  Users = {ann, bob}
  Invitations = {inv1}
  NoUser = NoUser
  Founder = ann
  Personal = TRUE
  Roles = {"owner", "member"}
  EmailOf <- MCEmailOf
  Grants <- MCGrants
  Operators = {}
  ApiKeys = {k1}
  Impersonations = {i1}
  Endpoints = {e1}
  Nothing = Nothing
  KeyScopes <- MCKeyScopes
  TokenScopes <- MCTokenScopes
  MaxChanges = 3
SPECIFICATION MCSpec
SYMMETRY Symmetry
INVARIANTS OwnerLostOnlyByRace InvitationSettlesOnce InvitedMembersOnly AccessJustified TrailTellsChanges
CHECK_DEADLOCK FALSE
