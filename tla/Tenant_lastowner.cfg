\* Only owners are invited; a demotion or removal must race to lose the last one.
CONSTANTS
  r1 = r1
  r2 = r2
  ann = ann
  bob = bob
  i1 = i1
  i2 = i2
  Requests = {r1, r2}
  Users = {ann, bob}
  Invitations = {i1}
  NoUser = NoUser
  Founder = ann
  Personal = FALSE
  Roles = {"owner"}
  EmailOf <- MCEmailOf
  Grants <- NoGrants
SPECIFICATION Spec
SYMMETRY Symmetry
INVARIANTS OwnerRemains
CHECK_DEADLOCK FALSE
