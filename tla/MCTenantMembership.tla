------------------------ MODULE MCTenantMembership -------------------------
(* Small instances of TenantMembership for TLC.                            *)
EXTENDS TenantMembership, TLC

CONSTANTS r1, r2, ann, bob, i1, i2

MCEmailOf == [u \in Users |-> u]
NoGrants == {{}}
RemoveGrants == {{}, {"members.remove"}}

Symmetry == Permutations(Requests)
=============================================================================
