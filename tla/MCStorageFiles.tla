--------------------------- MODULE MCStorageFiles ----------------------------
(* Small instances of StorageFiles for TLC.                                 *)
EXTENDS StorageFiles, TLC

CONSTANTS photo, blob, p1, p2

\* A photo has variants, a blob has none; both fit, but not with the variants.
MCBytes == [f \in Files |-> 2]
MCVariantBytes == [f \in Files |-> IF f = photo THEN 1 ELSE 0]

Symmetry == Permutations(Procs)
=============================================================================
