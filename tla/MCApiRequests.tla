---------------------------- MODULE MCApiRequests ----------------------------
(* Small instances of ApiRequests for TLC.  A behaviour is about the storage *)
(* service alone, with all its callers, about the uploads of one file        *)
(* through the API, or about events.                                         *)
EXTENDS ApiRequests, TLC

CONSTANTS photo, blob

\* A photo has variants, a blob has none; both fit, but not with the variants.
MCBytes == [f \in Files |-> 2]
MCVariantBytes == [f \in Files |-> IF f = photo THEN 1 ELSE 0]

VARIABLE about
MCInit == ApiInit /\ about \in {"files", "uploads", "events"}
MCNext ==
  /\ UNCHANGED about
  /\ CASE about = "files" -> StorageStep
       [] about = "uploads" -> /\ StorageStep \/ \E p \in Procs : UploadCall(p) \/ DieOutside(p)
                               /\ fstat'[photo] = "none" /\ \A p \in Procs : proc'[p].file # photo
       [] about = "events" -> \E p \in Procs : EventCall(p) \/ DieOutside(p)
MCSpec == MCInit /\ [][MCNext]_<<vars, apiRows, call, apiHistory, about>>

Symmetry == Permutations(Procs)
=============================================================================
