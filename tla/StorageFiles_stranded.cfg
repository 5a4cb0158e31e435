\* One file; a process dies, or an upload fails after its intent expired.
CONSTANTS
  photo = photo
  blob = blob
  p1 = p1
  p2 = p2
  Files = {photo}
  Procs = {p1, p2}
  NoFile = NoFile
  Limit = 4
  MaxFaults = 1
  Bytes <- MCBytes
  VariantBytes <- MCVariantBytes
SPECIFICATION Spec
SYMMETRY Symmetry
INVARIANTS NoStrandedReservation
CHECK_DEADLOCK FALSE
