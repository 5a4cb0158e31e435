\* Two processes, a file with variants and one without, two faults; a key, two
\* bodies and three events.
CONSTANTS
  photo = photo
  blob = blob
  Files = {photo, blob}
  Procs = {p1, p2}
  NoFile = NoFile
  Limit = 4
  MaxFaults = 2
  Bytes <- MCBytes
  VariantBytes <- MCVariantBytes
  Keys = {k1}
  Bodies = {b1, b2}
  Events = {e1, e2, e3}
  None = None
SPECIFICATION MCSpec
SYMMETRY Symmetry
INVARIANTS QuotaExact AvailableHasObject OneCompleter IntentAgrees MobileUploadsFollow EventsIdempotent
CHECK_DEADLOCK FALSE
