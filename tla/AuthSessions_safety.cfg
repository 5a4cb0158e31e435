\* Two requests, two sessions and two devices, one link, one recovery code, one
\* coordinator.
CONSTANTS
  Requests = {r1, r2}
  Sessions = {s1, s2}
  Devices = {phone, tablet}
  Links = {l1}
  Codes = {c1}
  Coordinators = {tab}
  None = None
  MaxFailed = 1
  MaxTokens = 3
  MaxFaults = 1
SPECIFICATION MCSpec
SYMMETRY Symmetry
INVARIANTS LockoutBounded PasswordOfLiveSession MfaMeansProof RotationCoordinated DeviceRevocation
CHECK_DEADLOCK FALSE
