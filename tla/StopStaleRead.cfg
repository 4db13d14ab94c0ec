CONSTANTS
  Runs = {r1, r2}
  MaxRequests = 3
  MaxCrashes = 1
  Faults = {}
SPECIFICATION Spec
SYMMETRY RunSymmetry
INVARIANT StopStands
