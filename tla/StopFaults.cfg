CONSTANTS
  Runs = {r1, r2}
  MaxRequests = 3
  MaxCrashes = 0
  Faults = {"read fails", "write fails", "reorders"}
SPECIFICATION FairSpec
INVARIANT StopHolds
PROPERTY StopReachesEveryRun
