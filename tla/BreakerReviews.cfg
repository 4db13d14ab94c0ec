CONSTANTS
  AgentCallers = {}
  ReviewCallers = {r1, r2, r3}
  FailureThreshold = 2
  DegradedThreshold = 1
  Cooldown = 2
SPECIFICATION FairSpec
INVARIANT ProbeHasOwner
PROPERTY AttemptAgain
