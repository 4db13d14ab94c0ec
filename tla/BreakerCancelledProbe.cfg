CONSTANTS
  AgentCallers = {a1, a2}
  ReviewCallers = {}
  FailureThreshold = 2
  DegradedThreshold = 1
  Cooldown = 2
SPECIFICATION Spec
SYMMETRY CallerSymmetry
INVARIANT ProbeHasOwner
