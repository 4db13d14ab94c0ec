CONSTANTS
  AgentCallers = {a1, a2}
  ReviewCallers = {r1, r2}
  FailureThreshold = 2
  DegradedThreshold = 1
  Cooldown = 2
SPECIFICATION Spec
CHECK_DEADLOCK FALSE
SYMMETRY CallerSymmetry
INVARIANT ProbeOnlyHalfOpen
