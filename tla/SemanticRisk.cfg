CONSTANTS
  TrustCandidates = {"c1"}
  ConcernFindings = {}
  ConcernRecords = {}
  VerdictFiles = {}
  MaxInputs = 2
SPECIFICATION TrustSpec
CHECK_DEADLOCK FALSE
INVARIANT SemanticsNeverLower
