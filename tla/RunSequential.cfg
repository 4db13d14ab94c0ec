CONSTANTS
  MaxExecutions = 2
  MaxRecovery = 1
  MaxRepairs = 1
  EagerResume = FALSE
  EventsFail = TRUE
SPECIFICATION FairSpec
INVARIANT NeverResurrected
INVARIANT RecoveryBounded
INVARIANT NoOrphan
PROPERTY ExecutionEnds
PROPERTY ImplementsRunRecord
