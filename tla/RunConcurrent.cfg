CONSTANTS
  MaxExecutions = 2
  MaxRecovery = 1
  MaxRepairs = 1
  EagerResume = TRUE
  EventsFail = TRUE
SPECIFICATION Spec
INVARIANT AuthorityMatchesState
INVARIANT PausedHasCapsule
