CONSTANTS
  MaxExecutions = 2
  MaxRecovery = 1
  MaxRepairs = 1
  EagerResume = TRUE
  EventsFail = FALSE
SPECIFICATION Spec
INVARIANT Cancellable
