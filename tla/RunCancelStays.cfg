CONSTANTS
  MaxExecutions = 1
  MaxRecovery = 1
  MaxRepairs = 1
  EagerResume = FALSE
  EventsFail = FALSE
SPECIFICATION Spec
PROPERTY CancelStays
