SPECIFICATION Spec
CONSTANTS
  Instance = {i1}
  Notifier = {n1}
  Quality = TRUE
  QueueLimit = 2
  MaxAttempts = 2
  MaxNotify = 2
  MaxInputs = 1
  MaxFaults = 1
  MaxManual = 1
INVARIANT AttemptsAreBounded
PROPERTY NoFalseConflict
CHECK_DEADLOCK FALSE
