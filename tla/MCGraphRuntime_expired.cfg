SPECIFICATION Spec
CONSTANTS
  Instance = {i1}
  Notifier = {n1}
  Quality = FALSE
  QueueLimit = 2
  MaxAttempts = 2
  MaxNotify = 2
  MaxInputs = 1
  MaxFaults = 1
  MaxManual = 0
INVARIANT ClaimsWriteAcceptedRows
CHECK_DEADLOCK FALSE
