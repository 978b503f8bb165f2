SPECIFICATION Spec
CONSTANTS
  Instance = {i1}
  Notifier = {n1}
  Quality = FALSE
  QueueLimit = 2
  MaxAttempts = 2
  MaxNotify = 2
  MaxInputs = 2
  MaxFaults = 0
  MaxManual = 1
INVARIANT FifoBarrier
CHECK_DEADLOCK FALSE
