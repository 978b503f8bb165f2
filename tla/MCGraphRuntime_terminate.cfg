SPECIFICATION FairSpec
CONSTANTS
  Instance = {i1}
  Notifier = {n1}
  Quality = TRUE
  QueueLimit = 2
  MaxAttempts = 2
  MaxNotify = 2
  MaxInputs = 1
  MaxFaults = 0
  MaxManual = 1
PROPERTY TerminationUnblocks
CHECK_DEADLOCK FALSE
