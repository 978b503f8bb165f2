SPECIFICATION Spec
CONSTANTS
  Instance = {i1, i2}
  Notifier = {n1}
  Quality = FALSE
  QueueLimit = 2
  MaxAttempts = 2
  MaxNotify = 2
  MaxInputs = 1
  MaxFaults = 1
  MaxManual = 0
SYMMETRY Processes
INVARIANTS TypeOK OneOwner CheckpointUndisturbed
PROPERTIES TurnsAreProcessedInOrder FinishedIsFinal
CHECK_DEADLOCK FALSE
