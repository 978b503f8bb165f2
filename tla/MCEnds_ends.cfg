SPECIFICATION EndsSpec
CONSTANTS
  Carrier = {p1}
  Nobody = Nobody
  AttemptLimit = 3
  NotifyLimit = 1
  MaxFaults = 1
  MaxManual = 1
  Instance = {i1}
  Notifier = {n1}
  Quality = FALSE
  QueueLimit = 2
  MaxAttempts = 2
  MaxNotify = 2
  MaxInputs = 1
  Req = {r1}
  Proc = {s1, s2}
  Price = {2, 3}
  MaxRounds = 2
  MaxEdits = 1
  Sessions = {1, 2}
  Runs = {"r1"}
  History = 1
  Batch = 1
  MaxTexts = 2
  MaxTroubles = 1
PROPERTIES HeadMoves RepliesAreDelivered SettlesInTheEnd LegacyEnds PageKeepsUp
CHECK_DEADLOCK FALSE
