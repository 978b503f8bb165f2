SPECIFICATION RunSpec
CONSTANTS
  Req = {r1, r2}
  Proc = {p1, p2}
  Price = {2, 3}
  MaxRounds = 2
  MaxAttempts = 2
  MaxManual = 1
  MaxEdits = 1
  MaxFaults = 1
  Nobody = Nobody
  AttemptLimit = 3
  NotifyLimit = 1
  Requests = {"q1", "q2"}
  Values = {"v", "w"}
  Approval = TRUE
  Epochs = 3
  Nets = {0, 1, 2}
  Floor = 1
  AutoFloor = 2
  MaxTurns = 3
  Episodes = {1, 2}
  Workers = {"w1", "w2"}
  MaxCalls = 3
  MaxTokens = 4
  Reserve = 2
  Excess = 1
  Failures = 1
  Groups = {{1, 2}}
  Cases = {"a", "b"}
  Comparable = {"a"}
  Risky = {"b"}
  Repeats = {1}
  Turns = 1
  Threads = 2
  Labelled = TRUE
  Kills = 1
  Accounts = {"a", "b"}
  Tabs = {"t1"}
  Targets = {"x", "y"}
  MaxPosts = 2
  Sessions = {1, 2}
  Runs = {"r1"}
  History = 1
  Batch = 1
  MaxLoads = 3
  MaxAcks = 1
  MaxTroubles = 1
  Faults = 1
  Troubles = 2
SYMMETRY Symmetry
INVARIANTS ApprovalEffectsSettle LegacyWorkIsSettled PrototypeInputsOnce EvaluationIsAccounted PagesTellTheTruth
PROPERTIES ApprovalOutcomeIsKept LegacyDealsAreAuthorized EvaluationIsFinal
CHECK_DEADLOCK FALSE
