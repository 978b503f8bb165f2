SPECIFICATION TurnsSpec
CONSTANTS
  Owners = 2
  MaxCalls = 4
  MaxTokens = 6
  Reserve = 2
  Rounds = 1
  Versions = 1
  Fields = {"amount"}
  Amount = "amount"
  Conds = {"battery"}
  Promises = {"gift"}
  Ids = {1, 2, 3}
  Inputs = 2
  Edits = 2
  Servers = {p1}
  Exec = {p1, p2}
  Text = {x, y}
  Banned = {y}
  Steps = 2
  Calls = 3
  Tools = 2
  Upkeep = 1
  Tokens = 3
  Attempts = 2
  Faults = 1
SYMMETRY Symmetry
INVARIANTS TurnIsAccountedFor OffersAreGrounded AgentIsAccountedFor
PROPERTY WordsAreKept
CHECK_DEADLOCK FALSE
