SPECIFICATION Spec
CONSTANTS
  Fields = {"amount"}
  Amount = "amount"
  Conds = {"battery"}
  Promises = {"gift"}
  Patches <- MCPatches
  Ids = {1, 2, 3}
  Inputs = 2
  Edits = 2
  Servers = {s1}
  Faults = 0
PROPERTY AgreedOnCurrentFacts
CHECK_DEADLOCK FALSE
