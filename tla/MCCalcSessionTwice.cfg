\* the activity is created a second time in the process
SPECIFICATION Spec
CONSTANTS
  r1 = r1
  r2 = r2
  gone = gone
  bad = bad
  var = var
  Good <- OneGood
  Unreadable <- None
  Corrupt <- None
  VarFile = var
  MaxCalcs = 2
  MaxRequests = 5
  MaxRecreations = 1
  MaxKills = 0
INVARIANT OneCalcActive
