\* a first load that fails
SPECIFICATION Spec
CONSTANTS
  r1 = r1
  r2 = r2
  gone = gone
  bad = bad
  var = var
  Good <- OneGood
  Unreadable <- OneGone
  Corrupt <- None
  VarFile = var
  MaxCalcs = 2
  MaxRequests = 5
  MaxRecreations = 0
  MaxKills = 0
INVARIANT SaveHasKeypad
