\* liveness: one ROM, a missing file, one kill, one activity created again with
\* a slot left for it; the wizard with two calculators to choose from
SPECIFICATION MCFairSpec
CONSTANTS
  r1 = r1
  r2 = r2
  gone = gone
  bad = bad
  var = var
  Good <- OneGood
  Unreadable <- OneGone
  Corrupt <- None
  VarFile = var
  MaxCalcs = 2
  MaxRequests = 3
  MaxRecreations = 1
  MaxKills = 1
  Models = {"TI_84P", "TI_84PCSE"}
  Outcomes = {"fine", "offline", "no boot file", "boot unwritten", "no OS file"}
  MaxMoves = 6
  MaxTasks = 1
PROPERTIES
  LoadAnswered
  ResumedRuns
  FinishEnds
