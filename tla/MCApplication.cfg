\* safety of the session: two ROMs, a missing file, a corrupt save, one kill;
\* the wizard: two calculators to choose from
SPECIFICATION MCSpec
CONSTANTS
  r1 = r1
  r2 = r2
  gone = gone
  bad = bad
  var = var
  Good <- TwoGood
  Unreadable <- OneGone
  Corrupt <- OneBad
  VarFile = var
  MaxCalcs = 2
  MaxRequests = 4
  MaxRecreations = 0
  MaxKills = 1
  Models = {"TI_84P", "TI_84PCSE"}
  Outcomes = {"fine", "offline", "no boot file", "boot unwritten", "no OS file"}
  MaxMoves = 6
  MaxTasks = 1
INVARIANTS
  OneCalcActive
  LoadedAgrees
  LoadedRuns
  RememberedWritten
  PauseHasReason
  AssertionsHold
PROPERTIES
  RomAsChosen
