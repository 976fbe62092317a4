CONSTANTS
  FlashPages = 8
  FlashVersion = 2
  Guarded = {3}
  GuardedLarge = {7}
  Cells <- MCCells
  Targets <- MCTargets
  Data <- MCData
  Ones <- MCOnes
SPECIFICATION Spec
PROPERTIES
  ReadOnlyNeverWritten
