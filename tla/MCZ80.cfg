CONSTANTS
  Machines <- MCMachines
  PortBytes = {0, 200}
  BusBytes = {62, 221}
SPECIFICATION MCSpec
INVARIANTS
  TypeOK
  DecimalRight
  BlockDone
  OneFrame
PROPERTIES
  ArithmeticMeans
CHECK_DEADLOCK FALSE
