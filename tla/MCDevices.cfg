CONSTANTS
  Rates = {"slow", "fast"}
  Slowest = "slow"
  Quarter <- MCQuarter
  Common = 8
  Durations = {1}
  Masks <- MCMasks
  Timers = {"xt1"}
  Clocks <- MCClocks
  Counts = {0, 1}
  Wrap = 3
  Bits = 2
  MachineID = 1
  VarCommands = {1}
  DataCommands = {0, 2}
  HeaderSize <- MCHeaderSize
  Requests <- MCRequests
  Replies <- MCReplies
  Timeout = 2
  PollEvery = 1
  Switches = 2
  Attempts = 2
  Height = 2
  MemWidth = 4
  Bound <- MCBound
  Columns = {5, 6}
  Words = {45, 255}
  Delay = 1
  Shades = 2
  Accesses = 4
  Models = {"83P", "84PSE", "84PCSE"}
  Interrupts = 2
  Banks = 5
  Memory = 2
SPECIFICATION Spec
INVARIANTS PhaseKept SourceVisible BytesInOrder PicturesInOrder RestoredAsSaved
PROPERTIES NoStaleTick TimerWakes TransferEnds CellWritten
