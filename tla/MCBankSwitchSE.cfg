CONSTANTS
  FlashPages = 32
  RamPages = 4
  LowPages = 16
  FlashVersion = 2
  SE = TRUE
  Is84 = TRUE
  PortBytes <- MCPortBytes
  Extensions <- MCExtensions
SPECIFICATION Spec
INVARIANTS
  TypeOK
  BootMapCurrent
  BootPageGone
  LatchesDescribeBanks
PROPERTIES
  ImplementsPageMap
