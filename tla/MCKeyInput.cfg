SPECIFICATION FairSpec
CONSTANTS
  a = a
  b = b
  z = 8
  two = 9
  Keys <- TwoKeys
  Fingers <- TwoFingers
  Codes <- TwoCodes
  KeyOf <- BothOnA
  MinTstates <- Minimum
  Lag = 1
  MaxEvents = 4
INVARIANTS
  PendingHasPress
PROPERTY
  NoStuckKey
