SPECIFICATION Spec
CONSTANTS
  a = a
  b = b
  z = 8
  two = 9
  Keys <- TwoKeys
  Fingers <- NoFingers
  Codes <- TwoCodes
  KeyOf <- BothOnA
  MinTstates <- Minimum
  Lag = 1
  MaxEvents = 3
INVARIANT
  KeyIdsUnique
