SPECIFICATION Spec
CONSTANTS
  o1 = o1
  o2 = o2
  Openers = {o1}
  OldStores <- Unmarked
  MaxFaults = 0
INVARIANT UpgradesInPlace
