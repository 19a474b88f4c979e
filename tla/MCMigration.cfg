SPECIFICATION FairSpec
CONSTANTS
  o1 = o1
  o2 = o2
  Openers = {o1, o2}
  OldStores <- MCOldStores
  MaxFaults = 1
INVARIANT MigrationTypeOK
INVARIANT OpenedIsCurrent
INVARIANT VersionMeansCurrent
PROPERTY StoreIsOpened
