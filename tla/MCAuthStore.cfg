SPECIFICATION FairSpec
CONSTANTS
  w1 = w1
  w2 = w2
  t1 = t1
  t2 = t2
  p1 = p1
  Absent = Absent
  Workspaces = {1, 2}
  Tokens = {t1, t2}
  Writers = {w1, w2}
  Processes = {p1}
  ProcessOf <- OneProcess
INVARIANT AuthTypeOK
INVARIANT FileIsWhole
INVARIANT AckedGrantHolds
INVARIANT AuthorizedIsGranted
PROPERTY GrantsSpec
PROPERTY LockIsReleased
