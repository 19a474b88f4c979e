SPECIFICATION FairSpec
CONSTANTS
  absent = absent
  blank = blank
  r1 = r1
  t1 = t1
  t2 = t2
  admin = admin
  Absent = absent
  Missing = absent
  Blank = blank
  PassedKinds <- MCPassedKinds
  HashRank <- MCHashRank
  CaseRank <- MCCaseRank
  Equals <- MCEquals
  Contains <- MCContains
  WorkspaceId <- MCWorkspaceId
  Receipts <- TwoSessions
  Workspaces = {1, 2}
  Tokens = {t1, t2, admin}
  Readers = {r1}
  Requests <- MCRequests
  Query <- MCQuery
  Snapshot <- MCSnapshot
  MaxCommits = 1
INVARIANT ReadTypeOK
INVARIANT AnswerIsOfScope
INVARIANT DeniedOnlyOutside
INVARIANT SelectorComesFirst
INVARIANT SearchFindsIndexed
PROPERTY RequestIsAnswered
