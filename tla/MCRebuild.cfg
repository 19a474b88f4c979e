SPECIFICATION Spec
CONSTANTS
  absent = absent
  Absent = absent
  o1 = o1
  o2 = o2
  PassedKinds <- MCPassedKinds
  HashRank <- MCHashRank
  Receipts <- TwoEvents
  Operators <- TwoOperators
SYMMETRY OperatorSymmetry
INVARIANT TypeOK
INVARIANT ViewIsSnapshot
INVARIANT DerivedIsBacked
INVARIANT SearchDocsMatch
INVARIANT NothingDangles
INVARIANT DerivedIsCurrent
PROPERTY StoreSpec
