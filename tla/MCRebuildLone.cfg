SPECIFICATION Spec
CONSTANTS
  absent = absent
  Absent = absent
  o1 = o1
  o2 = o2
  PassedKinds <- MCPassedKinds
  HashRank <- MCHashRank
  Receipts <- FourEvents
  Operators <- OneOperator
INVARIANT ProjectionIsLoop
INVARIANT PipelinesAgree
INVARIANT RebuildableIf
