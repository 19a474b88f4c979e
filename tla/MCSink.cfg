SPECIFICATION Spec
CONSTANTS
  absent = absent
  Absent = absent
  Taxonomy <- MCTaxonomy
  CalendarEnd = 8
  Requests <- AnyRequests
  CursorRequests <- MCCursorRequests
INVARIANT TypeOK
INVARIANT OneReceiptPerKey
INVARIANT SkippedIsRecordedOrCarried
INVARIANT AckedIsRecorded
INVARIANT AppliedPlanIsAbsorbed
INVARIANT ApplyIsRowByRow
PROPERTY LedgerOnlyGrows
