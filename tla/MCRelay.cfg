SPECIFICATION FairRelaySpec
CONSTANTS
  absent = absent
  Absent = absent
  Taxonomy <- MCTaxonomy
  CalendarEnd = 8
  Requests <- MCRequests
  CursorRequests <- MCCursorRequests
  Batches <- OverlappingBatches
  MaxRestarts = 1
INVARIANT RelayTypeOK
INVARIANT SentIsRecorded
INVARIANT CursorBehindLedger
INVARIANT ReplanIsEmpty
PROPERTY LedgerSpec
PROPERTY BatchesAreSent
