SPECIFICATION Spec
CONSTANTS
  absent = absent
  Absent = absent
  Taxonomy <- MCTaxonomy
  CalendarEnd = 8
  Requests <- RacingRequests
  CursorRequests <- NoCursorRequests
INVARIANT AcceptedReceiptsExist
