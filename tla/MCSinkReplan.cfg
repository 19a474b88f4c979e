SPECIFICATION Spec
CONSTANTS
  absent = absent
  Absent = absent
  Taxonomy <- MCTaxonomy
  CalendarEnd = 8
  Requests <- CollidingRequests
  CursorRequests <- NoCursorRequests
INVARIANT ReplanIsEmpty
