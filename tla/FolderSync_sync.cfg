SPECIFICATION Spec
CONSTANTS
  MaxUid = 3
  MaxMessage = 3
  MaxModseq = 4
  MaxValidity = 2
  MaxFaults = 2
  SYNC_BATCH = 1
  NARROWING_BUDGET = 0
  REFRESH_GAP = 2
  REMATCH_LIMIT = 2
  Undescribable = {}
  Unstructured = {3}
  CutWrites = FALSE
INVARIANTS NothingSkipped FlagsStand ExpungeShows
PROPERTIES RowsLeaveForCause
