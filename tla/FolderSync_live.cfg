SPECIFICATION FairSpec
CONSTANTS
  MaxUid = 3
  MaxMessage = 2
  MaxModseq = 3
  MaxValidity = 2
  MaxFaults = 1
  SYNC_BATCH = 2
  NARROWING_BUDGET = 6
  REFRESH_GAP = 2
  REMATCH_LIMIT = 2
  Undescribable = {2}
  Unstructured = {1}
  CutWrites = TRUE
INVARIANTS TypeOK LeftOutForCause RowsNameTheirMessage
PROPERTIES Converges
