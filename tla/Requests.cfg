SPECIFICATION FairSpec
CONSTANTS
  MAX_PASSES = 3
  RECENT_SUBMISSIONS = 2
  Alone = 3
  MaxFaults = 1
  MaxFillFaults = 2
  BODY_RECONNECTS = 1
  MAX_BODY_WINDOWS = 4
  MAX_BODY_VALUE_BYTES = 4
  PREVIEW_BATCH = 2
  Window = 2
INVARIANTS CallsStand BodiesStand SendsStand
PROPERTIES EverythingEnds
CHECK_DEADLOCK FALSE
