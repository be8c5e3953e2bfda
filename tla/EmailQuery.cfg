SPECIFICATION Spec
CONSTANTS
  Kinds = {"folders", "gmail"}
  MaxFaults = 2
  MaxSearchFaults = 1
  QUERY_LIMIT = 2
  SEARCH_CACHE_ENTRIES = 1
  SEARCH_CACHE_TTL = 1
  DAY = 2
INVARIANTS ThreadsHold QueriesHold
PROPERTIES ThreadsTold
CHECK_DEADLOCK FALSE
