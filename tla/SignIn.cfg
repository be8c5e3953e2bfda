SPECIFICATION Spec
CONSTANTS
  MaxRequests = 2
  FREE_FAILURES = 1
  INITIAL_DELAY = 1
  MAX_DELAY = 1
  FORGET_AFTER = 2
  IDLE = 1
  ABSOLUTE = 2
  TOUCH_INTERVAL = 1
  ONE_TIME_TTL = 1
  MONTH = 2
  Permits = 1
  MaxNow = 2
  MaxSecrets = 5
  MaxTokens = 6
  MaxAsked = 3
  MaxHung = 1
INVARIANTS SessionsStand LogAccountsForRows
CHECK_DEADLOCK FALSE
