SPECIFICATION FairSpec
CONSTANTS
  Emails = {e1, e2}
  Mailboxes = {inbox, archive}
  Tabs = {t1}
  INBOX = inbox
  SEEN = seen
  MaxObjectsInSet = 1
  MaxChanges = 3
  MaxMeddling = 2
  MaxFaults = 2
  MaxTogether = 3
  OthersDestroy = TRUE
INVARIANTS TakesBack NoChangeLost ToastHolds CountsAddUp
PROPERTIES Settles
CHECK_DEADLOCK FALSE
