SPECIFICATION Spec
CONSTANTS
  SEARCH_WINDOW = 1
  MAX_FOLDER_UIDS = 6
  MAX_FETCHED = 3
  MAX_MAILBOXES = 2
  SPARE_LINES = 1
  SELECTED_SPARE_LINES = 1
  Servers = {"sync", "minus"}
  MaxVer = 1
  MaxChanges = 1
  MaxWire = 1
  ChattyOps = {"uid_list"}
  DroppedOps = {"sign_in", "check", "select", "append", "uid_search", "uid_flags", "uid_move", "status"}
INVARIANTS SendsFit AnswersFit
CHECK_DEADLOCK FALSE
