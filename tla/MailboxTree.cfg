SPECIFICATION Spec
CONSTANTS
  FolderCalls = {"grow", "late", "move", "pass", "round", "hand", "refuse", "clear", "spare"}
  GmailCalls = {"label", "unlabel"}
  MaxId = 40
  MaxBox = 20
  MaxFaults = 2
INVARIANTS RowsFit ChangesTell DoneOnServer
CHECK_DEADLOCK FALSE
