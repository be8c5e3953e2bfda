SPECIFICATION Spec
CONSTANTS
  FolderAlone = {"move", "replace", "unread", "file"}
  FolderPairs = {"seen", "both", "replace", "file"}
  GmailAlone = {"label", "back", "draft", "purge"}
  GmailPairs = {"draft", "purge", "away"}
  FolderServers = {{"move", "uidplus", "rights"}, {"uidplus", "rights", "replace"},
                   {"move", "rights"}, {"move", "uidplus", "replace"}}
  GmailServers = {{"move", "uidplus", "rights"}, {"uidplus", "rights"}, {"move", "rights"}}
  MAX_STORE_UIDS = 1
  MaxUid = 6
  MaxId = 8
  MaxFaults = 2
INVARIANTS PlacesStand AnswersHold NeverBothLost
CHECK_DEADLOCK FALSE
