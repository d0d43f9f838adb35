SPECIFICATION FairSpec
CONSTANTS
  MaxRequests = 6
  MaxReplies = 2
  PingBeforeQuery = TRUE
  Unencodable = {"execute", "insert"}
  ServerMayClose = TRUE
INVARIANTS TypeOK CleanWhenIdle OwnReply CancelsOnlyAbandoned InconsistentMeansUnread
PROPERTIES CallsEnd
