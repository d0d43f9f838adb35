SPECIFICATION Spec
CONSTANTS
  MaxRequests = 4
  MaxReplies = 2
  PingBeforeQuery = FALSE
  Unencodable = {"execute", "insert"}
  ServerMayClose = FALSE
INVARIANTS OwnReply
