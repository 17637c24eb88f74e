CONSTANTS
  Char <- MCChar
  Slash = "/"
  Text <- MCText
  Server = {0}
  NoServer = NoServer
  Unmarked = Unmarked
  Thread = {t1, t2}
  NumInitServers = 1
  CacheSize = 1
  NoText = NoText
  InitDisk <- OneDisk
  Request <- MCRequest
  Mortal = {0}
  ZeroID = 0
  Client = {c1, c2}
  NoClient = NoClient
  LastID = 0
  MaxAsks = 2
SPECIFICATION SessionsSpec
INVARIANTS SessionsTypeOK RoutesOnline AnswersInStep DoneOnce EndedByLeaver
CHECK_DEADLOCK FALSE
