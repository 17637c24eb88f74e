CONSTANTS
  Char <- MCChar
  Slash = "/"
  Text <- MCText
  Server = {0}
  NoServer = NoServer
  Unmarked = Unmarked
  Thread = {t1}
  NumInitServers = 1
  CacheSize = 1
  NoText = NoText
  InitDisk <- OneDisk
  Request <- MCRequest
  Mortal = {0}
  ZeroID = 0
  Client = {c1, c2}
  NoClient = NoClient
  LastID = 0
  MaxAsks = 3
SPECIFICATION SessionsFairSpec
PROPERTY EveryClientAnswered
CHECK_DEADLOCK FALSE
