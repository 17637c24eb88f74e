CONSTANTS
  Char <- MCChar
  Slash = "/"
  Text <- MCText
  Server = {0}
  NoServer = NoServer
  Unmarked = Unmarked
  Thread = {t1}
  NumInitServers = 1
  CacheSize = 1
  NoText = NoText
  InitDisk <- TwoDisk
  Request <- ListRequest
  Mortal = {}
  ZeroID = 0
  Client = {c1}
  NoClient = NoClient
  LastID = 0
  MaxAsks = 3
SPECIFICATION SessionsSpec
INVARIANT StatusIsOwn
CHECK_DEADLOCK FALSE
