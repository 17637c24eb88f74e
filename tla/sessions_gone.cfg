CONSTANTS
  Char <- MCChar
  Slash = "/"
  Text <- MCText
  Server = {0}
  NoServer = NoServer
  Unmarked = Unmarked
  Thread = {t1}
  NumInitServers = 1
  CacheSize = 1
  NoText = NoText
  InitDisk <- OneDisk
  Request <- MCRequest
  Mortal = {}
  ZeroID = 0
  Client = {c1}
  NoClient = NoClient
  LastID = 0
  MaxAsks = 1
SPECIFICATION SessionsFairSpec
PROPERTY SlotFreed
CHECK_DEADLOCK FALSE
