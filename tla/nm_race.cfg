CONSTANTS
  Char <- MCChar
  Slash = "/"
  Text <- TwoText
  Server = {0}
  NoServer = NoServer
  Unmarked = Unmarked
  Thread = {t1, t2}
  NumInitServers = 1
  CacheSize = 1
  NoText = NoText
  InitDisk <- OneDisk
  Request <- OneRequest
  ZeroID = 0
  Mortal = {}
SPECIFICATION Spec
INVARIANT ListingFresh
