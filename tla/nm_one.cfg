CONSTANTS
  Char <- MCChar
  Slash = "/"
  Text <- MCText
  Server = {0, 1}
  NoServer = NoServer
  Unmarked = Unmarked
  Thread = {t1}
  NumInitServers = 1
  CacheSize = 2
  NoText = NoText
  InitDisk <- MCDisk
  Request <- MCRequest
  ZeroID = 0
  Mortal = {1}
SPECIFICATION FairSpec
INVARIANTS TypeOK RoutesOnline RoutesKnown ListingFresh RoutedFilesExist FilesFound EffectVisible
PROPERTY EveryRequestEnds
