CONSTANTS
  Client = {"c1", "c2"}
  File = {"x", "y"}
  Absent = Absent
  InitFile <- MCInitFile
  Ask <- MCAsk
  Forwarded <- MCForwarded
  Old = "old"
  LoopsOn = {TRUE}
  Mortal = {"c1"}
  MaxChunks = 2
  MaxForwards = 2
SPECIFICATION FairSpec
INVARIANTS TypeOK WriteWhole ReadWhole ListingOfDisk ExecutedOnce SuccessIsTrue
PROPERTIES ServedUnlessGone ForwardedAtOnce
\* every client and every forwarded request may have been answered
CHECK_DEADLOCK FALSE
