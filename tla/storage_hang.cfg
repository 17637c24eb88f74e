CONSTANTS
  Client = {"c1"}
  File = {"x", "y"}
  Absent = Absent
  InitFile <- MCInitFile
  Ask <- MCAsk
  Forwarded <- MCForwarded
  Old = "old"
  LoopsOn = {TRUE}
  Mortal = {"c1"}
  MaxChunks = 2
  MaxForwards = 1
SPECIFICATION FairSpec
PROPERTY ForwardedIsAnswered
CHECK_DEADLOCK FALSE
