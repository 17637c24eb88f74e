CONSTANTS
  Client = {"c1"}
  File = {"x", "y"}
  Absent = Absent
  InitFile <- MCInitFile
  Ask <- MCAsk
  Forwarded <- MCForwarded
  Old = "old"
  LoopsOn = {TRUE}
  Mortal = {}
  MaxChunks = 2
  MaxForwards = 1
SPECIFICATION Spec
INVARIANT FoundIfThere
CHECK_DEADLOCK FALSE
