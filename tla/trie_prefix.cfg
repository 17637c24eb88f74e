CONSTANTS
  Char <- MCChar
  Slash = "/"
  Text <- MCPrefixText
  Server = {s0, s1}
  NoServer = NoServer
  Unmarked = Unmarked
SPECIFICATION Spec
INVARIANT FoundUnlessDeleted
CHECK_DEADLOCK TRUE
