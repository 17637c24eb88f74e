CONSTANTS
  Char <- MCChar
  Slash = "/"
  Text <- MCTreeText
  Server = {s0, s1}
  NoServer = NoServer
  Unmarked = Unmarked
  Thread = {t1, t2}
  Top = Top
  MaxCalls = 3
SPECIFICATION ThreadsSpec
INVARIANTS TypeOK ThreadsTypeOK FoundUnlessDeleted NodesFollow UndisturbedFound SearchesAgree
PROPERTY TreeIndex
SYMMETRY Symmetry
CHECK_DEADLOCK FALSE
