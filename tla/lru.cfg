CONSTANTS
  CacheSize = 3
  Key = {"a", "b", "c", "d"}
  NoKey = "none"
  Value = {"s0", "s1", "-1"}
  NoValue = "-1"
  Thread = {t1}
  Index <- MCIndex
  EmptyRank = 2
  MaxRank = 7
SPECIFICATION Spec
INVARIANTS TypeOK AnswersItsPath
PROPERTY RecencyList
\* lookups end at the bound MaxRank
CHECK_DEADLOCK FALSE
