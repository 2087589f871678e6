SPECIFICATION FairSpec
CONSTANTS
  N = 3
  Values = {v1, v2}
  Thenables = {t}
  TypeError = TypeError
  None = None
  Uses = {"then", "all", "race"}
  MaxPairs = 2
INVARIANTS  HandledExactlyOnce CombinatorsMatchItems
PROPERTIES RunInOrder CombinatorsSettle
CHECK_DEADLOCK FALSE
