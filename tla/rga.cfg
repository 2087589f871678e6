SPECIFICATION FairSpec
CONSTANTS
  Replicas = {1, 2}
  Root = Root
  Undefined = Undefined
  MaxOps = 3
  MaxDeferred = 2
INVARIANTS Converged OrderAgrees
PROPERTIES InsertLandsAtIndex NoResurrection EventuallyConsistent
CHECK_DEADLOCK FALSE
