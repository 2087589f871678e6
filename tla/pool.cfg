SPECIFICATION FairSpec
CONSTANTS
  N = 2
  Clients = {c1}
  Tasks = {x1, x2}
  None = None
INVARIANTS IdleMeansDone
PROPERTIES EveryTaskRuns WaitIdleReturns DestructorReturns
CHECK_DEADLOCK FALSE
