SPECIFICATION WFairSpec
CONSTANTS
  Tasks = {x1, x2}
  NoTask = NoTask
  Thieves = {p1, p2}
  InitCap = 1
  InOrder = TRUE
INVARIANTS NoneTwice NoneLost
PROPERTIES PopNullOnlyWhenEmpty RefinesAbstractDeque EveryTaskTaken
