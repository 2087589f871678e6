SPECIFICATION Spec
CONSTANTS
  a = a  b = b  c1 = c1  c2 = c2  d = d  e1 = e1  e2 = e2
  Sigs = {a, b}
  Computeds = {c1, c2, d}
  Effects = {e1, e2}
  Values = {0, 1, 2, 3}
  Initial = 0
  Undefined = Undefined
  MaxBatch = 2
  MaxCalls = 8
  Domain <- MCDomain
  Body <- MCBody
  Depth <- MCDepth
INVARIANTS CleanIsCurrent EffectsCurrent
PROPERTIES NoGlitch NoRedundantRun
CHECK_DEADLOCK FALSE
