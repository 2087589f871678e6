SPECIFICATION Spec
CONSTANTS
  Keys = {k1, k2}
  Values = {v1, v2}
  Tombstone = Tombstone
  NoEntry = NoEntry
  Absent = Absent
  Threshold = 2
  MaxGen = 4
  CrashAt = {"ready", "deleting"}
SYMMETRY Symmetry
INVARIANT Durable
