SPECIFICATION LSpec
CONSTANTS
  Keys <- MCKeys
  Values <- MCValues
  Tombstone = Tombstone
  NoEntry = NoEntry
  Absent = Absent
  Threshold = 2
  MaxGen = 3
  CrashAt = {"ready", "logged", "flush", "flushing", "truncate", "compact", "compacting", "delete"}
  MaxRecords = 2
INVARIANTS LoggedDurable LoggedReadsLatest TablesMatchDisk ReplayGivesWritten
CONSTRAINT NotMisread
CHECK_DEADLOCK FALSE
