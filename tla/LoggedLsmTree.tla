---------------------------- MODULE LoggedLsmTree ----------------------------
(***************************************************************************)
(* LsmTree with its write-ahead log as a file of bytes.  Here append writes*)
(* the bytes of a record, the process may die with only some of them       *)
(* written, and the constructor opens the file for appending, whatever it  *)
(* ends with, and fills the memtable with what replay parses.  LsmTree's   *)
(* `wal' stays as a history variable: what replaying the log ought to give.*)
(***************************************************************************)
EXTENDS LsmTree, WriteAheadLog, FiniteSetsExt

CONSTANT MaxRecords    \* bound on the records begun between two truncations

ASSUME LogAssumption == MaxRecords \in Nat
ASSUME BytesAssumption ==
  \A x \in Keys \cup Values : x \in Seq(Byte) /\ Len(x) <= MaxInt

VARIABLES
  log,       \* the bytes of wal.log
  records,   \* how many records were begun since the last truncation
  tail,      \* history: the log ends with a whole record ("whole"), with the part
             \* of one that a crash has left ("torn"), or has more bytes behind such
             \* a part ("buried")
  misread    \* history: the constructor has replayed a buried log

logVars == <<log, records, tail, misread>>

LInit == Init /\ log = <<>> /\ records = 0 /\ tail = "whole" /\ misread = FALSE

\* append returns when the whole record has been handed to the operating system.
LAppend(k, e) ==
  /\ records < MaxRecords
  /\ AppendLog(k, e)
  /\ log' = log \o Encode(k, e, Tombstone)
  /\ records' = records + 1
  /\ tail' = IF tail = "whole" THEN "whole" ELSE "buried"
  /\ UNCHANGED misread

\* The process dies inside the append of a put or delete, which has not returned,
\* with the first n bytes of the record written.
CrashInAppend(k, e, n) ==
  /\ records < MaxRecords
  /\ pc = "ready" /\ n < Len(Encode(k, e, Tombstone))
  /\ Crash
  /\ log' = log \o SubSeq(Encode(k, e, Tombstone), 1, n)
  /\ records' = records + 1
  /\ tail' = IF tail = "whole" THEN "torn" ELSE "buried"
  /\ UNCHANGED misread

\* truncate opens the file anew and empty.
LTruncate ==
  /\ Truncate
  /\ log' = <<>> /\ records' = 0 /\ tail' = "whole"
  /\ UNCHANGED misread

\* What recoverFromLog makes of the records that replay delivers: they are put into
\* the memtable one after the other, so the last record of a key counts.  (A buried
\* log may also yield keys nobody has written; those outside Keys are left out.)
LastEntry(rs, k) ==
  LET at == {i \in DOMAIN rs : rs[i][1] = k}
  IN  IF at = {} THEN NoEntry ELSE rs[Max(at)][2]

Replayed == LET rs == Replay(log, Tombstone) IN [k \in Keys |-> LastEntry(rs, k)]

ReplayThrows ==
  LET rs == Replay(log, Tombstone) IN \E i \in DOMAIN rs : rs[i] = Thrown

\* Mutant of LOpen: the log is opened for writing anew instead of appending.
LOpenTruncates ==
  /\ ~ReplayThrows
  /\ OpenWith(Replayed)
  /\ log' = <<>> /\ records' = 0 /\ tail' = "whole"
  /\ misread' = (misread \/ tail = "buried")

\* The constructor.
LOpen ==
  /\ ~ReplayThrows
  /\ OpenWith(Replayed)
  /\ misread' = (misread \/ tail = "buried")
  /\ UNCHANGED <<log, records, tail>>

\* The constructor, when replay throws: there is no tree.
LOpenThrows ==
  /\ pc \in {"down", "closed"} /\ partial = {} /\ ReplayThrows
  /\ pc' = "unopenable"
  /\ misread' = (misread \/ tail = "buried")
  /\ UNCHANGED <<disk, memory, closing, want, log, records, tail>>

LNext ==
  \/ \E k \in Keys, e \in Entries : LAppend(k, e)
  \/ \E k \in Keys, e \in Entries :
       \E n \in 1 .. Len(Encode(k, e, Tombstone)) - 1 : CrashInAppend(k, e, n)
  \/ LTruncate \/ LOpen \/ LOpenThrows
  \/ /\ \/ Apply \/ Flush \/ Close \/ FlushBegin \/ FlushWrite
        \/ Compact \/ CompactBegin \/ CompactWrite \/ DeleteOld
        \/ Crash \/ OpenFails
     /\ UNCHANGED logVars

LSpec == LInit /\ [][LNext]_<<vars, logVars>>

-----------------------------------------------------------------------------
(* The constructor opens the log for appending behind the part of a record *)
(* that a crash has left (WriteAheadLog.java:32-35), and nothing truncates *)
(* it before the next flush.  replay then takes the bytes of the next      *)
(* record for the rest of that one: acknowledged writes are lost or        *)
(* misread, or the constructor throws, although LsmTree.java:28-30 and     *)
(* WriteAheadLog.java:24-26 say otherwise.  The properties below are about *)
(* every other case, and name this one by `tail' and `misread'.            *)

\* While the log is not buried, replaying its bytes gives every write acknowledged
\* since the last flush and nothing else, without an exception: a record torn by a
\* crash is neither delivered nor taken for another, and hides none before it.
ReplayGivesWritten == tail # "buried" => ~ReplayThrows /\ Replayed = wal

\* While the log is not buried and none was misread, a crash destroys no write and
\* brings back no deleted key (Durable), of what is parsed from the bytes on disk.
LoggedDurable ==
  (~misread /\ tail # "buried") =>
    (pc \in CrashAt \cup {"down", "unopenable"} =>
       \A k \in Keys : OnDisk(Replayed, k, want[k]))

\* Unless a buried log was replayed, get returns the value last written, across
\* flushes, compactions and recoveries from the bytes of the log.
LoggedReadsLatest == ~misread => ReadsLatest
=============================================================================
