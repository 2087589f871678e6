------------------------------- MODULE LsmTree -------------------------------
(***************************************************************************)
(* The log-structured merge tree of Java-LSM (LsmTree, MemTable, SSTable): *)
(* put and delete go to the write-ahead log and the memtable; flush writes *)
(* the memtable to a new SSTable and truncates the log; compact merges all *)
(* SSTables into one and deletes the old files; the process may crash      *)
(* between any two changes of the disk, and the constructor recovers.      *)
(*                                                                         *)
(* A table, the memtable and the log are maps from keys to entries: of the *)
(* log only what replay makes of it matters here (WriteAheadLog models its *)
(* bytes), and of a table only what get and range find in it.  The public  *)
(* methods are synchronized, so a step is one change of the disk together  *)
(* with the changes of memory around it.                                   *)
(***************************************************************************)
EXTENDS Integers, Sequences

CONSTANTS
  Keys, Values,
  Tombstone,    \* the entry of a deleted key
  NoEntry,      \* a map says nothing about the key
  Absent,       \* get returns null
  Threshold,    \* compactionThreshold
  MaxGen,       \* bound on the generation counter
  CrashAt       \* the positions at which the process may crash

ASSUME ThresholdAssumption == Threshold \in Nat
ASSUME MaxGenAssumption == MaxGen \in Nat
ASSUME EntryAssumption ==
  /\ NoEntry \notin Values \cup {Tombstone}
  /\ Tombstone \notin Values
  /\ Absent \notin Values

VARIABLES
  wal,       \* disk: what replaying wal.log gives
  files,     \* disk: the complete SSTable files, by generation
  partial,   \* disk: generations of SSTable files whose writing has not finished
  mem,       \* memtable
  tables,    \* sstables: generations, index 1 = newest
  maxGen,    \* maxGen
  dying,     \* tables that compact still has to delete
  arg,       \* the key and entry of the running put or delete
  pc,        \* position in the running method; "ready" between methods
  closing,   \* the running method is close
  want       \* history: the value last written to each key

disk == <<wal, files, partial>>
memory == <<mem, tables, maxGen, dying, arg>>
vars == <<disk, memory, pc, closing, want>>

Entries == Values \cup {Tombstone}
Maps == [Keys -> Entries \cup {NoEntry}]
EmptyMap == [k \in Keys |-> NoEntry]
ValueOf(e) == IF e \in {Tombstone, NoEntry} THEN Absent ELSE e

Init ==
  /\ wal = EmptyMap /\ files = [g \in {} |-> EmptyMap] /\ partial = {}
  /\ mem = EmptyMap /\ tables = <<>> /\ maxGen = 0 /\ dying = <<>>
  /\ arg = <<>>
  /\ pc = "ready" /\ closing = FALSE
  /\ want = [k \in Keys |-> Absent]

-----------------------------------------------------------------------------
(* Reads.                                                                  *)

\* Mutant of Lookup: oldest table first.
LookupOldest(ts, k) ==
  IF \E i \in DOMAIN ts : files[ts[i]][k] # NoEntry
  THEN files[ts[CHOOSE i \in DOMAIN ts :
                  /\ files[ts[i]][k] # NoEntry
                  /\ \A j \in DOMAIN ts : j > i => files[ts[j]][k] = NoEntry]][k]
  ELSE NoEntry

\* The entry for k in the first table of the list that has one.
Lookup(ts, k) ==
  IF \E i \in DOMAIN ts : files[ts[i]][k] # NoEntry
  THEN files[ts[CHOOSE i \in DOMAIN ts :
                  /\ files[ts[i]][k] # NoEntry
                  /\ \A j \in DOMAIN ts : j < i => files[ts[j]][k] = NoEntry]][k]
  ELSE NoEntry

\* get: the memtable first (a null there is a tombstone), then newest to oldest.
Get(k) == IF mem[k] # NoEntry THEN ValueOf(mem[k]) ELSE ValueOf(Lookup(tables, k))

-----------------------------------------------------------------------------
(* Writes.                                                                 *)

Return == /\ pc' = IF closing THEN "closed" ELSE "ready"
          /\ UNCHANGED closing

\* put and delete: append to the log, which returns when the record is written.
AppendLog(k, e) ==
  /\ pc = "ready"
  /\ wal' = [wal EXCEPT ![k] = e]
  /\ want' = [want EXCEPT ![k] = ValueOf(e)]
  /\ arg' = <<k, e>>
  /\ pc' = "logged"
  /\ UNCHANGED <<files, partial, mem, tables, maxGen, dying, closing>>

\* ... then update the memtable, and flush if it is full (approxBytes has
\* reached the limit, which depends on the lengths of keys and values).
Apply ==
  /\ pc = "logged"
  /\ mem' = [mem EXCEPT ![arg[1]] = arg[2]]
  /\ arg' = <<>>
  /\ pc' \in {"ready", "flush"}
  /\ UNCHANGED <<disk, tables, maxGen, dying, closing, want>>

\* The public flush, and close, which flushes and then closes the files.
Flush ==
  /\ pc = "ready"
  /\ pc' = "flush"
  /\ UNCHANGED <<disk, memory, closing, want>>

Close ==
  /\ pc = "ready"
  /\ pc' = "flush" /\ closing' = TRUE
  /\ UNCHANGED <<disk, memory, want>>

FlushBegin ==
  /\ pc = "flush"
  /\ \/ /\ mem = EmptyMap /\ Return
        /\ UNCHANGED <<disk, memory, want>>
     \/ /\ mem # EmptyMap /\ maxGen < MaxGen
        /\ maxGen' = maxGen + 1
        /\ partial' = partial \cup {maxGen + 1}
        /\ pc' = "flushing"
        /\ UNCHANGED <<wal, files, mem, tables, dying, arg, closing, want>>

\* The file that was being written is complete (its magic is there).
Complete(t) ==
  /\ files' = [g \in DOMAIN files \cup {maxGen} |-> IF g = maxGen THEN t ELSE files[g]]
  /\ partial' = partial \ {maxGen}

\* Mutant of FlushWrite: the new table goes to the end of the list.
FlushWriteLast ==
  /\ pc = "flushing"
  /\ Complete(mem)
  /\ tables' = Append(tables, maxGen)
  /\ mem' = EmptyMap
  /\ pc' = "truncate"
  /\ UNCHANGED <<wal, maxGen, dying, arg, closing, want>>

FlushWrite ==
  /\ pc = "flushing"
  /\ Complete(mem)
  /\ tables' = <<maxGen>> \o tables
  /\ mem' = EmptyMap
  /\ pc' = "truncate"
  /\ UNCHANGED <<wal, maxGen, dying, arg, closing, want>>

Truncate ==
  /\ pc = "truncate"
  /\ wal' = EmptyMap
  /\ IF Len(tables) > Threshold THEN pc' = "compact" /\ UNCHANGED closing ELSE Return
  /\ UNCHANGED <<files, partial, memory, want>>

-----------------------------------------------------------------------------
(* Compaction.                                                             *)

Compact ==
  /\ pc = "ready"
  /\ pc' = "compact"
  /\ UNCHANGED <<disk, memory, closing, want>>

CompactBegin ==
  /\ pc = "compact"
  /\ \/ /\ Len(tables) <= 1 /\ Return
        /\ UNCHANGED <<disk, memory, want>>
     \/ /\ Len(tables) > 1 /\ maxGen < MaxGen
        /\ maxGen' = maxGen + 1
        /\ partial' = partial \cup {maxGen + 1}
        /\ pc' = "compacting"
        /\ UNCHANGED <<wal, files, mem, tables, dying, arg, closing, want>>

\* The newest entry of every key, without the tombstones.
Merged ==
  [k \in Keys |-> LET e == Lookup(tables, k) IN IF e = Tombstone THEN NoEntry ELSE e]

CompactWrite ==
  /\ pc = "compacting"
  /\ Complete(Merged)
  /\ tables' = <<maxGen>>
  /\ dying' = tables
  /\ pc' = "delete"
  /\ UNCHANGED <<wal, mem, maxGen, arg, closing, want>>

\* The old files go one by one, newest first ("deleting": some are gone).
DeleteOld ==
  /\ pc \in {"delete", "deleting"}
  /\ files' = [g \in DOMAIN files \ {Head(dying)} |-> files[g]]
  /\ dying' = Tail(dying)
  /\ IF Len(dying) = 1 THEN Return ELSE pc' = "deleting" /\ UNCHANGED closing
  /\ UNCHANGED <<wal, partial, mem, tables, maxGen, arg, want>>

-----------------------------------------------------------------------------
(* Crash and recovery.                                                     *)

Crash ==
  /\ pc \in CrashAt
  /\ mem' = EmptyMap /\ tables' = <<>> /\ dying' = <<>> /\ maxGen' = 0
  /\ arg' = <<>>
  /\ pc' = "down" /\ closing' = FALSE
  /\ UNCHANGED <<disk, want>>

\* The files of the directory, newest first.
IsNewestFirst(ts) ==
  /\ \A g \in DOMAIN files : \E i \in DOMAIN ts : ts[i] = g
  /\ \A i \in DOMAIN ts : ts[i] \in DOMAIN files
  /\ \A i, j \in DOMAIN ts : i < j => ts[i] > ts[j]

\* The constructor: open every SSTable, then put what replay delivers, m, into the
\* empty memtable.
OpenWith(m) ==
  /\ pc \in {"down", "closed"} /\ partial = {}
  /\ \E n \in 0 .. MaxGen : \E ts \in [1 .. n -> DOMAIN files] :
       /\ IsNewestFirst(ts)
       /\ tables' = ts
       /\ maxGen' = IF n = 0 THEN 0 ELSE ts[1]
  /\ mem' = m /\ dying' = <<>> /\ arg' = <<>>
  /\ pc' = "ready" /\ closing' = FALSE
  /\ UNCHANGED <<disk, want>>

Open == OpenWith(wal)

\* A file without its footer: the constructor throws "not an SSTable".
OpenFails ==
  /\ pc \in {"down", "closed"} /\ partial # {}
  /\ pc' = "unopenable"
  /\ UNCHANGED <<disk, memory, closing, want>>

-----------------------------------------------------------------------------
Next ==
  \/ \E k \in Keys, e \in Entries : AppendLog(k, e)
  \/ Apply \/ Flush \/ Close \/ FlushBegin \/ FlushWrite \/ Truncate
  \/ Compact \/ CompactBegin \/ CompactWrite \/ DeleteOld
  \/ Crash \/ Open \/ OpenFails

Spec == Init /\ [][Next]_vars

-----------------------------------------------------------------------------
(* Properties.                                                             *)

Positions == {"ready", "logged", "flush", "flushing", "truncate", "compact", "compacting",
              "delete", "deleting", "closed", "down", "unopenable"}

\* Type invariant of the tree, in memory and on disk.
TypeOK ==
  /\ wal \in Maps /\ mem \in Maps
  /\ DOMAIN files \subseteq 1 .. MaxGen
  /\ files = [g \in DOMAIN files |-> files[g]]
  /\ \A g \in DOMAIN files : files[g] \in Maps
  /\ partial \subseteq 1 .. MaxGen
  /\ tables \in Seq(1 .. MaxGen) /\ dying \in Seq(1 .. MaxGen)
  /\ maxGen \in 0 .. MaxGen
  /\ pc \in Positions /\ closing \in BOOLEAN
  /\ pc = "logged" => arg \in Keys \X Entries
  /\ want \in [Keys -> Values \cup {Absent}]

\* A log that replay turns into w, and the complete SSTables, say v of k.  That is
\* what get(k) returns once they are opened; whether they can be is another question.
OnDisk(w, k, v) ==
  \/ w[k] # NoEntry /\ v = ValueOf(w[k])
  \/ /\ w[k] = NoEntry
     /\ \E g \in DOMAIN files :
          /\ files[g][k] # NoEntry /\ v = ValueOf(files[g][k])
          /\ \A h \in DOMAIN files : h > g => files[h][k] = NoEntry
  \/ /\ w[k] = NoEntry /\ v = Absent
     /\ \A g \in DOMAIN files : files[g][k] = NoEntry

\* A crash destroys no write and brings back no deleted key: wherever the process
\* may crash in put, flush, truncate and compact, while it is down, and when the
\* constructor has given up, the log and the complete SSTables say of each key what
\* was last written to it.  Not claimed: that the tree can be opened.  A crash inside
\* SSTable.write leaves a file without a footer (partial # {}), on which the
\* constructor throws although everything is there (OpenFails; SSTable.java:106-113,
\* against LsmTree.java:28-30).
Durable ==
  pc \in CrashAt \cup {"down", "unopenable"} => \A k \in Keys : OnDisk(wal, k, want[k])

\* get returns the value last written, across flushes, compactions and recovery.
ReadsLatest == pc = "ready" => \A k \in Keys : Get(k) = want[k]

\* The list of open SSTables is the directory, newest first: no table that get
\* consults has been deleted, and no file is on disk that a reopen would bring
\* back although compaction has replaced it.
TablesMatchDisk == pc = "ready" => IsNewestFirst(tables)
=============================================================================
