---------------------------- MODULE LsmTreeProof ----------------------------
(***************************************************************************)
(* Proofs about LsmTree, for every set of keys and values, every           *)
(* compaction threshold and every set of crash points that leaves out the  *)
(* middle of compaction's deletion loop ("deleting"), and about            *)
(* LoggedLsmTree, for any keys and values that are byte strings.           *)
(*                                                                         *)
(* The first part takes the log for the map it stands for.  Durable and    *)
(* ReadsLatest are carried by LInv:                                        *)
(*  - GenInv: generations only grow, so the file being written is the      *)
(*    newest;                                                              *)
(*  - TablesInv: the open tables are the directory, newest first;          *)
(*  - MemInv: the memtable is what replaying the log would give;           *)
(*  - DiskInv: the disk says what `want' says; once compaction has written *)
(*    its table, the log and that table alone do.                          *)
(*                                                                         *)
(* The second part is about the bytes of the log, however many records and *)
(* however long: until something is appended behind the part of a record   *)
(* that a crash has left, what replay makes of them is what was            *)
(* acknowledged (ReplayGivesWritten).  So, as long as the constructor has  *)
(* replayed no other log (~misread), the memtable that it fills from the   *)
(* bytes is the one LsmTree's Open assumes, every step of the tree over its*)
(* log is a step of LsmTree (StepImplements), and LInv carries over        *)
(* (LInvUnlessMisread).                                                    *)
(*                                                                         *)
(* ReplayGivesWritten compares two values and says nothing of the bytes    *)
(* from which the next one will be read.  What is kept besides is that the *)
(* log, while it is whole, is Intact: a set of starting positions leads    *)
(* from its first byte to its end.  Then what is appended is read behind   *)
(* the records that are there (ReadOn), a whole record as it was written   *)
(* (ReadBack), and a torn one not at all (TornNotWhole).  The recursion of *)
(* replay goes from left to right, so these are inductions from the end of *)
(* the file backwards (Downwards).                                         *)
(***************************************************************************)
EXTENDS LoggedLsmTree, WellFoundedInduction, SequenceTheorems, TLAPS

Up == pc \in {"ready", "logged", "flush", "flushing", "truncate", "compact",
              "compacting", "delete", "deleting"}
Deleting == pc \in {"delete", "deleting"}

GenInv ==
  /\ Up => \A g \in DOMAIN files : g <= maxGen
  /\ pc \in {"flushing", "compacting"} => maxGen \in 1 .. MaxGen /\ maxGen \notin DOMAIN files

TablesInv ==
  /\ Up /\ ~Deleting => IsNewestFirst(tables)
  /\ pc = "compacting" => Len(tables) > 1
  /\ Deleting =>
       /\ maxGen \in DOMAIN files /\ tables = <<maxGen>> /\ dying # <<>>
       /\ \A i \in 1 .. Len(dying) : dying[i] # maxGen
       /\ \A g \in DOMAIN files : g = maxGen \/ \E i \in 1 .. Len(dying) : dying[i] = g

MemInv ==
  /\ Up /\ pc \notin {"logged", "truncate"} => mem = wal
  /\ pc = "logged" => wal = [mem EXCEPT ![arg[1]] = arg[2]]
  /\ pc = "truncate" => mem = EmptyMap /\ maxGen \in DOMAIN files /\ files[maxGen] = wal

HasNewest(k) ==
  \/ \A g \in DOMAIN files : files[g][k] = NoEntry
  \/ \E g \in DOMAIN files :
       files[g][k] # NoEntry /\ \A h \in DOMAIN files : h > g => files[h][k] = NoEntry

DiskInv ==
  /\ pc # "deleting" => \A k \in Keys : OnDisk(wal, k, want[k]) /\ HasNewest(k)
  /\ Deleting => \A k \in Keys :
       want[k] = ValueOf(IF wal[k] # NoEntry THEN wal[k] ELSE files[maxGen][k])

LInv == TypeOK /\ GenInv /\ TablesInv /\ MemInv /\ DiskInv

-----------------------------------------------------------------------------
(* Induction over naturals, up and down, and what it defines.              *)

\* A set of naturals has a least element.
LEMMA LeastOf ==
  ASSUME NEW T \in SUBSET Nat, T # {}
  PROVE  \E x \in T : \A y \in T : x <= y
<1> DEFINE R == OpToRel(<, Nat)
<1>1. IsWellFoundedOn(R, Nat) BY NatLessThanWellFounded
<1> HIDE DEF R
<1>2. \E x \in T : \A y \in T : <<y, x>> \notin R BY <1>1, WFMin
<1>3. \A x, y \in Nat : y < x => <<y, x>> \in R BY DEF R, OpToRel
<1>4. PICK x \in T : \A y \in T : <<y, x>> \notin R BY <1>2
<1>5. ASSUME NEW y \in T PROVE x <= y
  <2>1. ~(y < x) BY <1>3, <1>4
  <2>2. x \in Int /\ y \in Int OBVIOUS
  <2> QED BY <2>1, <2>2
<1> QED BY <1>5

\* A set of numbers up to n has a greatest element.
LEMMA GreatestOf ==
  ASSUME NEW n \in Nat, NEW T \in SUBSET (0 .. n), T # {}
  PROVE  \E x \in T : \A y \in T : x >= y
<1> DEFINE U == {k \in 0 .. n : n - k \in T}
<1>1. U \in SUBSET Nat OBVIOUS
<1>2. U # {}
  <2>1. PICK x \in T : TRUE OBVIOUS
  <2>2. n - x \in U
    <3>1. x \in 0 .. n OBVIOUS
    <3>2. n - x \in 0 .. n /\ n - (n - x) = x BY <3>1
    <3> QED BY <3>2
  <2> QED BY <2>2
<1>3. PICK k \in U : \A j \in U : k <= j BY <1>1, <1>2, LeastOf
<1>4. ASSUME NEW y \in T PROVE n - k >= y
  <2>1. y \in 0 .. n /\ k \in 0 .. n OBVIOUS
  <2>2. n - y \in 0 .. n /\ n - (n - y) = y BY <2>1
  <2>3. n - y \in U BY <2>2
  <2> QED BY <2>1, <2>3, <1>3
<1> QED BY <1>4

\* Downwards from n: what holds at i if it holds everywhere above i.
LEMMA Downwards ==
  ASSUME NEW n \in Nat, NEW T \in SUBSET (1 .. n),
         \A i \in 1 .. n : (\A j \in i + 1 .. n : j \in T) => i \in T
  PROVE  T = 1 .. n
<1> DEFINE U == (1 .. n) \ T
<1> SUFFICES ASSUME U # {} PROVE FALSE OBVIOUS
<1>1. U \in SUBSET (0 .. n) OBVIOUS
<1> HIDE DEF U
<1>2. PICK x \in U : \A y \in U : x >= y BY <1>1, GreatestOf
<1>3. x \in 1 .. n BY DEF U
<1>4. \A j \in x + 1 .. n : j \in T BY <1>2, <1>3 DEF U
<1> QED BY <1>3, <1>4 DEF U

\* Upwards from 0.
LEMMA Upwards ==
  ASSUME NEW T \in SUBSET Nat, 0 \in T, \A n \in T : n + 1 \in T
  PROVE  T = Nat
<1> SUFFICES ASSUME Nat \ T # {} PROVE FALSE OBVIOUS
<1>1. PICK x \in Nat \ T : \A y \in Nat \ T : x <= y BY LeastOf
<1>2. x - 1 \in T BY <1>1
<1> QED BY <1>1, <1>2

\* f[i] is the list of items read from i on, each item saying where the next one is,
\* with what is last at the place where reading stops.
Reads(f, n, stop, last, item, next) ==
  f = [i \in 1 .. n |-> IF i \in stop THEN last[i] ELSE <<item[i]>> \o f[next[i]]]

\* A reading that goes upwards is well defined.
LEMMA ReadingExists ==
  ASSUME NEW S, NEW n \in Nat, NEW stop \in SUBSET (1 .. n),
         NEW last \in [1 .. n -> Seq(S)], NEW item \in [(1 .. n) \ stop -> S],
         NEW next \in [(1 .. n) \ stop -> 1 .. n],
         \A i \in (1 .. n) \ stop : next[i] > i
  PROVE  \E f \in [1 .. n -> Seq(S)] : Reads(f, n, stop, last, item, next)
<1> DEFINE ReadsTo(f, m) ==
             \A i \in m .. n :
               f[i] = IF i \in stop THEN last[i] ELSE <<item[i]>> \o f[next[i]]
           T == {k \in Nat : k <= n => \E f \in [n - k + 1 .. n -> Seq(S)] : ReadsTo(f, n - k + 1)}
<1>1. 0 \in T
  <2> DEFINE f == [i \in n - 0 + 1 .. n |-> <<>>]
  <2>1. f \in [n - 0 + 1 .. n -> Seq(S)] /\ ReadsTo(f, n - 0 + 1) OBVIOUS
  <2> QED BY <2>1
<1>2. ASSUME NEW k \in T PROVE k + 1 \in T
  <2> HIDE DEF ReadsTo
  <2> SUFFICES ASSUME k + 1 <= n
               PROVE  \E f \in [n - (k + 1) + 1 .. n -> Seq(S)] : ReadsTo(f, n - (k + 1) + 1)
    OBVIOUS
  <2> USE DEF ReadsTo
  <2> DEFINE m == n - k
  <2>1. m \in 1 .. n /\ n - k + 1 = m + 1 /\ n - (k + 1) + 1 = m OBVIOUS
  <2>2. PICK f \in [m + 1 .. n -> Seq(S)] : ReadsTo(f, m + 1) BY <2>1
  <2> HIDE DEF m
  <2> DEFINE x == IF m \in stop THEN last[m] ELSE <<item[m]>> \o f[next[m]]
             g == [i \in m .. n |-> IF i = m THEN x ELSE f[i]]
  <2>3. x \in Seq(S)
    <3>1. CASE m \in stop BY <2>1, <3>1
    <3>2. CASE m \notin stop
      <4>1. next[m] \in m + 1 .. n /\ item[m] \in S BY <2>1, <3>2
      <4>2. f[next[m]] \in Seq(S) /\ <<item[m]>> \in Seq(S) BY <4>1
      <4> QED BY <3>2, <4>2
    <3> QED BY <3>1, <3>2
  <2> HIDE DEF x
  <2>4. g \in [m .. n -> Seq(S)] BY <2>1, <2>3
  <2>5. ASSUME NEW i \in m .. n
        PROVE  g[i] = IF i \in stop THEN last[i] ELSE <<item[i]>> \o g[next[i]]
    <3>1. i \in 1 .. n BY <2>1
    <3>2. i \notin stop => next[i] \in m + 1 .. n /\ g[next[i]] = f[next[i]] BY <2>1, <3>1
    <3>3. CASE i = m BY <3>2, <3>3 DEF x
    <3>4. CASE i # m
      <4>1. i \in m + 1 .. n BY <2>1, <3>4
      <4>2. g[i] = f[i] BY <4>1, <3>4
      <4> QED BY <2>2, <3>2, <4>1, <4>2
    <3> QED BY <3>3, <3>4
  <2>6. ReadsTo(g, m) BY <2>5
  <2> HIDE DEF g, ReadsTo
  <2> QED BY <2>1, <2>4, <2>6
<1> HIDE DEF T
<1>3. T = Nat
  <2>1. T \in SUBSET Nat BY DEF T
  <2> QED BY <1>1, <1>2, <2>1, Upwards
<1>4. n \in T BY <1>3
<1>5. n - n + 1 = 1 OBVIOUS
<1>6. PICK f \in [1 .. n -> Seq(S)] : ReadsTo(f, 1) BY <1>4, <1>5 DEF T
<1>7. f = [i \in 1 .. n |-> IF i \in stop THEN last[i] ELSE <<item[i]>> \o f[next[i]]] BY <1>6
<1> QED BY <1>7 DEF Reads

-----------------------------------------------------------------------------
(* Reading through the list of tables finds the newest entry on disk.      *)

\* When a table holds the key, Lookup returns the entry of the newest one that does.
LEMMA LookupNewest ==
  ASSUME NEW ts, DOMAIN ts \subseteq Int, IsNewestFirst(ts), NEW k \in Keys,
         NEW g \in DOMAIN files, DOMAIN files \subseteq Int, files[g][k] # NoEntry,
         \A h \in DOMAIN files : h > g => files[h][k] = NoEntry
  PROVE  Lookup(ts, k) = files[g][k]
<1> DEFINE First(i) == /\ files[ts[i]][k] # NoEntry
                       /\ \A j \in DOMAIN ts : j < i => files[ts[j]][k] = NoEntry
<1>1. PICK i \in DOMAIN ts : ts[i] = g BY DEF IsNewestFirst
<1>2. First(i) BY <1>1 DEF IsNewestFirst
<1>3. \A m \in DOMAIN ts : First(m) => m = i BY <1>2
<1>4. (CHOOSE m \in DOMAIN ts : First(m)) = i BY <1>2, <1>3
<1> QED BY <1>1, <1>2, <1>4 DEF Lookup

\* When no table holds the key, Lookup finds nothing.
LEMMA LookupNone ==
  ASSUME NEW ts, IsNewestFirst(ts), NEW k \in Keys,
         \A g \in DOMAIN files : files[g][k] = NoEntry
  PROVE  Lookup(ts, k) = NoEntry
  BY DEF Lookup, IsNewestFirst

\* What the tables say of a key that the log does not mention.
LEMMA LookupWant ==
  ASSUME TypeOK, DOMAIN tables \subseteq Int, IsNewestFirst(tables), NEW k \in Keys,
         OnDisk(wal, k, want[k]), wal[k] = NoEntry
  PROVE  want[k] = ValueOf(Lookup(tables, k))
<1>0. DOMAIN files \subseteq Int BY MaxGenAssumption DEF TypeOK
<1>1. CASE \E g \in DOMAIN files :
             /\ files[g][k] # NoEntry /\ want[k] = ValueOf(files[g][k])
             /\ \A h \in DOMAIN files : h > g => files[h][k] = NoEntry
  BY <1>0, <1>1, LookupNewest
<1>2. CASE want[k] = Absent /\ \A g \in DOMAIN files : files[g][k] = NoEntry
  BY <1>2, LookupNone DEF ValueOf
<1> QED BY <1>1, <1>2 DEF OnDisk

\* Lookup returns an entry or nothing.
LEMMA LookupType ==
  ASSUME TypeOK, DOMAIN tables \subseteq Int, IsNewestFirst(tables), NEW k \in Keys,
         HasNewest(k)
  PROVE  Lookup(tables, k) \in Entries \cup {NoEntry}
<1>0. DOMAIN files \subseteq Int /\ \A g \in DOMAIN files : files[g][k] \in Entries \cup {NoEntry}
  BY MaxGenAssumption DEF TypeOK, Maps
<1> QED BY <1>0, LookupNewest, LookupNone DEF HasNewest

-----------------------------------------------------------------------------
(* Type correctness.                                                       *)

\* The empty sequence, as a member of Seq.
LEMMA EmptyIsSeq == \A S : <<>> \in Seq(S)
  OBVIOUS

\* A tree opened on an empty directory satisfies the invariant.
LEMMA InitInv == Init => LInv
<1> SUFFICES ASSUME Init PROVE LInv OBVIOUS
<1>1. EmptyMap \in Maps BY DEF EmptyMap, Maps
<1>2. DOMAIN files = {} /\ files = [g \in DOMAIN files |-> files[g]] BY DEF Init
<1>3. TypeOK
  <2>1. tables \in Seq(1 .. MaxGen) /\ dying \in Seq(1 .. MaxGen) BY EmptyIsSeq DEF Init
  <2>2. want \in [Keys -> Values \cup {Absent}] BY DEF Init
  <2>3. maxGen \in 0 .. MaxGen BY MaxGenAssumption DEF Init
  <2> QED BY <1>1, <1>2, <2>1, <2>2, <2>3 DEF Init, TypeOK, Positions
<1>4. GenInv BY <1>2 DEF Init, GenInv
<1>5. TablesInv BY <1>2 DEF Init, TablesInv, IsNewestFirst, Deleting
<1>6. MemInv BY DEF Init, MemInv
<1>7. DiskInv
  BY <1>2 DEF Init, DiskInv, OnDisk, HasNewest, ValueOf, EmptyMap, Deleting
<1> QED BY <1>3, <1>4, <1>5, <1>6, <1>7 DEF LInv

\* A finished file is a table of the directory.
LEMMA CompleteType ==
  ASSUME TypeOK, NEW t \in Maps, maxGen \in 1 .. MaxGen, Complete(t)
  PROVE  /\ DOMAIN files' = DOMAIN files \cup {maxGen} /\ DOMAIN files' \subseteq 1 .. MaxGen
         /\ files' = [g \in DOMAIN files' |-> files'[g]]
         /\ files'[maxGen] = t
         /\ \A g \in DOMAIN files : g # maxGen => files'[g] = files[g]
         /\ \A g \in DOMAIN files' : files'[g] \in Maps
         /\ partial' \subseteq 1 .. MaxGen
  BY DEF Complete, TypeOK

\* Every step of the tree keeps the types.
LEMMA TypeStep == LInv /\ [Next]_vars => TypeOK'
<1> SUFFICES ASSUME LInv, [Next]_vars PROVE TypeOK' OBVIOUS
<1>0. TypeOK BY DEF LInv
<1>a. EmptyMap \in Maps BY DEF EmptyMap, Maps
<1> USE DEF disk, memory, Positions, Return
<1>1. ASSUME NEW k \in Keys, NEW e \in Entries, AppendLog(k, e) PROVE TypeOK'
  <2>1. ValueOf(e) \in Values \cup {Absent} BY DEF Entries, ValueOf
  <2>2. wal' \in Maps /\ want' \in [Keys -> Values \cup {Absent}] /\ arg' \in Keys \X Entries
    BY <1>0, <1>1, <2>1 DEF AppendLog, TypeOK, Maps
  <2> QED BY <1>0, <1>1, <2>2 DEF AppendLog, TypeOK
<1>2. CASE Apply
  <2>1. mem' \in Maps BY <1>0, <1>2 DEF Apply, TypeOK, Maps
  <2> QED BY <1>0, <1>2, <2>1 DEF Apply, TypeOK
<1>3. CASE Flush \/ Close \/ Compact BY <1>0, <1>3 DEF Flush, Close, Compact, TypeOK
<1>4. CASE FlushBegin \/ CompactBegin
  <2>1. maxGen' \in 0 .. MaxGen /\ partial' \subseteq 1 .. MaxGen
    BY <1>0, <1>4, MaxGenAssumption DEF FlushBegin, CompactBegin, TypeOK
  <2> QED BY <1>0, <1>4, <2>1 DEF FlushBegin, CompactBegin, TypeOK
<1>5. CASE FlushWrite
  <2>1. maxGen \in 1 .. MaxGen /\ mem \in Maps BY <1>0, <1>5 DEF LInv, GenInv, FlushWrite, TypeOK
  <2>2. tables' \in Seq(1 .. MaxGen)
    <3>1. <<maxGen>> \in Seq(1 .. MaxGen) BY <2>1
    <3> QED BY <1>0, <1>5, <3>1, ConcatProperties DEF FlushWrite, TypeOK
  <2> QED BY <1>0, <1>a, <1>5, <2>1, <2>2, CompleteType DEF FlushWrite, TypeOK
<1>6. CASE Truncate BY <1>0, <1>a, <1>6 DEF Truncate, TypeOK
<1>7. CASE CompactWrite
  <2>1. maxGen \in 1 .. MaxGen BY <1>7 DEF LInv, GenInv, CompactWrite
  <2>2. Merged \in Maps
    <3>1. \A k \in Keys : Lookup(tables, k) \in Entries \cup {NoEntry}
      <4>1. IsNewestFirst(tables) /\ \A k \in Keys : HasNewest(k)
        BY <1>7 DEF LInv, TablesInv, DiskInv, Up, Deleting, CompactWrite
      <4>2. DOMAIN tables \subseteq Int BY <1>0 DEF TypeOK
      <4> QED BY <1>0, <4>1, <4>2, LookupType
    <3> QED BY <3>1 DEF Merged, Maps
  <2>3. tables' \in Seq(1 .. MaxGen) /\ dying' \in Seq(1 .. MaxGen)
    BY <1>0, <1>7, <2>1 DEF CompactWrite, TypeOK
  <2> QED BY <1>0, <1>7, <2>1, <2>2, <2>3, CompleteType DEF CompactWrite, TypeOK
<1>8. CASE DeleteOld
  <2>1. dying # <<>> BY <1>8 DEF LInv, TablesInv, Deleting, DeleteOld
  <2>2. dying' \in Seq(1 .. MaxGen)
    BY <1>0, <1>8, <2>1, HeadTailProperties DEF DeleteOld, TypeOK
  <2>3. /\ DOMAIN files' \subseteq 1 .. MaxGen
        /\ files' = [g \in DOMAIN files' |-> files'[g]]
        /\ \A g \in DOMAIN files' : files'[g] \in Maps
    BY <1>0, <1>8 DEF DeleteOld, TypeOK
  <2> QED BY <1>0, <1>8, <2>2, <2>3 DEF DeleteOld, TypeOK
<1>9. CASE Crash
  <2>1. maxGen' \in 0 .. MaxGen BY <1>9, MaxGenAssumption DEF Crash
  <2>2. tables' \in Seq(1 .. MaxGen) /\ dying' \in Seq(1 .. MaxGen) BY <1>9, EmptyIsSeq DEF Crash
  <2> QED BY <1>0, <1>a, <1>9, <2>1, <2>2 DEF Crash, TypeOK
<1>10. CASE Open
  <2>0. PICK n \in 0 .. MaxGen : \E ts \in [1 .. n -> DOMAIN files] :
          tables' = ts /\ maxGen' = IF n = 0 THEN 0 ELSE ts[1]
    BY <1>10 DEF Open, OpenWith
  <2>1. PICK ts \in [1 .. n -> DOMAIN files] :
          tables' = ts /\ maxGen' = IF n = 0 THEN 0 ELSE ts[1]
    BY <2>0
  <2>2. n \in Nat /\ ts \in [1 .. n -> 1 .. MaxGen] BY <1>0, <2>1, MaxGenAssumption DEF TypeOK
  <2>a. ts \in Seq(1 .. MaxGen)
    <3>1. ts \in UNION {[1 .. m -> 1 .. MaxGen] : m \in Nat} BY <2>2
    <3> QED BY <3>1, SeqDef
  <2>3. tables' \in Seq(1 .. MaxGen) /\ dying' \in Seq(1 .. MaxGen)
    BY <1>10, <2>1, <2>a, EmptyIsSeq DEF Open, OpenWith
  <2>4. maxGen' \in 0 .. MaxGen
    <3>1. CASE n = 0 BY <2>1, <3>1, MaxGenAssumption
    <3>2. CASE n # 0
      <4>1. 1 \in 1 .. n BY <2>2, <3>2
      <4>2. ts[1] \in 1 .. MaxGen BY <2>2, <4>1
      <4> QED BY <2>1, <3>2, <4>2, MaxGenAssumption
    <3> QED BY <3>1, <3>2
  <2> QED BY <1>0, <1>10, <2>1, <2>3, <2>4 DEF Open, OpenWith, TypeOK
<1>11. CASE OpenFails BY <1>0, <1>11 DEF OpenFails, TypeOK
<1>12. CASE UNCHANGED vars BY <1>0, <1>12 DEF vars, TypeOK
<1> QED
  BY <1>1, <1>2, <1>3, <1>4, <1>5, <1>6, <1>7, <1>8, <1>9, <1>10, <1>11, <1>12 DEF Next

-----------------------------------------------------------------------------
(* The other conjuncts, action by action.                                  *)

Rest == GenInv /\ TablesInv /\ MemInv /\ DiskInv

\* Steps that change neither the log nor the tables, on disk or in memory, and
\* lead from a running method to a running method or to the end of close.
LEMMA QuietStep ==
  ASSUME LInv, TypeOK', Up, ~Deleting, pc \notin {"logged", "truncate"},
         UNCHANGED <<wal, files, mem, tables, want>>,
         \/ pc' \in {"ready", "flush", "compact", "closed"} /\ maxGen' = maxGen
         \/ pc' \in {"flushing", "compacting"} /\ maxGen' = maxGen + 1,
         pc' = "compacting" => Len(tables) > 1
  PROVE  Rest'
<1>1. GenInv'
  <2>1. maxGen \in Int /\ maxGen' \in 0 .. MaxGen /\ DOMAIN files \subseteq Int
    BY MaxGenAssumption DEF LInv, TypeOK
  <2>2. \A g \in DOMAIN files : g <= maxGen BY DEF LInv, GenInv
  <2>3. CASE pc' \in {"ready", "flush", "compact", "closed"} /\ maxGen' = maxGen
    BY <2>2, <2>3 DEF GenInv, Up
  <2>4. CASE pc' \in {"flushing", "compacting"} /\ maxGen' = maxGen + 1
    <3>1. maxGen' \in 1 .. MaxGen /\ \A g \in DOMAIN files : g <= maxGen' /\ g # maxGen'
      BY <2>1, <2>2, <2>4, MaxGenAssumption DEF LInv, TypeOK
    <3> QED BY <3>1 DEF GenInv
  <2> QED BY <2>3, <2>4
<1>2. TablesInv' BY DEF LInv, TablesInv, Up, Deleting, IsNewestFirst
<1>3. MemInv' BY DEF LInv, MemInv, Up
<1>4. DiskInv' BY DEF LInv, DiskInv, OnDisk, HasNewest, Deleting, Up
<1> QED BY <1>1, <1>2, <1>3, <1>4 DEF Rest

\* put and delete append to the log: the log now says what was written.
LEMMA AppendLogStep ==
  ASSUME LInv, NEW k \in Keys, NEW e \in Entries, AppendLog(k, e)
  PROVE  Rest'
<1>1. e # NoEntry BY EntryAssumption DEF Entries
<1>2. wal \in Maps /\ mem = wal /\ pc = "ready" BY DEF LInv, TypeOK, MemInv, AppendLog, Up
<1>3. GenInv' BY <1>2 DEF LInv, GenInv, AppendLog, Up
<1>4. TablesInv' BY <1>2 DEF LInv, TablesInv, AppendLog, Up, Deleting, IsNewestFirst
<1>5. MemInv' BY <1>2 DEF MemInv, AppendLog, Up
<1>6. DiskInv'
  <2>1. \A x \in Keys : OnDisk(wal, x, want[x])'
    <3>1. SUFFICES ASSUME NEW x \in Keys PROVE OnDisk(wal, x, want[x])' OBVIOUS
    <3>2. CASE x = k
      <4>1. wal'[x] = e /\ want'[x] = ValueOf(e) BY <1>2, <3>2 DEF AppendLog, LInv, TypeOK, Maps
      <4> QED BY <1>1, <4>1 DEF OnDisk
    <3>3. CASE x # k
      <4>1. wal'[x] = wal[x] /\ want'[x] = want[x] /\ files' = files
        BY <1>2, <3>3 DEF AppendLog, LInv, TypeOK, Maps
      <4> QED BY <1>2, <4>1 DEF LInv, DiskInv, OnDisk
    <3> QED BY <3>2, <3>3
  <2>2. \A x \in Keys : HasNewest(x)' BY <1>2 DEF LInv, DiskInv, HasNewest, AppendLog
  <2>3. pc' = "logged" BY DEF AppendLog
  <2> QED BY <2>1, <2>2, <2>3 DEF DiskInv, Deleting
<1> QED BY <1>3, <1>4, <1>5, <1>6 DEF Rest

\* put and delete update the memtable after the log.
LEMMA ApplyStep == ASSUME LInv, Apply PROVE Rest'
<1>1. pc = "logged" /\ UNCHANGED <<wal, files, tables, maxGen, want>> BY DEF Apply, disk
<1>2. GenInv' BY <1>1 DEF LInv, GenInv, Apply, Up
<1>3. TablesInv' BY <1>1 DEF LInv, TablesInv, Apply, Up, Deleting, IsNewestFirst
<1>4. MemInv' BY <1>1 DEF LInv, MemInv, Apply, Up
<1>5. DiskInv' BY <1>1 DEF LInv, DiskInv, OnDisk, HasNewest, Apply, Deleting
<1> QED BY <1>2, <1>3, <1>4, <1>5 DEF Rest

\* A new newest file that says t: every key has a newest entry again.
LEMMA CompleteNewest ==
  ASSUME TypeOK, NEW t \in Maps, maxGen \in 1 .. MaxGen, Complete(t), NEW k \in Keys,
         maxGen \notin DOMAIN files, \A g \in DOMAIN files : g <= maxGen, HasNewest(k)
  PROVE  HasNewest(k)'
<1>1. DOMAIN files \subseteq Int /\ maxGen \in Int BY MaxGenAssumption DEF TypeOK
<1>2. \A g \in DOMAIN files : ~(g > maxGen) /\ g # maxGen BY <1>1
<1>3. CASE t[k] # NoEntry BY <1>1, <1>2, <1>3, CompleteType DEF HasNewest
<1>4. CASE t[k] = NoEntry BY <1>1, <1>2, <1>4, CompleteType DEF HasNewest
<1> QED BY <1>3, <1>4

\* flush completes its file and opens it as the newest table.
LEMMA FlushWriteStep == ASSUME LInv, FlushWrite PROVE Rest'
<1>1. /\ pc = "flushing" /\ pc' = "truncate" /\ mem = wal /\ mem' = EmptyMap
      /\ UNCHANGED <<wal, maxGen, want>> /\ tables' = <<maxGen>> \o tables /\ Complete(mem)
  BY DEF FlushWrite, LInv, MemInv, Up
<1>2. TypeOK /\ mem \in Maps /\ maxGen \in 1 .. MaxGen /\ maxGen \notin DOMAIN files
  BY <1>1 DEF LInv, TypeOK, GenInv
<1>3. DOMAIN files \subseteq Int /\ maxGen \in Int BY <1>2, MaxGenAssumption DEF TypeOK
<1>4. \A g \in DOMAIN files : g < maxGen BY <1>1, <1>2, <1>3 DEF LInv, GenInv, Up
<1>5. /\ DOMAIN files' = DOMAIN files \cup {maxGen} /\ files'[maxGen] = mem
      /\ \A g \in DOMAIN files : files'[g] = files[g]
  BY <1>1, <1>2, CompleteType
<1>6. GenInv' BY <1>1, <1>3, <1>4, <1>5 DEF GenInv
<1>7. TablesInv'
  <2>1. IsNewestFirst(tables) /\ tables \in Seq(1 .. MaxGen)
    BY <1>1 DEF LInv, TablesInv, Up, Deleting, TypeOK
  <2>2. /\ DOMAIN tables = 1 .. Len(tables) /\ Len(tables) \in Nat
        /\ DOMAIN tables' = 1 .. Len(tables) + 1 /\ tables'[1] = maxGen
        /\ \A i \in 2 .. Len(tables) + 1 : tables'[i] = tables[i - 1] /\ i - 1 \in DOMAIN tables
    BY <1>1, <1>2, <2>1
  <2>3. \A g \in DOMAIN files' : \E i \in DOMAIN tables' : tables'[i] = g
    <3>1. SUFFICES ASSUME NEW g \in DOMAIN files PROVE \E i \in DOMAIN tables' : tables'[i] = g
      BY <1>5, <2>2
    <3>2. PICK i \in DOMAIN tables : tables[i] = g BY <2>1 DEF IsNewestFirst
    <3>3. i + 1 \in DOMAIN tables' /\ i + 1 \in 2 .. Len(tables) + 1 /\ (i + 1) - 1 = i BY <2>2
    <3>4. tables'[i + 1] = g BY <2>2, <3>2, <3>3
    <3> QED BY <3>3, <3>4
  <2>4. \A i \in DOMAIN tables' : tables'[i] \in DOMAIN files'
    BY <1>5, <2>1, <2>2 DEF IsNewestFirst
  <2>5. \A i, j \in DOMAIN tables' : i < j => tables'[i] > tables'[j]
    <3>1. SUFFICES ASSUME NEW i \in DOMAIN tables', NEW j \in DOMAIN tables', i < j
                   PROVE  tables'[i] > tables'[j]
      OBVIOUS
    <3>2. j \in 2 .. Len(tables) + 1 BY <2>2, <3>1
    <3>3. tables'[j] = tables[j - 1] /\ tables[j - 1] \in DOMAIN files /\ j - 1 \in DOMAIN tables
      BY <2>1, <2>2, <3>2 DEF IsNewestFirst
    <3>4. CASE i = 1 BY <1>3, <1>4, <2>2, <3>3, <3>4
    <3>5. CASE i # 1
      <4>1. i \in 2 .. Len(tables) + 1 BY <2>2, <3>5
      <4>2. tables'[i] = tables[i - 1] /\ i - 1 \in DOMAIN tables /\ i - 1 < j - 1
        BY <2>2, <3>1, <3>2, <4>1
      <4> QED BY <2>1, <3>3, <4>2 DEF IsNewestFirst
    <3> QED BY <3>4, <3>5
  <2> QED BY <1>1, <2>3, <2>4, <2>5 DEF TablesInv, IsNewestFirst, Deleting
<1>8. MemInv' BY <1>1, <1>5 DEF MemInv
<1>9. DiskInv'
  <2>1. \A k \in Keys : HasNewest(k) /\ OnDisk(wal, k, want[k]) BY <1>1 DEF LInv, DiskInv
  <2>2. \A k \in Keys : HasNewest(k)' BY <1>1, <1>2, <1>3, <1>4, <2>1, CompleteNewest
  <2>3. \A k \in Keys : OnDisk(wal, k, want[k])'
    <3>1. SUFFICES ASSUME NEW k \in Keys PROVE OnDisk(wal, k, want[k])' OBVIOUS
    <3>2. CASE wal[k] # NoEntry BY <1>1, <2>1, <3>2 DEF OnDisk
    <3>3. CASE wal[k] = NoEntry
      <4>1. files'[maxGen][k] = NoEntry BY <1>1, <1>5, <3>3
      <4>2. \A h \in DOMAIN files' : h = maxGen \/ (h \in DOMAIN files /\ files'[h] = files[h])
        BY <1>5
      <4> QED BY <1>1, <1>5, <2>1, <3>3, <4>1, <4>2 DEF OnDisk
    <3> QED BY <3>2, <3>3
  <2> QED BY <1>1, <2>2, <2>3 DEF DiskInv, Deleting
<1> QED BY <1>6, <1>7, <1>8, <1>9 DEF Rest

\* flush empties the log: the new table says what the log said.
LEMMA TruncateStep == ASSUME LInv, Truncate PROVE Rest'
<1>1. /\ pc = "truncate" /\ pc' \in {"ready", "closed", "compact"} /\ wal' = EmptyMap
      /\ UNCHANGED <<files, mem, tables, maxGen, want>>
  BY DEF Truncate, Return, memory
<1>2. maxGen \in DOMAIN files /\ files[maxGen] = wal /\ mem = EmptyMap BY <1>1 DEF LInv, MemInv
<1>3. \A g \in DOMAIN files : g <= maxGen BY <1>1 DEF LInv, GenInv, Up
<1>4. DOMAIN files \subseteq Int BY MaxGenAssumption DEF LInv, TypeOK
<1>5. GenInv' BY <1>1, <1>3 DEF GenInv
<1>6. TablesInv' BY <1>1 DEF LInv, TablesInv, Up, Deleting, IsNewestFirst
<1>7. MemInv' BY <1>1, <1>2 DEF MemInv
<1>8. DiskInv'
  <2>1. SUFFICES ASSUME NEW k \in Keys PROVE OnDisk(wal, k, want[k])' /\ HasNewest(k)'
    BY <1>1 DEF DiskInv, Deleting
  <2>2. OnDisk(wal, k, want[k]) /\ HasNewest(k) BY <1>1 DEF LInv, DiskInv
  <2>3. wal'[k] = NoEntry BY <1>1 DEF EmptyMap
  <2>4. HasNewest(k)' BY <1>1, <2>2 DEF HasNewest
  <2>5. CASE wal[k] # NoEntry
    <3>1. files[maxGen][k] # NoEntry /\ want[k] = ValueOf(files[maxGen][k])
      BY <1>2, <2>2, <2>5 DEF OnDisk
    <3>2. \A h \in DOMAIN files : ~(h > maxGen) BY <1>2, <1>3, <1>4
    <3> QED BY <1>1, <1>2, <2>3, <2>4, <3>1, <3>2 DEF OnDisk
  <2>6. CASE wal[k] = NoEntry BY <1>1, <2>2, <2>3, <2>4, <2>6 DEF OnDisk
  <2> QED BY <2>5, <2>6
<1> QED BY <1>5, <1>6, <1>7, <1>8 DEF Rest

\* compact completes the merged file and opens it as the only table.
LEMMA CompactWriteStep == ASSUME LInv, TypeOK', CompactWrite PROVE Rest'
<1>1. /\ pc = "compacting" /\ pc' = "delete" /\ mem = wal /\ UNCHANGED <<wal, mem, maxGen, want>>
      /\ tables' = <<maxGen>> /\ dying' = tables /\ Complete(Merged)
  BY DEF CompactWrite, LInv, MemInv, Up
<1>2. TypeOK /\ maxGen \in 1 .. MaxGen /\ maxGen \notin DOMAIN files
  BY <1>1 DEF LInv, GenInv
<1>3. /\ DOMAIN files \subseteq Int /\ maxGen \in Int
      /\ DOMAIN tables = 1 .. Len(tables) /\ DOMAIN tables \subseteq Int
  BY <1>2, MaxGenAssumption DEF TypeOK
<1>4. \A g \in DOMAIN files : g < maxGen BY <1>1, <1>2, <1>3 DEF LInv, GenInv, Up
<1>5. /\ DOMAIN files' = DOMAIN files \cup {maxGen} /\ files'[maxGen] = Merged
      /\ \A g \in DOMAIN files : files'[g] = files[g]
  BY <1>1, <1>2 DEF Complete
<1>6. IsNewestFirst(tables) /\ Len(tables) > 1 BY <1>1 DEF LInv, TablesInv, Up, Deleting
<1>7. GenInv' BY <1>1, <1>3, <1>4, <1>5 DEF GenInv
<1>8. TablesInv'
  <2>1. dying' # <<>> BY <1>1, <1>6
  <2>2. \A i \in 1 .. Len(tables) : tables[i] # maxGen BY <1>2, <1>3, <1>6 DEF IsNewestFirst
  <2>3. \A g \in DOMAIN files : \E i \in 1 .. Len(tables) : tables[i] = g
    BY <1>3, <1>6 DEF IsNewestFirst
  <2> QED BY <1>1, <1>5, <2>1, <2>2, <2>3 DEF TablesInv, Deleting
<1>9. MemInv' BY <1>1 DEF MemInv
<1>10. DiskInv'
  <2>1. SUFFICES ASSUME NEW k \in Keys
                 PROVE  /\ OnDisk(wal, k, want[k])' /\ HasNewest(k)'
                        /\ want[k] = ValueOf(IF wal[k] # NoEntry THEN wal[k] ELSE Merged[k])
    BY <1>1, <1>5 DEF DiskInv, Deleting
  <2>2. OnDisk(wal, k, want[k]) /\ HasNewest(k) BY <1>1 DEF LInv, DiskInv
  <2>3. Merged[k] = IF Lookup(tables, k) = Tombstone THEN NoEntry ELSE Lookup(tables, k)
    BY DEF Merged
  <2>4. \A h \in DOMAIN files' : h = maxGen \/ (h \in DOMAIN files /\ files'[h] = files[h])
    BY <1>5
  <2>5. \A h \in DOMAIN files : ~(h > maxGen) BY <1>3, <1>4
  <2>6. HasNewest(k)'
    <3>1. CASE Merged[k] # NoEntry
      <4>1. \A h \in DOMAIN files' : ~(h > maxGen) BY <1>3, <2>4, <2>5
      <4> QED BY <1>5, <3>1, <4>1 DEF HasNewest
    <3>2. CASE Merged[k] = NoEntry BY <1>5, <2>2, <2>4, <3>2 DEF HasNewest
    <3> QED BY <3>1, <3>2
  <2>7. CASE wal[k] # NoEntry BY <1>1, <2>2, <2>6, <2>7 DEF OnDisk
  <2>8. CASE wal[k] = NoEntry
    <3>1. want[k] = ValueOf(Lookup(tables, k)) BY <1>2, <1>3, <1>6, <2>2, <2>8, LookupWant
    <3>2. want[k] = ValueOf(Merged[k]) BY <2>3, <3>1 DEF ValueOf
    <3>3. CASE Merged[k] # NoEntry
      <4>1. \A h \in DOMAIN files' : ~(h > maxGen) BY <1>3, <2>4, <2>5
      <4> QED BY <1>1, <1>5, <2>6, <2>8, <3>2, <3>3, <4>1 DEF OnDisk
    <3>4. CASE Merged[k] = NoEntry
      <4>1. OnDisk(wal, k, want[k])' BY <1>1, <1>5, <2>2, <2>4, <2>8, <3>4 DEF OnDisk
      <4> QED BY <2>6, <2>8, <3>2, <4>1
    <3> QED BY <3>3, <3>4
  <2> QED BY <2>7, <2>8
<1> QED BY <1>7, <1>8, <1>9, <1>10 DEF Rest

\* compact deletes one input file: the merged file covers it.
LEMMA DeleteOldStep == ASSUME LInv, DeleteOld PROVE Rest'
<1>1. /\ Deleting /\ Up /\ UNCHANGED <<wal, mem, tables, maxGen, want>> /\ dying' = Tail(dying)
      /\ files' = [g \in DOMAIN files \ {Head(dying)} |-> files[g]]
      /\ IF Len(dying) = 1 THEN pc' \in {"ready", "closed"} ELSE pc' = "deleting"
  BY DEF DeleteOld, Return, Deleting, Up
<1>2. /\ maxGen \in DOMAIN files /\ tables = <<maxGen>> /\ dying # <<>>
      /\ \A i \in 1 .. Len(dying) : dying[i] # maxGen
      /\ \A g \in DOMAIN files : g = maxGen \/ \E i \in 1 .. Len(dying) : dying[i] = g
  BY <1>1 DEF LInv, TablesInv
<1>3. dying \in Seq(1 .. MaxGen) BY DEF LInv, TypeOK
<1>4. Len(dying) \in Nat /\ Len(dying) >= 1 /\ Head(dying) = dying[1] BY <1>2, <1>3
<1>5. /\ DOMAIN files' = DOMAIN files \ {dying[1]} /\ maxGen \in DOMAIN files'
      /\ \A g \in DOMAIN files' : files'[g] = files[g]
  BY <1>1, <1>2, <1>4
<1>6. mem = wal BY <1>1 DEF LInv, MemInv, Deleting, Up
<1>7. \A k \in Keys : want[k] = ValueOf(IF wal[k] # NoEntry THEN wal[k] ELSE files'[maxGen][k])
  BY <1>1, <1>5 DEF LInv, DiskInv
<1>8. GenInv' BY <1>1, <1>5 DEF LInv, GenInv, Up
<1>9. MemInv' BY <1>1, <1>6 DEF MemInv
<1>10. CASE Len(dying) = 1
  <2>1. DOMAIN files' = {maxGen} BY <1>2, <1>4, <1>5, <1>10
  <2>2. IsNewestFirst(tables)' BY <1>1, <1>2, <2>1 DEF IsNewestFirst
  <2>3. TablesInv' BY <1>1, <1>10, <2>2 DEF TablesInv, Deleting
  <2>4. \A k \in Keys : OnDisk(wal, k, want[k])' /\ HasNewest(k)'
    <3>1. ~(maxGen > maxGen) BY MaxGenAssumption DEF LInv, TypeOK
    <3>2. SUFFICES ASSUME NEW k \in Keys PROVE OnDisk(wal, k, want[k])' /\ HasNewest(k)' OBVIOUS
    <3>3. HasNewest(k)' BY <2>1, <3>1 DEF HasNewest
    <3>4. CASE wal[k] # NoEntry BY <1>1, <1>7, <3>3, <3>4 DEF OnDisk
    <3>5. CASE wal[k] = NoEntry
      <4>1. want'[k] = ValueOf(files'[maxGen][k]) /\ wal'[k] = NoEntry BY <1>1, <1>7, <3>5
      <4>2. CASE files'[maxGen][k] # NoEntry BY <2>1, <3>1, <3>3, <4>1, <4>2 DEF OnDisk
      <4>3. CASE files'[maxGen][k] = NoEntry
        <5>1. want'[k] = Absent BY <4>1, <4>3 DEF ValueOf
        <5> QED BY <2>1, <3>3, <4>1, <4>3, <5>1 DEF OnDisk
      <4> QED BY <4>2, <4>3
    <3> QED BY <3>4, <3>5
  <2>5. DiskInv' BY <1>1, <1>10, <2>4 DEF DiskInv, Deleting
  <2> QED BY <1>8, <1>9, <2>3, <2>5 DEF Rest
<1>11. CASE Len(dying) # 1
  <2>1. /\ Len(dying') = Len(dying) - 1
        /\ \A i \in 1 .. Len(dying) - 1 : dying'[i] = dying[i + 1]
    BY <1>1, <1>2, <1>3
  <2>2. dying' # <<>> BY <1>4, <1>11, <2>1
  <2>3. \A i \in 1 .. Len(dying') : dying'[i] # maxGen BY <1>2, <1>4, <2>1
  <2>4. \A g \in DOMAIN files' : g = maxGen \/ \E i \in 1 .. Len(dying') : dying'[i] = g
    <3>1. SUFFICES ASSUME NEW g \in DOMAIN files', g # maxGen
                   PROVE  \E i \in 1 .. Len(dying') : dying'[i] = g
      OBVIOUS
    <3>2. PICK i \in 1 .. Len(dying) : dying[i] = g BY <1>2, <1>5, <3>1
    <3>3. i # 1 BY <1>5, <3>1, <3>2
    <3>4. i - 1 \in 1 .. Len(dying') /\ (i - 1) + 1 = i /\ i - 1 \in 1 .. Len(dying) - 1
      BY <1>4, <2>1, <3>2, <3>3
    <3> QED BY <2>1, <3>2, <3>4
  <2>5. TablesInv' BY <1>1, <1>2, <1>5, <1>11, <2>2, <2>3, <2>4 DEF TablesInv, Deleting
  <2>6. DiskInv' BY <1>1, <1>7, <1>11 DEF DiskInv
  <2> QED BY <1>8, <1>9, <2>5, <2>6 DEF Rest
<1> QED BY <1>10, <1>11

\* The constructor rebuilds tables and memtable from the directory and the log.
LEMMA OpenStep == ASSUME LInv, Open PROVE Rest'
<1>1. /\ pc \in {"down", "closed"} /\ pc' = "ready" /\ mem' = wal
      /\ UNCHANGED <<wal, files, want>>
  BY DEF Open, OpenWith, disk
<1>2. PICK n \in 0 .. MaxGen : \E ts \in [1 .. n -> DOMAIN files] :
        IsNewestFirst(ts) /\ tables' = ts /\ maxGen' = IF n = 0 THEN 0 ELSE ts[1]
  BY DEF Open, OpenWith
<1>3. PICK ts \in [1 .. n -> DOMAIN files] :
        IsNewestFirst(ts) /\ tables' = ts /\ maxGen' = IF n = 0 THEN 0 ELSE ts[1]
  BY <1>2
<1>4. DOMAIN files \subseteq Int /\ n \in Nat BY <1>2, MaxGenAssumption DEF LInv, TypeOK
<1>5. GenInv'
  <2>1. SUFFICES ASSUME NEW g \in DOMAIN files PROVE g <= maxGen' BY <1>1 DEF GenInv
  <2>2. PICK i \in 1 .. n : ts[i] = g BY <1>3 DEF IsNewestFirst
  <2>3. n # 0 /\ 1 \in 1 .. n BY <1>4, <2>2
  <2>4. ts[1] \in Int /\ (1 < i => ts[1] > ts[i]) BY <1>3, <1>4, <2>2, <2>3 DEF IsNewestFirst
  <2> QED BY <1>3, <1>4, <2>2, <2>3, <2>4
<1>6. TablesInv' BY <1>1, <1>3 DEF TablesInv, Deleting, IsNewestFirst
<1>7. MemInv' BY <1>1 DEF MemInv
<1>8. DiskInv' BY <1>1 DEF LInv, DiskInv, OnDisk, HasNewest, Deleting
<1> QED BY <1>5, <1>6, <1>7, <1>8 DEF Rest

\* The process stops, or finds a directory it cannot open; the disk is as it was.
LEMMA StopStep ==
  ASSUME LInv, pc # "deleting", pc' \in {"down", "unopenable"}, UNCHANGED <<wal, files, want>>
  PROVE  Rest'
  BY DEF LInv, Rest, GenInv, TablesInv, MemInv, DiskInv, OnDisk, HasNewest, Deleting, Up

\* Stuttering keeps the invariant.
LEMMA StutterStep == ASSUME LInv, UNCHANGED vars PROVE Rest'
<1>1. UNCHANGED <<wal, files, mem, tables, maxGen, dying, arg, pc, want>> BY DEF vars, disk, memory
<1>2. GenInv' BY <1>1 DEF LInv, GenInv, Up
<1>3. TablesInv' BY <1>1 DEF LInv, TablesInv, IsNewestFirst, Up, Deleting
<1>4. MemInv' BY <1>1 DEF LInv, MemInv, Up
<1>5. DiskInv' BY <1>1 DEF LInv, DiskInv, OnDisk, HasNewest, Deleting
<1> QED BY <1>2, <1>3, <1>4, <1>5 DEF Rest

-----------------------------------------------------------------------------
(* The theorems.                                                           *)

ProofCrashAt == "deleting" \notin CrashAt

\* The invariant is inductive: every step of the tree preserves it.
THEOREM LInvInductive ==
  ASSUME ProofCrashAt, LInv, [Next]_vars
  PROVE  LInv'
<1>0. TypeOK' BY TypeStep
<1> SUFFICES Rest' BY <1>0 DEF LInv, Rest
<1>1. ASSUME NEW k \in Keys, NEW e \in Entries, AppendLog(k, e) PROVE Rest'
  BY <1>1, AppendLogStep
<1>2. CASE Apply BY <1>2, ApplyStep
<1>3. CASE Flush \/ Close \/ Compact
  BY <1>0, <1>3, QuietStep DEF Flush, Close, Compact, disk, memory, Up, Deleting
<1>4. CASE FlushBegin
  BY <1>0, <1>4, QuietStep DEF FlushBegin, Return, disk, memory, Up, Deleting
<1>5. CASE CompactBegin
  BY <1>0, <1>5, QuietStep DEF CompactBegin, Return, disk, memory, Up, Deleting
<1>6. CASE FlushWrite BY <1>6, FlushWriteStep
<1>7. CASE Truncate BY <1>7, TruncateStep
<1>8. CASE CompactWrite BY <1>0, <1>8, CompactWriteStep
<1>9. CASE DeleteOld BY <1>9, DeleteOldStep
<1>10. CASE Crash BY <1>10, StopStep DEF Crash, disk, ProofCrashAt
<1>11. CASE Open BY <1>11, OpenStep
<1>12. CASE OpenFails BY <1>12, StopStep DEF OpenFails, disk
<1>13. CASE UNCHANGED vars BY <1>13, StutterStep
<1> QED
  BY <1>1, <1>2, <1>3, <1>4, <1>5, <1>6, <1>7, <1>8, <1>9, <1>10, <1>11, <1>12, <1>13 DEF Next

\* The inductive invariant holds of every behaviour of the tree.
THEOREM LInvariance == ASSUME ProofCrashAt PROVE Spec => []LInv
  BY InitInv, LInvInductive, PTL DEF Spec

\* Type correctness of the tree, in memory and on disk.
THEOREM LsmTypeCorrect == ASSUME ProofCrashAt PROVE Spec => []TypeOK
<1>1. LInv => TypeOK BY DEF LInv
<1> QED BY <1>1, LInvariance, PTL

\* A crash loses no write and brings back no deleted key, whatever the keys, the
\* values, the threshold and the crash points outside compaction's deletion loop.
THEOREM NothingLost == ASSUME ProofCrashAt PROVE Spec => []Durable
<1>1. LInv => Durable BY DEF LInv, DiskInv, Durable, ProofCrashAt
<1> QED BY <1>1, LInvariance, PTL

\* With the invariant, get finds what the disk holds.
LEMMA LInvReads == LInv => ReadsLatest
<1>1. SUFFICES ASSUME LInv, pc = "ready", NEW k \in Keys PROVE Get(k) = want[k] BY DEF ReadsLatest
<1>2. mem = wal /\ IsNewestFirst(tables) /\ OnDisk(wal, k, want[k]) /\ TypeOK
  BY <1>1 DEF LInv, MemInv, TablesInv, DiskInv, Up, Deleting
<1>3. DOMAIN tables \subseteq Int BY <1>2 DEF TypeOK
<1>4. CASE wal[k] # NoEntry BY <1>2, <1>4 DEF Get, OnDisk
<1>5. CASE wal[k] = NoEntry BY <1>2, <1>3, <1>5, LookupWant DEF Get
<1> QED BY <1>4, <1>5

\* get returns the value last written.
THEOREM GetReturnsLatest == ASSUME ProofCrashAt PROVE Spec => []ReadsLatest
  BY LInvReads, LInvariance, PTL

\* The list of open tables is the directory, newest first.
THEOREM TablesAreDirectory == ASSUME ProofCrashAt PROVE Spec => []TablesMatchDisk
<1>1. LInv => TablesMatchDisk BY DEF LInv, TablesInv, TablesMatchDisk, Up, Deleting
<1> QED BY <1>1, LInvariance, PTL

-----------------------------------------------------------------------------

(* The bytes of the log. *)

\* The records that replay reads from each position of s on.
Reading(s) ==
  CHOOSE from :
    from = [i \in 1 .. Len(s) + 1 |->
              IF ~Whole(s, i) THEN Stop(s, i)
              ELSE <<RecordAt(s, i, Tombstone)>> \o from[EndOf(s, i)]]

\* Replay is what is read from the first position.
LEMMA ReplayReads == \A s : Replay(s, Tombstone) = Reading(s)[1]
  BY DEF Replay, Reading

Bytes == Seq(Byte)
Records == Bytes \X (Bytes \cup {Tombstone})
Items == Records \cup {Thrown}    \* what replay delivers

\* A record is a key and a value or a tombstone.
LEMMA RecordIn ==
  ASSUME NEW x \in Bytes, NEW y \in Bytes \cup {Tombstone} PROVE <<x, y>> \in Records
  BY DEF Records

\* A record that is whole lies in the log.
LEMMA WholeFacts ==
  ASSUME NEW s \in Bytes, NEW i \in 1 .. Len(s) + 1, Whole(s, i)
  PROVE  /\ i + 5 <= AfterKey(s, i) /\ AfterKey(s, i) \in Int
         /\ AfterKey(s, i) <= EndOf(s, i) /\ EndOf(s, i) \in i + 1 .. Len(s) + 1
         /\ IntAt(s, i + 1) \in Nat
         /\ ~IsDelete(s, i) => /\ AfterKey(s, i) + 4 <= EndOf(s, i)
                               /\ IntAt(s, AfterKey(s, i)) \in Nat
         /\ RecordAt(s, i, Tombstone) \in Records
<1>0. Len(s) \in Nat BY DEF Bytes
<1>1. ASSUME NEW j \in 1 .. Len(s) - 3 PROVE IntAt(s, j) \in Int
  <2> DEFINE high == IF s[j] < 128 THEN s[j] ELSE s[j] - 256
  <2>1. \A m \in 1 .. Len(s) : s[m] \in Byte BY ElementOfSeq DEF Bytes
  <2>2. /\ j \in 1 .. Len(s) /\ j + 1 \in 1 .. Len(s)
        /\ j + 2 \in 1 .. Len(s) /\ j + 3 \in 1 .. Len(s)
    BY <1>0
  <2> HIDE DEF high
  <2>8. /\ s[j] \in Byte /\ s[j + 1] \in Byte
        /\ s[j + 2] \in Byte /\ s[j + 3] \in Byte
    BY <2>1, <2>2, Zenon
  <2>9. Byte \subseteq Int BY DEF Byte
  <2>3. high \in Int
    <3>1. s[j] \in Int BY <2>8, <2>9
    <3>2. \A b \in Int : (IF b < 128 THEN b ELSE b - 256) \in Int OBVIOUS
    <3> QED BY <3>1, <3>2, Zenon DEF high
  <2>4. IntAt(s, j) = ((high * 256 + s[j + 1]) * 256 + s[j + 2]) * 256 + s[j + 3]
    BY Zenon DEF IntAt, high
  <2> DEFINE b1 == s[j + 1]
             b2 == s[j + 2]
             b3 == s[j + 3]
  <2>5. b1 \in Int /\ b2 \in Int /\ b3 \in Int BY <2>8, <2>9
  <2> HIDE DEF b1, b2, b3
  <2>6. ((high * 256 + b1) * 256 + b2) * 256 + b3 \in Int BY <2>3, <2>5, SMT
  <2> QED BY <2>4, <2>6, Zenon DEF b1, b2, b3
<1>2. i + 4 <= Len(s) BY <1>0 DEF Whole, Has
<1>3. IntAt(s, i + 1) \in Int /\ IntAt(s, i + 1) >= 0 /\ i + 5 + IntAt(s, i + 1) - 1 <= Len(s)
  BY <1>0, <1>1, <1>2 DEF Whole, Has
<1>4. AfterKey(s, i) \in Int /\ i + 5 <= AfterKey(s, i) /\ AfterKey(s, i) <= Len(s) + 1
  BY <1>0, <1>3 DEF AfterKey
<1> DEFINE a == AfterKey(s, i)
<1>5. SubSeq(s, i + 5, a - 1) \in Bytes
  BY <1>0, <1>4, SubSeqProperties DEF Bytes
<1>6. CASE IsDelete(s, i)
  <2>1. EndOf(s, i) = a BY <1>6 DEF EndOf
  <2>2. RecordAt(s, i, Tombstone) = <<SubSeq(s, i + 5, a - 1), Tombstone>> BY <1>6 DEF RecordAt
  <2>3. Tombstone \in Bytes \cup {Tombstone} BY Zenon
  <2>4. RecordAt(s, i, Tombstone) \in Records BY <1>5, <2>2, <2>3, RecordIn, Zenon
  <2> QED BY <1>0, <1>3, <1>4, <1>6, <2>1, <2>4
<1>7. CASE ~IsDelete(s, i)
  <2>1. a + 3 <= Len(s) BY <1>0, <1>4, <1>7 DEF Whole, Has
  <2>2. IntAt(s, a) \in Int /\ IntAt(s, a) >= 0 /\ a + 4 + IntAt(s, a) - 1 <= Len(s)
    BY <1>0, <1>1, <1>4, <1>7, <2>1 DEF Whole, Has
  <2>3. AfterValue(s, i) \in Int /\ a + 4 <= AfterValue(s, i) /\ AfterValue(s, i) <= Len(s) + 1
    BY <1>0, <1>4, <2>2 DEF AfterValue
  <2>4. SubSeq(s, a + 4, AfterValue(s, i) - 1) \in Bytes
    BY <1>0, <1>4, <2>3, SubSeqProperties DEF Bytes
  <2>5. EndOf(s, i) = AfterValue(s, i) BY <1>7 DEF EndOf
  <2>6. RecordAt(s, i, Tombstone)
        = <<SubSeq(s, i + 5, a - 1), SubSeq(s, a + 4, AfterValue(s, i) - 1)>>
    BY <1>7 DEF RecordAt
  <2>7. SubSeq(s, a + 4, AfterValue(s, i) - 1) \in Bytes \cup {Tombstone} BY <2>4, Zenon
  <2>8. RecordAt(s, i, Tombstone) \in Records BY <1>5, <2>6, <2>7, RecordIn, Zenon
  <2> QED BY <1>0, <1>3, <1>4, <1>7, <2>2, <2>3, <2>5, <2>8
<1> QED BY <1>6, <1>7

\* Behind the last byte nothing is read, and nothing throws.
LEMMA AtEnd == ASSUME NEW s \in Bytes PROVE ~Whole(s, Len(s) + 1) /\ Stop(s, Len(s) + 1) = <<>>
<1>1. Len(s) \in Nat BY DEF Bytes
<1> QED BY <1>1 DEF Whole, Stop, Negative, Has

\* Where a reading stops there is nothing, or an exception.
LEMMA StopIs == \A s, i : Stop(s, i) \in Seq(Items)
<1>1. <<>> \in Seq(Items) /\ <<Thrown>> \in Seq(Items) BY DEF Items
<1> QED BY <1>1 DEF Stop

\* The recursion of replay is well defined.
LEMMA ReadingFacts ==
  ASSUME NEW s \in Bytes
  PROVE  /\ Reading(s) \in [1 .. Len(s) + 1 -> Seq(Items)]
         /\ \A i \in 1 .. Len(s) + 1 :
              Reading(s)[i] = IF ~Whole(s, i) THEN Stop(s, i)
                              ELSE <<RecordAt(s, i, Tombstone)>> \o Reading(s)[EndOf(s, i)]
<1> DEFINE n == Len(s) + 1
           stop == {i \in 1 .. n : ~Whole(s, i)}
           last == [i \in 1 .. n |-> Stop(s, i)]
           item == [i \in (1 .. n) \ stop |-> RecordAt(s, i, Tombstone)]
           next == [i \in (1 .. n) \ stop |-> EndOf(s, i)]
<1>1. n \in Nat BY DEF Bytes
<1>2. /\ item \in [(1 .. n) \ stop -> Items]
      /\ next \in [(1 .. n) \ stop -> 1 .. n]
      /\ \A i \in (1 .. n) \ stop : next[i] > i
  <2> SUFFICES ASSUME NEW i \in 1 .. n, Whole(s, i)
               PROVE  RecordAt(s, i, Tombstone) \in Items /\ EndOf(s, i) \in 1 .. n /\ EndOf(s, i) > i
    OBVIOUS
  <2> QED BY <1>1, WholeFacts DEF Items
<1>3. stop \in SUBSET (1 .. n) BY Zenon
<1>a. last \in [1 .. n -> Seq(Items)] BY StopIs
<1>4. \A f : [i \in 1 .. n |-> IF i \in stop THEN last[i] ELSE <<item[i]>> \o f[next[i]]]
             = [i \in 1 .. n |-> IF ~Whole(s, i) THEN Stop(s, i)
                                 ELSE <<RecordAt(s, i, Tombstone)>> \o f[EndOf(s, i)]]
  OBVIOUS
<1> HIDE DEF item, next, stop, last, n
<1>5. PICK f \in [1 .. n -> Seq(Items)] : Reads(f, n, stop, last, item, next)
  BY <1>1, <1>2, <1>a, <1>3, ReadingExists, Zenon
<1>6. f = [i \in 1 .. n |-> IF ~Whole(s, i) THEN Stop(s, i)
                            ELSE <<RecordAt(s, i, Tombstone)>> \o f[EndOf(s, i)]]
  BY <1>4, <1>5 DEF Reads
<1> DEFINE from == Reading(s)
<1>7. from = [i \in 1 .. n |-> IF ~Whole(s, i) THEN Stop(s, i)
                               ELSE <<RecordAt(s, i, Tombstone)>> \o from[EndOf(s, i)]]
  BY <1>6, Zenon DEF Reading, n
<1> HIDE DEF from
<1>8. \A i \in 1 .. n : from[i] = IF ~Whole(s, i) THEN Stop(s, i)
                        ELSE <<RecordAt(s, i, Tombstone)>> \o from[EndOf(s, i)]
  BY <1>7
<1>9. from \in [1 .. n -> Seq(Items)]
  <2> DEFINE T == {i \in 1 .. n : from[i] \in Seq(Items)}
  <2>1. ASSUME NEW i \in 1 .. n, \A j \in i + 1 .. n : j \in T PROVE i \in T
    <3>1. CASE ~Whole(s, i)
      <4>1. from[i] = Stop(s, i) BY <1>8, <3>1
      <4> QED BY <4>1, StopIs
    <3>2. CASE Whole(s, i)
      <4>1. EndOf(s, i) \in i + 1 .. n /\ RecordAt(s, i, Tombstone) \in Items
        BY <3>2, WholeFacts DEF n, Items
      <4>2. from[EndOf(s, i)] \in Seq(Items) BY <2>1, <4>1
      <4>3. from[i] = <<RecordAt(s, i, Tombstone)>> \o from[EndOf(s, i)] BY <1>8, <3>2
      <4>4. <<RecordAt(s, i, Tombstone)>> \in Seq(Items) BY <4>1
      <4>5. from[i] \in Seq(Items) BY <4>2, <4>3, <4>4, ConcatProperties
      <4> QED BY <4>5
    <3> QED BY <3>1, <3>2
  <2> HIDE DEF T
  <2>2. T \in SUBSET (1 .. n) BY DEF T
  <2>3. T = 1 .. n BY <1>1, <2>1, <2>2, Downwards
  <2>4. DOMAIN from = 1 .. n /\ from = [i \in DOMAIN from |-> from[i]] BY <1>7
  <2> QED BY <2>3, <2>4 DEF T
<1> QED BY <1>8, <1>9 DEF from, n

-----------------------------------------------------------------------------
(* Bytes that are elsewhere in another file.                               *)

\* A part of a file, byte by byte.
LEMMA SubSeqIs ==
  ASSUME NEW s \in Bytes, NEW w \in Bytes, NEW a \in Nat \ {0}, NEW b \in Int,
         b <= Len(s), Len(w) = b - a + 1, \A j \in 1 .. Len(w) : w[j] = s[a + j - 1]
  PROVE  SubSeq(s, a, b) = w
<1>1. Len(s) \in Nat /\ Len(w) \in Nat BY DEF Bytes
<1> DEFINE v == SubSeq(s, a, b)
<1>2. \A i \in a .. b : s[i] \in Byte BY <1>1, ElementOfSeq DEF Bytes
<1>3. /\ v \in Seq(Byte)
      /\ Len(v) = IF a <= b THEN b - a + 1 ELSE 0
      /\ \A j \in 1 .. b - a + 1 : v[j] = s[a + j - 1]
  BY <1>1, <1>2, SubSeqProperties
<1> HIDE DEF v
<1>4. Len(v) = Len(w) BY <1>1, <1>3
<1>5. \A j \in 1 .. Len(w) : v[j] = w[j] BY <1>1, <1>3
<1>6. w \in Seq(Byte) BY DEF Bytes
<1>7. v = w BY <1>3, <1>4, <1>5, <1>6
<1> QED BY <1>7 DEF v

\* The four bytes from i in s are those from j in t.
SameFour(s, i, t, j) ==
  s[i] = t[j] /\ s[i + 1] = t[j + 1] /\ s[i + 2] = t[j + 2] /\ s[i + 3] = t[j + 3]

\* The same four bytes give the same int.
LEMMA IntAtIs ==
  ASSUME NEW s, NEW t, NEW i, NEW j, SameFour(s, i, t, j) PROVE IntAt(s, i) = IntAt(t, j)
  BY SMT DEF IntAt, SameFour

\* u is s and then t.
Joins(u, s, t) ==
  /\ u \in Bytes /\ Len(s) \in Nat /\ Len(t) \in Nat /\ Len(u) = Len(s) + Len(t)
  /\ \A j \in 1 .. Len(s) : u[j] = s[j]
  /\ \A j \in 1 .. Len(t) : u[Len(s) + j] = t[j]

\* What is appended stands behind what was there.
LEMMA ConcatIs == ASSUME NEW s \in Bytes, NEW t \in Bytes PROVE Joins(s \o t, s, t)
<1> DEFINE u == s \o t
<1>1. s \in Seq(Byte) /\ t \in Seq(Byte) BY DEF Bytes
<1>2. /\ u \in Seq(Byte) /\ Len(u) = Len(s) + Len(t)
      /\ \A i \in 1 .. Len(s) + Len(t) : u[i] = IF i <= Len(s) THEN s[i] ELSE t[i - Len(s)]
  BY <1>1, ConcatProperties
<1>3. Len(s) \in Nat /\ Len(t) \in Nat BY <1>1
<1> HIDE DEF u
<1>4. \A j \in 1 .. Len(s) : u[j] = s[j] BY <1>2, <1>3
<1>5. ASSUME NEW j \in 1 .. Len(t) PROVE u[Len(s) + j] = t[j]
  <2> DEFINE i == Len(s) + j
  <2>1. i \in 1 .. Len(s) + Len(t) /\ ~(i <= Len(s)) /\ i - Len(s) = j BY <1>3
  <2> HIDE DEF i
  <2>2. u[i] = t[j] BY <1>2, <2>1
  <2> QED BY <2>2 DEF i
<1> QED BY <1>2, <1>3, <1>4, <1>5 DEF u, Bytes, Joins

\* What is appended does not change a record that is whole.
LEMMA WholeStays ==
  ASSUME NEW s \in Bytes, NEW t \in Bytes, NEW i \in 1 .. Len(s) + 1, Whole(s, i)
  PROVE  /\ Whole(s \o t, i) /\ EndOf(s \o t, i) = EndOf(s, i)
         /\ RecordAt(s \o t, i, Tombstone) = RecordAt(s, i, Tombstone)
<1> DEFINE u == s \o t
<1>1. /\ u \in Bytes /\ Len(s) \in Nat /\ Len(u) \in Nat /\ Len(s) <= Len(u)
      /\ \A j \in 1 .. Len(s) : u[j] = s[j]
  <2>1. u \in Bytes /\ Len(s) \in Nat /\ Len(t) \in Nat /\ Len(u) = Len(s) + Len(t)
        /\ \A j \in 1 .. Len(s) : u[j] = s[j]
    BY ConcatIs DEF Joins
  <2> HIDE DEF u
  <2> QED BY <2>1
<1> HIDE DEF u
<1>2. ASSUME NEW j \in 1 .. Len(s) - 3 PROVE IntAt(u, j) = IntAt(s, j)
  <2>1. /\ j \in 1 .. Len(s) /\ j + 1 \in 1 .. Len(s)
        /\ j + 2 \in 1 .. Len(s) /\ j + 3 \in 1 .. Len(s)
    BY <1>1
  <2>2. u[j] = s[j] /\ u[j + 1] = s[j + 1] /\ u[j + 2] = s[j + 2] /\ u[j + 3] = s[j + 3]
    BY <1>1, <2>1, Zenon
  <2> QED BY <2>2, IntAtIs DEF SameFour
<1>3. ASSUME NEW a \in Nat \ {0}, NEW b \in Int, a <= b + 1, b <= Len(s)
      PROVE  SubSeq(u, a, b) = SubSeq(s, a, b)
  <2> DEFINE w == SubSeq(s, a, b)
  <2>0. \A m \in 1 .. Len(s) : s[m] \in Byte BY ElementOfSeq DEF Bytes
  <2>1. \A m \in a .. b : s[m] \in Byte BY <1>1, <1>3, <2>0
  <2>2. /\ w \in Seq(Byte)
        /\ Len(w) = IF a <= b THEN b - a + 1 ELSE 0
        /\ \A j \in 1 .. b - a + 1 : w[j] = s[a + j - 1]
    BY <1>1, <2>1, SubSeqProperties
  <2> HIDE DEF w
  <2>3. Len(w) = b - a + 1 BY <1>3, <2>2
  <2>4. ASSUME NEW j \in 1 .. Len(w) PROVE w[j] = u[a + j - 1]
    <3>1. a + j - 1 \in 1 .. Len(s) /\ j \in 1 .. b - a + 1 BY <1>1, <1>3, <2>3
    <3> QED BY <1>1, <2>2, <3>1
  <2>5. w \in Bytes /\ b <= Len(u) BY <1>1, <1>3, <2>2 DEF Bytes
  <2> QED BY <1>1, <2>3, <2>4, <2>5, SubSeqIs DEF w
<1>4. i + 4 <= Len(s) BY <1>1 DEF Whole, Has
<1>5. IsDelete(u, i) = IsDelete(s, i) BY <1>1, <1>4 DEF IsDelete
<1>6. IntAt(u, i + 1) = IntAt(s, i + 1) BY <1>2, <1>4
<1>7. AfterKey(u, i) = AfterKey(s, i) BY <1>6 DEF AfterKey
<1> DEFINE a == AfterKey(s, i)
<1>8. /\ a \in Int /\ i + 5 <= a /\ a <= EndOf(s, i) /\ EndOf(s, i) \in i + 1 .. Len(s) + 1
      /\ IntAt(s, i + 1) \in Nat
      /\ ~IsDelete(s, i) => a + 4 <= EndOf(s, i) /\ IntAt(s, a) \in Nat
  BY WholeFacts
<1>9. SubSeq(u, i + 5, a - 1) = SubSeq(s, i + 5, a - 1)
  BY <1>1, <1>3, <1>8
<1>10. \A j, m \in Int : Has(s, j, m) => Has(u, j, m) BY <1>1 DEF Has
<1>11. Has(u, i, 5) /\ Has(u, i + 5, IntAt(u, i + 1))
  BY <1>6, <1>8, <1>10 DEF Whole
<1>12. /\ Whole(u, i) /\ EndOf(u, i) = EndOf(s, i)
       /\ RecordAt(u, i, Tombstone) = RecordAt(s, i, Tombstone)
  <2>1. CASE IsDelete(s, i)
    BY <1>5, <1>7, <1>9, <1>11, <2>1 DEF Whole, EndOf, RecordAt
  <2>2. CASE ~IsDelete(s, i)
    <3>1. a + 3 <= Len(s) BY <1>1, <1>8, <2>2 DEF Whole, Has
    <3>2. IntAt(u, a) = IntAt(s, a) BY <1>1, <1>2, <1>8, <3>1
    <3>3. AfterValue(u, i) = AfterValue(s, i) BY <1>7, <3>2 DEF AfterValue
    <3>4. EndOf(s, i) = AfterValue(s, i) BY <2>2 DEF EndOf
    <3>5. EndOf(u, i) = AfterValue(u, i) BY <1>5, <2>2 DEF EndOf
    <3>6. Has(u, a, 4) /\ Has(u, a + 4, IntAt(u, a))
      BY <1>8, <1>10, <2>2, <3>2 DEF Whole
    <3>7. Whole(u, i) BY <1>7, <1>11, <3>6 DEF Whole
    <3>8. SubSeq(u, a + 4, EndOf(s, i) - 1) = SubSeq(s, a + 4, EndOf(s, i) - 1)
      <4>1. a + 4 \in Nat \ {0} /\ EndOf(s, i) - 1 \in Int BY <1>8
      <4>2. a + 4 <= EndOf(s, i) - 1 + 1 /\ EndOf(s, i) - 1 <= Len(s) BY <1>1, <1>8, <2>2
      <4> QED BY <1>3, <4>1, <4>2
    <3>9. RecordAt(u, i, Tombstone) = RecordAt(s, i, Tombstone)
      BY <1>5, <1>7, <1>9, <2>2, <3>3, <3>4, <3>8, Zenon DEF RecordAt
    <3> QED BY <3>3, <3>4, <3>5, <3>7, <3>9
  <2> QED BY <2>1, <2>2
<1> QED BY <1>12 DEF u

-----------------------------------------------------------------------------
(* Logs without a torn record.                                             *)

\* From the first byte, whole records follow one another to the end.
Intact(s) ==
  \E starts \in SUBSET (1 .. Len(s) + 1) :
    /\ 1 \in starts /\ Len(s) + 1 \in starts
    /\ \A i \in starts : i = Len(s) + 1 \/ (Whole(s, i) /\ EndOf(s, i) \in starts)

\* What stands behind an intact log is read after its records.
LEMMA ReadOn ==
  ASSUME NEW s \in Bytes, NEW t \in Bytes, Intact(s)
  PROVE  Replay(s \o t, Tombstone) = Replay(s, Tombstone) \o Reading(s \o t)[Len(s) + 1]
<1> DEFINE u == s \o t
           n == Len(s) + 1
           f == Reading(s)
           g == Reading(u)
<1>1. u \in Bytes /\ Len(s) \in Nat /\ Len(u) \in Nat /\ n \in Nat /\ n \in 1 .. Len(u) + 1
      /\ \A i \in 1 .. n : i \in 1 .. Len(u) + 1
  <2>1. u \in Bytes /\ Len(s) \in Nat /\ Len(t) \in Nat /\ Len(u) = Len(s) + Len(t)
    BY ConcatIs DEF Joins
  <2> HIDE DEF u
  <2> QED BY <2>1
<1>2. /\ f \in [1 .. n -> Seq(Items)]
      /\ \A i \in 1 .. n : f[i] = IF ~Whole(s, i) THEN Stop(s, i)
                                  ELSE <<RecordAt(s, i, Tombstone)>> \o f[EndOf(s, i)]
  BY ReadingFacts
<1>3. /\ g \in [1 .. Len(u) + 1 -> Seq(Items)]
      /\ \A i \in 1 .. Len(u) + 1 :
           g[i] = IF ~Whole(u, i) THEN Stop(u, i)
                  ELSE <<RecordAt(u, i, Tombstone)>> \o g[EndOf(u, i)]
  BY <1>1, ReadingFacts
<1>4. \A i \in 1 .. n : Whole(s, i) =>
        /\ Whole(u, i) /\ EndOf(u, i) = EndOf(s, i) /\ EndOf(s, i) \in i + 1 .. n
        /\ RecordAt(u, i, Tombstone) = RecordAt(s, i, Tombstone)
        /\ RecordAt(s, i, Tombstone) \in Items
  BY WholeStays, WholeFacts DEF Items
<1>5. ~Whole(s, n) /\ Stop(s, n) = <<>> BY AtEnd
<1>6. PICK starts \in SUBSET (1 .. n) :
        /\ 1 \in starts /\ n \in starts
        /\ \A i \in starts : i = n \/ (Whole(s, i) /\ EndOf(s, i) \in starts)
  BY DEF Intact
<1>7. Replay(s, Tombstone) = f[1] /\ Replay(u, Tombstone) = g[1] BY ReplayReads
<1> HIDE DEF u, n, f, g
<1> DEFINE T == {i \in 1 .. n : i \in starts => g[i] = f[i] \o g[n]}
<1>8. ASSUME NEW i \in 1 .. n, \A j \in i + 1 .. n : j \in T, i \in starts
      PROVE  g[i] = f[i] \o g[n]
  <2>0. g[n] \in Seq(Items) BY <1>1, <1>3
  <2>1. CASE i = n
    <3>1. f[i] = <<>> BY <1>1, <1>2, <1>5, <2>1
    <3>2. g[n] = <<>> \o g[n] BY <2>0
    <3> QED BY <3>1, <3>2, <2>1
  <2>2. CASE i # n
    <3> DEFINE r == <<RecordAt(s, i, Tombstone)>>
               e == EndOf(s, i)
    <3>1. Whole(s, i) /\ e \in starts BY <1>6, <1>8, <2>2
    <3>2. e \in i + 1 .. n /\ e \in 1 .. n /\ r \in Seq(Items) BY <1>4, <3>1
    <3>3. f[i] = r \o f[e] BY <1>2, <3>1
    <3>4. g[i] = r \o g[e] BY <1>1, <1>3, <1>4, <3>1
    <3>5. g[e] = f[e] \o g[n] BY <1>8, <3>1, <3>2
    <3>6. f[e] \in Seq(Items) BY <1>2, <3>2
    <3> HIDE DEF r, e
    <3>7. \A a, b, c \in Seq(Items) : a \o (b \o c) = (a \o b) \o c
      OBVIOUS
    <3>8. r \o (f[e] \o g[n]) = (r \o f[e]) \o g[n] BY <2>0, <3>2, <3>6, <3>7, Zenon
    <3> QED BY <3>3, <3>4, <3>5, <3>8, Zenon
  <2> QED BY <2>1, <2>2
<1>9. T = 1 .. n
  <2>1. T \in SUBSET (1 .. n) BY Zenon
  <2>2. \A i \in 1 .. n : (\A j \in i + 1 .. n : j \in T) => i \in T BY <1>8, Zenon
  <2> HIDE DEF T
  <2> QED BY <1>1, <2>1, <2>2, Downwards
<1>10. 1 \in T BY <1>6, <1>9
<1>11. g[1] = f[1] \o g[n] BY <1>6, <1>10
<1> QED BY <1>7, <1>11 DEF u, n, g

-----------------------------------------------------------------------------
(* What append writes.                                                     *)

\* The top bit of a length is zero.
LEMMA MaxIntIs == MaxInt \in Nat /\ MaxInt < 128 * 256 * 256 * 256
  BY SMT DEF MaxInt

\* readInt gives back what writeInt was given.
LEMMA Int32Back ==
  ASSUME NEW n \in 0 .. MaxInt
  PROVE  /\ Int32(n) \in Bytes /\ Len(Int32(n)) = 4
         /\ IntAt(Int32(n), 1) = n
<1> DEFINE m == n \div 256
           l == m \div 256
           h == l \div 256
<1>1. n \in Nat /\ n < 128 * 256 * 256 * 256
  BY MaxIntIs, SMT
<1>2. m \in Nat /\ n = 256 * m + (n % 256) /\ n % 256 \in 0 .. 255 BY <1>1, SMT
<1>3. m < 128 * 256 * 256 BY <1>1, <1>2, SMT
<1> HIDE DEF m
<1>4. l \in Nat /\ m = 256 * l + (m % 256) /\ m % 256 \in 0 .. 255 BY <1>2, SMT
<1>5. l < 128 * 256 BY <1>3, <1>4, SMT
<1> HIDE DEF l
<1>6. h \in Nat /\ l = 256 * h + (l % 256) /\ l % 256 \in 0 .. 255 BY <1>4, SMT
<1>7. h < 128 BY <1>5, <1>6, SMT
<1> HIDE DEF h
<1> DEFINE b1 == l % 256
           b2 == m % 256
           b3 == n % 256
<1>8. h \in Byte /\ b1 \in Byte /\ b2 \in Byte /\ b3 \in Byte
  BY <1>2, <1>4, <1>6, <1>7 DEF Byte
<1>9. Int32(n) = <<h, b1, b2, b3>> BY Zenon DEF Int32, h, l, m
<1>10. n = ((h * 256 + b1) * 256 + b2) * 256 + b3
  BY <1>2, <1>4, <1>6, SMT
<1> HIDE DEF b1, b2, b3
<1> DEFINE w == <<h, b1, b2, b3>>
<1>11. w \in Bytes /\ Len(w) = 4 /\ w[1] = h /\ w[2] = b1 /\ w[3] = b2 /\ w[4] = b3
  BY <1>8 DEF Bytes
<1> HIDE DEF w
<1>12. IntAt(w, 1) = n BY <1>7, <1>10, <1>11 DEF IntAt
<1> QED BY <1>9, <1>11, <1>12 DEF w

\* The op, the length of the key, the key.
IsHead(h, op, k) ==
  /\ h \in Bytes /\ Len(h) = 5 + Len(k) /\ h[1] = op /\ IntAt(h, 2) = Len(k)
  /\ \A j \in 1 .. Len(k) : h[5 + j] = k[j]

\* Where append puts the key.
LEMMA HeadLayout ==
  ASSUME NEW k \in Bytes, Len(k) \in 0 .. MaxInt, NEW op \in Byte
  PROVE  IsHead(<<op>> \o Int32(Len(k)) \o k, op, k)
<1> DEFINE n == Int32(Len(k))
           o == <<op>>
           p == o \o n
           h == p \o k
<1>1. n \in Bytes /\ Len(n) = 4 /\ IntAt(n, 1) = Len(k) BY Int32Back
<1>2. o \in Bytes /\ Len(o) = 1 /\ o[1] = op BY DEF Bytes
<1> HIDE DEF n, o
<1>3. Joins(p, o, n) BY <1>1, <1>2, ConcatIs
<1> HIDE DEF p
<1>4. Joins(h, p, k) BY <1>3, ConcatIs DEF Joins
<1> HIDE DEF h
<1>5. /\ p[1] = op /\ Len(p) = 5
      /\ p[2] = n[1] /\ p[3] = n[2] /\ p[4] = n[3] /\ p[5] = n[4]
  BY <1>1, <1>2, <1>3 DEF Joins
<1>6. h[1] = op /\ h[2] = n[1] /\ h[3] = n[2] /\ h[4] = n[3] /\ h[5] = n[4]
  BY <1>4, <1>5 DEF Joins
<1>7. 1 + 1 = 2 /\ 1 + 2 = 3 /\ 1 + 3 = 4 /\ 2 + 1 = 3 /\ 2 + 2 = 4 /\ 2 + 3 = 5 OBVIOUS
<1>8. h[2 + 1] = n[1 + 1] /\ h[2 + 2] = n[1 + 2] /\ h[2 + 3] = n[1 + 3]
  BY <1>6, <1>7, Zenon
<1>9. IntAt(h, 2) = IntAt(n, 1) BY <1>6, <1>8, IntAtIs DEF SameFour
<1>10. IsHead(h, op, k) BY <1>1, <1>4, <1>5, <1>6, <1>9 DEF Joins, IsHead
<1> QED BY <1>10 DEF h, p, o, n

\* A record as append writes it.
IsRecord(w, k, e) ==
  /\ w \in Bytes
  /\ Len(w) = IF e = Tombstone THEN 5 + Len(k) ELSE 9 + Len(k) + Len(e)
  /\ w[1] = IF e = Tombstone THEN 1 ELSE 0
  /\ IntAt(w, 2) = Len(k)
  /\ \A j \in 1 .. Len(k) : w[5 + j] = k[j]
  /\ e # Tombstone =>
       /\ IntAt(w, 6 + Len(k)) = Len(e)
       /\ \A j \in 1 .. Len(e) : w[9 + Len(k) + j] = e[j]

\* Where append puts the value.
LEMMA RecordLayout ==
  ASSUME NEW k \in Bytes, Len(k) \in 0 .. MaxInt, NEW e \in Bytes \cup {Tombstone},
         e # Tombstone => Len(e) \in 0 .. MaxInt
  PROVE  IsRecord(Encode(k, e, Tombstone), k, e)
<1>0. 0 \in Byte /\ 1 \in Byte BY DEF Byte
<1>1. CASE e = Tombstone
  <2> DEFINE w == Encode(k, e, Tombstone)
  <2>1. w = <<1>> \o Int32(Len(k)) \o k BY <1>1 DEF Encode
  <2>2. IsHead(w, 1, k) BY <1>0, <2>1, HeadLayout
  <2> QED BY <1>1, <2>2 DEF IsHead, IsRecord
<1>2. CASE e # Tombstone
  <2> DEFINE h == <<0>> \o Int32(Len(k)) \o k
             n == Int32(Len(e))
             q == h \o n
             w == q \o e
             m == Len(k)
  <2>1. e \in Bytes /\ m \in Nat /\ Len(e) \in Nat BY <1>2 DEF Bytes
  <2>2. IsHead(h, 0, k) BY <1>0, HeadLayout
  <2>3. n \in Bytes /\ Len(n) = 4 /\ IntAt(n, 1) = Len(e) BY <1>2, Int32Back
  <2>4. w = Encode(k, e, Tombstone) BY <1>2 DEF Encode
  <2> HIDE DEF h, n
  <2>5. Joins(q, h, n) BY <2>2, <2>3, ConcatIs DEF IsHead
  <2> HIDE DEF q
  <2>6. Joins(w, q, e) BY <2>1, <2>5, ConcatIs DEF Joins
  <2> HIDE DEF w
  <2>7. Len(h) = 5 + m /\ Len(q) = 9 + m /\ Len(w) = 9 + m + Len(e)
    BY <2>1, <2>2, <2>3, <2>5, <2>6 DEF Joins, IsHead
  <2>8. \A j \in 1 .. 5 + m : w[j] = h[j] BY <2>1, <2>5, <2>6, <2>7 DEF Joins
  <2>9. w[1] = h[1] /\ w[2] = h[2] /\ w[3] = h[3] /\ w[4] = h[4] /\ w[5] = h[5]
    BY <2>1, <2>8
  <2>10. 2 + 1 = 3 /\ 2 + 2 = 4 /\ 2 + 3 = 5 OBVIOUS
  <2>11. w[2 + 1] = h[2 + 1] /\ w[2 + 2] = h[2 + 2] /\ w[2 + 3] = h[2 + 3]
    BY <2>9, <2>10, Zenon
  <2>12. IntAt(w, 2) = IntAt(h, 2) BY <2>9, <2>11, IntAtIs DEF SameFour
  <2>13. \A j \in 1 .. m : w[5 + j] = k[j] BY <2>1, <2>2, <2>8 DEF IsHead
  <2>14. ASSUME NEW j \in 1 .. 4 PROVE w[5 + m + j] = n[j]
    <3>1. q[5 + m + j] = n[j] BY <2>3, <2>5, <2>7 DEF Joins
    <3>2. 5 + m + j \in 1 .. 9 + m BY <2>1
    <3> QED BY <2>6, <2>7, <3>1, <3>2 DEF Joins
  <2>15. /\ 5 + m + 1 = 6 + m /\ 5 + m + 2 = 6 + m + 1
         /\ 5 + m + 3 = 6 + m + 2 /\ 5 + m + 4 = 6 + m + 3
         /\ 1 + 1 = 2 /\ 1 + 2 = 3 /\ 1 + 3 = 4
    BY <2>1
  <2>16. /\ w[5 + m + 1] = n[1] /\ w[5 + m + 2] = n[2]
         /\ w[5 + m + 3] = n[3] /\ w[5 + m + 4] = n[4]
    BY <2>14
  <2>17. /\ w[6 + m] = n[1] /\ w[6 + m + 1] = n[1 + 1]
         /\ w[6 + m + 2] = n[1 + 2] /\ w[6 + m + 3] = n[1 + 3]
    BY <2>15, <2>16, Zenon
  <2>18. IntAt(w, 6 + m) = IntAt(n, 1) BY <2>17, IntAtIs DEF SameFour
  <2>19. \A j \in 1 .. Len(e) : w[9 + m + j] = e[j] BY <2>6, <2>7 DEF Joins
  <2>20. IsRecord(w, k, e)
    BY <1>2, <2>2, <2>3, <2>6, <2>7, <2>9, <2>12, <2>13, <2>18, <2>19
       DEF Joins, IsHead, IsRecord
  <2> QED BY <2>4, <2>20
<1> QED BY <1>1, <1>2

\* Behind b bytes, the file u has the first m bytes of w and ends.
EndsWith(u, b, w, m) ==
  /\ u \in Bytes /\ b \in Nat /\ m \in Nat /\ Len(u) = b + m /\ w \in Bytes /\ m <= Len(w)
  /\ \A j \in 1 .. m : u[b + j] = w[j]

\* An int of w is read from u, if its four bytes are there.
LEMMA IntThere ==
  ASSUME NEW u, NEW b, NEW w, NEW m, EndsWith(u, b, w, m), NEW j \in 1 .. m - 3
  PROVE  IntAt(u, b + j) = IntAt(w, j)
<1>1. b \in Nat /\ m \in Nat BY DEF EndsWith
<1>2. j \in 1 .. m /\ j + 1 \in 1 .. m /\ j + 2 \in 1 .. m /\ j + 3 \in 1 .. m BY <1>1
<1>3. /\ b + (j + 1) = b + j + 1 /\ b + (j + 2) = b + j + 2 /\ b + (j + 3) = b + j + 3
  BY <1>1
<1>4. /\ u[b + j] = w[j] /\ u[b + (j + 1)] = w[j + 1]
      /\ u[b + (j + 2)] = w[j + 2] /\ u[b + (j + 3)] = w[j + 3]
  BY <1>2, Zenon DEF EndsWith
<1>5. SameFour(u, b + j, w, j) BY <1>3, <1>4, Zenon DEF SameFour
<1> QED BY <1>5, IntAtIs

\* What replay sees at the beginning of a record of which m bytes are there.
LEMMA RecordThere ==
  ASSUME NEW k \in Bytes, NEW e \in Bytes \cup {Tombstone}, NEW w, IsRecord(w, k, e),
         NEW u, NEW b, NEW m, EndsWith(u, b, w, m), m >= 5
  PROVE  /\ IsDelete(u, b + 1) <=> e = Tombstone
         /\ IntAt(u, b + 2) = Len(k) /\ AfterKey(u, b + 1) = b + 6 + Len(k)
         /\ e # Tombstone /\ m >= 9 + Len(k) => IntAt(u, b + 6 + Len(k)) = Len(e)
<1>1. b \in Nat /\ m \in Nat /\ Len(k) \in Nat BY DEF EndsWith, Bytes
<1>2. u[b + 1] = w[1] BY <1>1 DEF EndsWith
<1>3. IsDelete(u, b + 1) <=> e = Tombstone BY <1>2 DEF IsDelete, IsRecord
<1>4. IntAt(u, b + 2) = Len(k)
  <2>1. 2 \in 1 .. m - 3 BY <1>1
  <2> QED BY <2>1, IntThere DEF IsRecord
<1>5. AfterKey(u, b + 1) = b + 6 + Len(k)
  <2>1. b + 1 + 1 = b + 2 /\ b + 1 + 5 + Len(k) = b + 6 + Len(k) BY <1>1
  <2>2. AfterKey(u, b + 1) = b + 1 + 5 + IntAt(u, b + 1 + 1) BY DEF AfterKey
  <2> QED BY <1>4, <2>1, <2>2
<1>6. ASSUME e # Tombstone, m >= 9 + Len(k) PROVE IntAt(u, b + 6 + Len(k)) = Len(e)
  <2>1. 6 + Len(k) \in 1 .. m - 3 /\ b + (6 + Len(k)) = b + 6 + Len(k) BY <1>1, <1>6
  <2>2. IntAt(u, b + (6 + Len(k))) = IntAt(w, 6 + Len(k)) BY <2>1, IntThere
  <2> QED BY <1>6, <2>1, <2>2 DEF IsRecord
<1> QED BY <1>3, <1>4, <1>5, <1>6

\* Behind b bytes, u has one more record, k with e.
LastIs(u, b, k, e) ==
  /\ Whole(u, b + 1) /\ EndOf(u, b + 1) = Len(u) + 1
  /\ RecordAt(u, b + 1, Tombstone) = <<k, e>>

\* A record that is there to its end is read as it was written.
LEMMA ReadBack ==
  ASSUME NEW k \in Bytes, NEW e \in Bytes \cup {Tombstone}, NEW w, IsRecord(w, k, e),
         NEW u, NEW b, EndsWith(u, b, w, Len(w))
  PROVE  LastIs(u, b, k, e)
<1>1. /\ u \in Bytes /\ b \in Nat /\ Len(w) \in Nat /\ Len(u) = b + Len(w)
      /\ Len(k) \in Nat /\ \A j \in 1 .. Len(w) : u[b + j] = w[j]
  BY DEF EndsWith, Bytes
<1>2. Len(w) >= 5 + Len(k) BY <1>1 DEF IsRecord, Bytes
<1>3. /\ IsDelete(u, b + 1) <=> e = Tombstone
      /\ IntAt(u, b + 2) = Len(k) /\ AfterKey(u, b + 1) = b + 6 + Len(k)
      /\ e # Tombstone /\ Len(w) >= 9 + Len(k) => IntAt(u, b + 6 + Len(k)) = Len(e)
  <2>1. Len(w) >= 5 BY <1>1, <1>2
  <2> QED BY <2>1, RecordThere
<1>4. Has(u, b + 1, 5) /\ Has(u, b + 1 + 5, IntAt(u, b + 1 + 1))
  <2>1. b + 1 + 1 = b + 2 BY <1>1
  <2>2. IntAt(u, b + 1 + 1) = Len(k) BY <1>3, <2>1
  <2>3. 5 <= Len(u) - (b + 1) + 1 /\ Len(k) <= Len(u) - (b + 1 + 5) + 1 BY <1>1, <1>2
  <2> QED BY <1>1, <2>2, <2>3 DEF Has
<1>5. SubSeq(u, b + 1 + 5, b + 6 + Len(k) - 1) = k
  <2>1. ASSUME NEW j \in 1 .. Len(k) PROVE k[j] = u[b + 1 + 5 + j - 1]
    <3>1. b + 1 + 5 + j - 1 = b + (5 + j) /\ 5 + j \in 1 .. Len(w) BY <1>1, <1>2
    <3>2. u[b + (5 + j)] = w[5 + j] BY <1>1, <3>1
    <3> QED BY <3>1, <3>2 DEF IsRecord
  <2> DEFINE c == b + 1 + 5
             d == b + 6 + Len(k) - 1
  <2>3. c \in Nat \ {0} /\ d \in Int /\ d <= Len(u) /\ Len(k) = d - c + 1
    BY <1>1, <1>2
  <2>4. \A j \in 1 .. Len(k) : k[j] = u[c + j - 1] BY <2>1
  <2> HIDE DEF c, d
  <2>5. SubSeq(u, c, d) = k BY <1>1, <2>3, <2>4, SubSeqIs
  <2> QED BY <2>5 DEF c, d
<1> DEFINE key == SubSeq(u, b + 1 + 5, AfterKey(u, b + 1) - 1)
           value == SubSeq(u, AfterKey(u, b + 1) + 4, AfterValue(u, b + 1) - 1)
<1>6. key = k
  <2>1. AfterKey(u, b + 1) - 1 = b + 6 + Len(k) - 1 BY <1>1, <1>3
  <2> QED BY <1>5, <2>1, Zenon DEF key
<1>7. RecordAt(u, b + 1, Tombstone)
      = <<key, IF IsDelete(u, b + 1) THEN Tombstone ELSE value>>
  BY Zenon DEF RecordAt
<1> HIDE DEF key, value
<1>8. CASE e = Tombstone
  <2>1. Whole(u, b + 1) BY <1>3, <1>4, <1>8 DEF Whole
  <2>2. EndOf(u, b + 1) = Len(u) + 1
    BY <1>1, <1>3, <1>8 DEF EndOf, IsRecord
  <2>3. RecordAt(u, b + 1, Tombstone) = <<k, e>> BY <1>3, <1>8, <1>6, <1>7, Zenon
  <2> QED BY <2>1, <2>2, <2>3 DEF LastIs
<1>9. CASE e # Tombstone
  <2> DEFINE a == b + 6 + Len(k)
  <2>1. e \in Bytes /\ Len(e) \in Nat /\ Len(w) = 9 + Len(k) + Len(e)
    BY <1>9 DEF IsRecord, Bytes
  <2>2. IntAt(u, a) = Len(e) BY <1>1, <1>3, <1>9, <2>1
  <2>3. a \in Nat /\ Len(u) = a + 3 + Len(e) BY <1>1, <2>1
  <2>4. Has(u, a, 4) /\ Has(u, a + 4, IntAt(u, a)) BY <2>1, <2>2, <2>3 DEF Has
  <2>5. Whole(u, b + 1) BY <1>3, <1>4, <1>9, <2>4 DEF Whole
  <2>6. AfterValue(u, b + 1) = a + 4 + Len(e) BY <1>3, <2>2 DEF AfterValue
  <2>7. EndOf(u, b + 1) = Len(u) + 1 BY <1>3, <1>9, <2>1, <2>3, <2>6 DEF EndOf
  <2>8. SubSeq(u, a + 4, a + 4 + Len(e) - 1) = e
    <3>1. ASSUME NEW j \in 1 .. Len(e) PROVE e[j] = u[a + 4 + j - 1]
      <4>1. a + 4 + j - 1 = b + (9 + Len(k) + j) /\ 9 + Len(k) + j \in 1 .. Len(w)
        BY <1>1, <2>1
      <4>2. u[b + (9 + Len(k) + j)] = w[9 + Len(k) + j] BY <1>1, <4>1
      <4> QED BY <1>9, <4>1, <4>2 DEF IsRecord
    <3> HIDE DEF a
    <3> DEFINE c == a + 4
               d == c + Len(e) - 1
    <3>2. c \in Nat \ {0} /\ d \in Int /\ d <= Len(u) /\ Len(e) = d - c + 1
      BY <2>1, <2>3
    <3>3. \A j \in 1 .. Len(e) : e[j] = u[c + j - 1] BY <3>1
    <3> HIDE DEF c, d
    <3>4. SubSeq(u, c, d) = e BY <1>1, <2>1, <3>2, <3>3, SubSeqIs
    <3> QED BY <3>4 DEF c, d
  <2>9. value = e
    <3>1. AfterKey(u, b + 1) + 4 = a + 4 /\ AfterValue(u, b + 1) - 1 = a + 4 + Len(e) - 1
      BY <1>1, <1>3, <2>1, <2>3, <2>6
    <3> QED BY <2>8, <3>1, Zenon DEF value
  <2>10. RecordAt(u, b + 1, Tombstone) = <<k, e>> BY <1>3, <1>9, <1>6, <1>7, <2>9, Zenon
  <2> QED BY <2>5, <2>7, <2>10 DEF LastIs
<1> QED BY <1>8, <1>9

\* A record of which the last byte is missing is not whole, and what there is of its
\* lengths is not negative.
LEMMA TornNotWhole ==
  ASSUME NEW k \in Bytes, NEW e \in Bytes \cup {Tombstone}, NEW w, IsRecord(w, k, e),
         NEW u, NEW b, NEW m, EndsWith(u, b, w, m), m < Len(w)
  PROVE  ~Whole(u, b + 1) /\ ~Negative(u, b + 1)
<1>1. /\ b \in Nat /\ m \in Nat /\ Len(u) = b + m /\ Len(k) \in Nat
  BY DEF EndsWith, Bytes
<1> SUFFICES ASSUME Whole(u, b + 1) \/ Negative(u, b + 1) PROVE FALSE OBVIOUS
<1>2. m >= 5 BY <1>1 DEF Whole, Negative, Has
<1>3. /\ IsDelete(u, b + 1) <=> e = Tombstone
      /\ IntAt(u, b + 2) = Len(k) /\ AfterKey(u, b + 1) = b + 6 + Len(k)
      /\ e # Tombstone /\ m >= 9 + Len(k) => IntAt(u, b + 6 + Len(k)) = Len(e)
  BY <1>2, RecordThere
<1>4. m >= 5 + Len(k)
  <2>1. b + 1 + 1 = b + 2 BY <1>1
  <2>2. Has(u, b + 1 + 5, IntAt(u, b + 2)) BY <1>1, <1>3, <2>1 DEF Whole, Negative
  <2> QED BY <1>1, <1>3, <2>2 DEF Has
<1>5. CASE e = Tombstone BY <1>1, <1>4, <1>5 DEF IsRecord
<1>6. CASE e # Tombstone
  <2> DEFINE a == b + 6 + Len(k)
  <2>1. e \in Bytes /\ Len(e) \in Nat /\ Len(w) = 9 + Len(k) + Len(e)
    BY <1>6 DEF IsRecord, Bytes
  <2>2. Has(u, a, 4)
    <3>1. b + 1 + 1 = b + 2 BY <1>1
    <3> QED BY <1>1, <1>3, <1>6, <3>1 DEF Whole, Negative
  <2>3. m >= 9 + Len(k) BY <1>1, <2>2 DEF Has
  <2>4. IntAt(u, a) = Len(e) BY <1>3, <1>6, <2>3
  <2>5. Has(u, a + 4, IntAt(u, a))
    <3>1. b + 1 + 1 = b + 2 BY <1>1
    <3> QED BY <1>1, <1>3, <1>6, <2>1, <2>4, <3>1 DEF Whole, Negative
  <2> QED BY <1>1, <2>1, <2>4, <2>5 DEF Has
<1> QED BY <1>5, <1>6

-----------------------------------------------------------------------------
(* What appending does to what replay delivers.                            *)

\* The entries of the tree are written in this layout.
LEMMA EntriesAreBytes ==
  ASSUME NEW k \in Keys, NEW e \in Entries
  PROVE  IsRecord(Encode(k, e, Tombstone), k, e)
<1>1. k \in Bytes /\ Len(k) \in 0 .. MaxInt BY BytesAssumption DEF Bytes
<1>2. e \in Bytes \cup {Tombstone} BY BytesAssumption DEF Bytes, Entries
<1>3. e # Tombstone => Len(e) \in 0 .. MaxInt BY BytesAssumption DEF Bytes, Entries
<1> QED BY <1>1, <1>2, <1>3, RecordLayout

\* Appending a whole record adds it to what replay delivers.
LEMMA AppendWhole ==
  ASSUME NEW s \in Bytes, Intact(s), NEW k \in Keys, NEW e \in Entries,
         NEW u, u = s \o Encode(k, e, Tombstone)
  PROVE  /\ u \in Bytes /\ Intact(u)
         /\ Replay(u, Tombstone) = Append(Replay(s, Tombstone), <<k, e>>)
<1> DEFINE w == Encode(k, e, Tombstone)
           b == Len(s)
<1>1. k \in Bytes /\ e \in Bytes \cup {Tombstone} BY BytesAssumption DEF Bytes, Entries
<1>2. IsRecord(w, k, e) BY EntriesAreBytes
<1>3. w \in Bytes BY <1>2 DEF IsRecord
<1>4. u = s \o w OBVIOUS
<1> HIDE DEF w
<1>5. Joins(u, s, w) BY <1>3, <1>4, ConcatIs
<1>6. EndsWith(u, b, w, Len(w)) BY <1>3, <1>5 DEF EndsWith, Joins
<1>7. /\ Whole(u, b + 1) /\ EndOf(u, b + 1) = Len(u) + 1
      /\ RecordAt(u, b + 1, Tombstone) = <<k, e>>
  <2>1. LastIs(u, b, k, e) BY <1>1, <1>2, <1>6, ReadBack
  <2> QED BY <2>1 DEF LastIs
<1>8. u \in Bytes /\ b \in Nat /\ Len(u) \in Nat /\ b <= Len(u) BY <1>5 DEF Joins
<1>9. Intact(u)
  <2>1. PICK starts \in SUBSET (1 .. b + 1) :
          /\ 1 \in starts /\ b + 1 \in starts
          /\ \A i \in starts : i = b + 1 \/ (Whole(s, i) /\ EndOf(s, i) \in starts)
    BY DEF Intact
  <2> DEFINE more == starts \cup {Len(u) + 1}
  <2>2. more \in SUBSET (1 .. Len(u) + 1)
    <3>1. \A i \in 1 .. b + 1 : i \in 1 .. Len(u) + 1 BY <1>8
    <3>2. Len(u) + 1 \in 1 .. Len(u) + 1 BY <1>8
    <3> QED BY <3>1, <3>2
  <2>3. 1 \in more /\ Len(u) + 1 \in more BY <2>1
  <2>4. ASSUME NEW i \in more, i # Len(u) + 1
        PROVE  Whole(u, i) /\ EndOf(u, i) \in more
    <3>1. CASE i = b + 1 BY <1>7, <3>1
    <3>2. CASE i # b + 1
      <4>1. i \in 1 .. b + 1 /\ Whole(s, i) /\ EndOf(s, i) \in starts BY <2>1, <2>4, <3>2
      <4>2. Whole(u, i) /\ EndOf(u, i) = EndOf(s, i) BY <1>3, <1>4, <4>1, WholeStays
      <4> QED BY <4>1, <4>2
    <3> QED BY <3>1, <3>2
  <2> HIDE DEF more
  <2> QED BY <2>2, <2>3, <2>4 DEF Intact
<1>10. Reading(u)[b + 1] = << <<k, e>> >>
  <2> DEFINE f == Reading(u)
             n == Len(u) + 1
  <2>1. n \in 1 .. n /\ b + 1 \in 1 .. n BY <1>8
  <2>2. ~Whole(u, n) /\ Stop(u, n) = <<>> BY <1>8, AtEnd
  <2>3. \A i \in 1 .. n : f[i] = IF ~Whole(u, i) THEN Stop(u, i)
                          ELSE <<RecordAt(u, i, Tombstone)>> \o f[EndOf(u, i)]
    BY <1>8, ReadingFacts
  <2> HIDE DEF f
  <2>4. f[n] = <<>> BY <2>1, <2>2, <2>3
  <2>5. f[b + 1] = <<RecordAt(u, b + 1, Tombstone)>> \o f[EndOf(u, b + 1)]
    BY <1>7, <2>1, <2>3
  <2>6. f[b + 1] = << <<k, e>> >> \o <<>> BY <1>7, <2>4, <2>5
  <2> QED BY <2>6 DEF f
<1>11. Replay(u, Tombstone) = Replay(s, Tombstone) \o << <<k, e>> >>
  BY <1>3, <1>4, <1>10, ReadOn
<1>12. Replay(s, Tombstone) \in Seq(Items) /\ <<k, e>> \in Items
  <2>1. Reading(s)[1] \in Seq(Items) BY <1>8, ReadingFacts
  <2> QED BY <1>1, <2>1, ReplayReads, RecordIn DEF Items
<1>13. \A rs \in Seq(Items), r \in Items : rs \o <<r>> = Append(rs, r) OBVIOUS
<1> QED BY <1>8, <1>9, <1>11, <1>12, <1>13

\* The first bytes of a record.
IsTorn(t, k, e) ==
  \E m \in 1 .. Len(Encode(k, e, Tombstone)) - 1 : t = SubSeq(Encode(k, e, Tombstone), 1, m)

\* Appending a part of a record adds nothing.
LEMMA AppendTorn ==
  ASSUME NEW s \in Bytes, Intact(s), NEW k \in Keys, NEW e \in Entries,
         NEW t, IsTorn(t, k, e), NEW u, u = s \o t
  PROVE  u \in Bytes /\ Replay(u, Tombstone) = Replay(s, Tombstone)
<1> DEFINE w == Encode(k, e, Tombstone)
           b == Len(s)
<1>0. PICK m \in 1 .. Len(w) - 1 : t = SubSeq(w, 1, m) BY DEF IsTorn
<1> DEFINE v == SubSeq(w, 1, m)
<1>1. k \in Bytes /\ e \in Bytes \cup {Tombstone} BY BytesAssumption DEF Bytes, Entries
<1>2. IsRecord(w, k, e) BY EntriesAreBytes
<1>3. w \in Bytes /\ Len(w) \in Nat BY <1>2 DEF IsRecord, Bytes
<1>4. u = s \o v /\ m \in Nat /\ m < Len(w) BY <1>0, <1>3
<1> HIDE DEF w
<1>5. v \in Bytes /\ Len(v) = m /\ \A j \in 1 .. m : v[j] = w[j]
  <2>1. \A j \in 1 .. m : w[j] \in Byte BY <1>3, <1>4, ElementOfSeq DEF Bytes
  <2>2. /\ v \in Seq(Byte)
        /\ Len(v) = IF 1 <= m THEN m - 1 + 1 ELSE 0
        /\ \A j \in 1 .. m - 1 + 1 : v[j] = w[1 + j - 1]
    BY <1>3, <1>4, <2>1, SubSeqProperties DEF Bytes
  <2> HIDE DEF v
  <2> QED BY <1>4, <2>2 DEF Bytes
<1> HIDE DEF v
<1>6. Joins(u, s, v) BY <1>4, <1>5, ConcatIs
<1>7. EndsWith(u, b, w, m) BY <1>3, <1>4, <1>5, <1>6 DEF EndsWith, Joins
<1>8. ~Whole(u, b + 1) /\ Stop(u, b + 1) = <<>>
  BY <1>1, <1>2, <1>4, <1>7, TornNotWhole DEF Stop
<1>9. u \in Bytes /\ b + 1 \in 1 .. Len(u) + 1 BY <1>6 DEF Joins
<1>10. Reading(u)[b + 1] = <<>> BY <1>8, <1>9, ReadingFacts
<1>11. Replay(u, Tombstone) = Replay(s, Tombstone) \o <<>> BY <1>4, <1>5, <1>10, ReadOn
<1>12. Replay(s, Tombstone) \in Seq(Items)
  <2>1. 1 \in 1 .. Len(s) + 1 BY DEF Bytes
  <2>2. Reading(s)[1] \in Seq(Items) BY <2>1, ReadingFacts
  <2> QED BY <2>2, ReplayReads
<1> QED BY <1>9, <1>11, <1>12

\* The last record of a key counts.
LEMMA LastAppended ==
  ASSUME NEW S, NEW rs \in Seq(S), NEW r \in S, NEW k
  PROVE  LastEntry(Append(rs, r), k) = IF r[1] = k THEN r[2] ELSE LastEntry(rs, k)
<1> DEFINE n == Len(rs)
           ts == Append(rs, r)
           at == {i \in DOMAIN rs : rs[i][1] = k}
           new == {i \in DOMAIN ts : ts[i][1] = k}
<1>1. /\ n \in Nat /\ DOMAIN rs = 1 .. n /\ DOMAIN ts = 1 .. n + 1
      /\ ts[n + 1] = r /\ \A i \in 1 .. n : ts[i] = rs[i]
  OBVIOUS
<1> HIDE DEF ts, n
<1>2. CASE r[1] = k
  <2>1. n + 1 \in new /\ \A i \in new : n + 1 >= i BY <1>1, <1>2
  <2>2. \A x \in new : (\A i \in new : x >= i) => x = n + 1 BY <1>1, <2>1
  <2> HIDE DEF new
  <2>3. Max(new) = n + 1 BY <2>1, <2>2, Zenon DEF Max
  <2> QED BY <1>1, <1>2, <2>1, <2>3 DEF LastEntry, new, ts
<1>3. CASE r[1] # k
  <2>1. new = at BY <1>1, <1>3
  <2>2. LastEntry(ts, k) = IF at = {} THEN NoEntry ELSE ts[Max(at)][2]
    BY <2>1 DEF LastEntry
  <2>3. LastEntry(rs, k) = IF at = {} THEN NoEntry ELSE rs[Max(at)][2] BY DEF LastEntry
  <2>4. ASSUME at # {} PROVE ts[Max(at)] = rs[Max(at)]
    <3>1. at \in SUBSET (0 .. n) /\ \A i \in at : i \in 1 .. n BY <1>1
    <3> HIDE DEF at
    <3>2. \E x \in at : \A y \in at : x >= y BY <1>1, <2>4, <3>1, GreatestOf
    <3>3. Max(at) \in at BY <3>2, Zenon DEF Max
    <3> QED BY <1>1, <3>1, <3>3
  <2> QED BY <1>3, <2>2, <2>3, <2>4 DEF ts
<1> QED BY <1>2, <1>3

-----------------------------------------------------------------------------
(* The log under the tree.                                                 *)

\* What the log is worth, and that it can be appended to while it is whole.
LogInv ==
  /\ tail \in {"whole", "torn", "buried"}
  /\ tail = "whole" => log \in Bytes /\ Intact(log)
  /\ ReplayGivesWritten

\* The truncated log.
LEMMA EmptyLog == <<>> \in Bytes /\ Intact(<<>>) /\ Replay(<<>>, Tombstone) = <<>>
<1> DEFINE s == <<>>
<1>1. s \in Bytes /\ Len(s) = 0 BY DEF Bytes
<1> HIDE DEF s
<1>2. Intact(s)
  <2>1. {1} \in SUBSET (1 .. Len(s) + 1) /\ Len(s) + 1 = 1 BY <1>1
  <2> QED BY <2>1 DEF Intact
<1>3. ~Whole(s, 1) /\ Stop(s, 1) = <<>> BY <1>1, AtEnd
<1>4. 1 \in 1 .. Len(s) + 1 BY <1>1
<1>5. Reading(s)[1] = <<>> BY <1>1, <1>3, <1>4, ReadingFacts
<1> QED BY <1>1, <1>2, <1>5, ReplayReads DEF s

\* An empty log says nothing of any key.
LEMMA EmptyReplayed == log = <<>> => Replayed = EmptyMap /\ ~ReplayThrows
  BY EmptyLog DEF Replayed, ReplayThrows, LastEntry, EmptyMap

\* The first log is empty.
LEMMA LogInit == LInit => LogInv
  BY EmptyLog, EmptyReplayed DEF LInit, Init, LogInv, ReplayGivesWritten

\* No step of the tree over its log breaks the invariant of the log.
LEMMA LogStep == ASSUME LogInv, [LNext]_<<vars, logVars>> PROVE LogInv'
<1>1. ASSUME NEW k \in Keys, NEW e \in Entries, LAppend(k, e) PROVE LogInv'
  <2>1. CASE tail # "whole"
    <3>1. tail' = "buried" BY <1>1, <2>1 DEF LAppend
    <3> QED BY <3>1 DEF LogInv, ReplayGivesWritten
  <2>2. CASE tail = "whole"
    <3> DEFINE u == log \o Encode(k, e, Tombstone)
               rs == Replay(log, Tombstone)
    <3>1. /\ Intact(log) /\ log \in Bytes /\ ~ReplayThrows /\ Replayed = wal
          /\ log' = u /\ tail' = "whole" /\ wal' = [wal EXCEPT ![k] = e]
      BY <1>1, <2>2 DEF LAppend, AppendLog, LogInv, ReplayGivesWritten
    <3>2. u \in Bytes /\ Intact(u) /\ Replay(u, Tombstone) = Append(rs, <<k, e>>)
      BY <3>1, AppendWhole
    <3> HIDE DEF u
    <3>3. rs \in Seq(Items) /\ <<k, e>> \in Items /\ <<k, e>> # Thrown
      <4>1. 1 \in 1 .. Len(log) + 1 BY <3>1 DEF Bytes
      <4>2. rs \in Seq(Items) BY <3>1, <4>1, ReadingFacts, ReplayReads
      <4>3. k \in Bytes /\ e \in Bytes \cup {Tombstone} BY BytesAssumption DEF Bytes, Entries
      <4>4. <<k, e>> # Thrown BY DEF Thrown
      <4> QED BY <4>2, <4>3, <4>4, RecordIn DEF Items
    <3>4. wal = [x \in Keys |-> LastEntry(rs, x)] /\ \A i \in DOMAIN rs : rs[i] # Thrown
      BY <3>1 DEF Replayed, ReplayThrows
    <3> HIDE DEF rs
    <3>5. \A x : LastEntry(Append(rs, <<k, e>>), x) = IF k = x THEN e ELSE LastEntry(rs, x)
      BY <3>3, LastAppended
    <3>6. wal' = [x \in Keys |-> LastEntry(Append(rs, <<k, e>>), x)]
      BY <3>1, <3>4, <3>5
    <3>7. \A i \in DOMAIN Append(rs, <<k, e>>) : Append(rs, <<k, e>>)[i] # Thrown
      BY <3>3, <3>4
    <3>8. Replay(log', Tombstone) = Append(rs, <<k, e>>) BY <3>1, <3>2
    <3>9. ReplayGivesWritten'
      BY <3>6, <3>7, <3>8 DEF ReplayGivesWritten, Replayed, ReplayThrows
    <3> QED BY <3>1, <3>2, <3>9 DEF LogInv
  <2> QED BY <2>1, <2>2
<1>2. ASSUME NEW k \in Keys, NEW e \in Entries,
             NEW n \in 1 .. Len(Encode(k, e, Tombstone)) - 1, CrashInAppend(k, e, n)
      PROVE  LogInv'
  <2>1. CASE tail # "whole"
    <3>1. tail' = "buried" BY <1>2, <2>1 DEF CrashInAppend
    <3> QED BY <3>1 DEF LogInv, ReplayGivesWritten
  <2>2. CASE tail = "whole"
    <3> DEFINE t == SubSeq(Encode(k, e, Tombstone), 1, n)
               u == log \o t
    <3>1. IsTorn(t, k, e) BY Zenon DEF IsTorn
    <3>2. /\ Intact(log) /\ log \in Bytes /\ ~ReplayThrows /\ Replayed = wal
          /\ log' = u /\ tail' = "torn" /\ wal' = wal
      BY <1>2, <2>2 DEF CrashInAppend, Crash, disk, LogInv, ReplayGivesWritten
    <3>3. Replay(u, Tombstone) = Replay(log, Tombstone)
      <4>1. u = log \o t BY Zenon
      <4> HIDE DEF t, u
      <4> QED BY <3>1, <3>2, <4>1, AppendTorn
    <3> HIDE DEF u
    <3>4. Replayed' = Replayed /\ (ReplayThrows' <=> ReplayThrows)
      BY <3>2, <3>3 DEF Replayed, ReplayThrows
    <3> QED BY <3>2, <3>4 DEF LogInv, ReplayGivesWritten
  <2> QED BY <2>1, <2>2
<1>3. CASE LTruncate
  <2>1. log' = <<>> /\ tail' = "whole" /\ wal' = EmptyMap BY <1>3 DEF LTruncate, Truncate
  <2>2. Replayed' = EmptyMap /\ ~ReplayThrows'
    BY <2>1, EmptyLog DEF Replayed, ReplayThrows, LastEntry, EmptyMap
  <2> QED BY <2>1, <2>2, EmptyLog DEF LogInv, ReplayGivesWritten
<1>4. ASSUME UNCHANGED <<wal, log, tail>> PROVE LogInv'
  BY <1>4 DEF LogInv, ReplayGivesWritten, Replayed, ReplayThrows
<1>5. CASE LOpen \/ LOpenThrows BY <1>4, <1>5 DEF LOpen, LOpenThrows, OpenWith, disk
<1>6. ASSUME \/ Apply \/ Flush \/ Close \/ FlushBegin \/ FlushWrite
             \/ Compact \/ CompactBegin \/ CompactWrite \/ DeleteOld
             \/ Crash \/ OpenFails,
             UNCHANGED logVars
      PROVE  LogInv'
  <2>1. wal' = wal
    BY <1>6 DEF Apply, Flush, Close, FlushBegin, FlushWrite, Compact, CompactBegin,
                CompactWrite, DeleteOld, Crash, OpenFails, disk
  <2> QED BY <1>4, <1>6, <2>1 DEF logVars
<1>7. CASE UNCHANGED <<vars, logVars>> BY <1>4, <1>7 DEF vars, disk, logVars
<1> QED BY <1>1, <1>2, <1>3, <1>5, <1>6, <1>7 DEF LNext

\* Whatever the keys and values and wherever the process dies: until something is
\* appended behind the part of a record that a crash has left, parsing the bytes of the
\* log gives every write acknowledged since the last flush, and nothing else.
THEOREM ReplayGivesWrittenHolds == LSpec => []ReplayGivesWritten
<1>1. LogInv => ReplayGivesWritten BY DEF LogInv
<1> QED BY <1>1, LogInit, LogStep, PTL DEF LSpec

-----------------------------------------------------------------------------
(* The tree over its log implements the tree, unless it misreads the log.  *)

\* A step that does not misread the log is a step of the tree: the memtable that the
\* constructor fills from the bytes is what was acknowledged, and replay does not throw.
LEMMA StepImplements ==
  ASSUME LogInv, [LNext]_<<vars, logVars>>, ~misread' PROVE [Next]_vars
<1>1. ASSUME NEW k \in Keys, NEW e \in Entries, LAppend(k, e) PROVE Next
  BY <1>1 DEF LAppend, Next
<1>2. ASSUME NEW k \in Keys, NEW e \in Entries, NEW n, CrashInAppend(k, e, n) PROVE Next
  BY <1>2 DEF CrashInAppend, Next
<1>3. LTruncate => Next BY DEF LTruncate, Next
<1>4. LOpen => Next
  <2>1. SUFFICES ASSUME LOpen PROVE Open BY DEF Next
  <2>2. tail # "buried" BY <2>1 DEF LOpen
  <2>3. Replayed = wal BY <2>2 DEF LogInv, ReplayGivesWritten
  <2> QED BY <2>1, <2>3 DEF LOpen, Open
<1>5. ~LOpenThrows
  <2>1. SUFFICES ASSUME LOpenThrows PROVE FALSE OBVIOUS
  <2>2. tail # "buried" /\ ReplayThrows BY <2>1 DEF LOpenThrows
  <2> QED BY <2>2 DEF LogInv, ReplayGivesWritten
<1> QED BY <1>1, <1>2, <1>3, <1>4, <1>5 DEF LNext, Next

\* A tree that never replays a log with bytes behind the part of a record behaves, over
\* the bytes of its log, like the tree whose log is a map.
THEOREM ImplementsLsmTree == LSpec /\ []~misread => Spec
<1>1. LInit => Init BY DEF LInit
<1> QED BY <1>1, LogInit, LogStep, StepImplements, PTL DEF LSpec, Spec

\* Until such a log is replayed, the tree over it has the invariant of the tree.
LInvUnlessMisread == LogInv /\ misread \in BOOLEAN /\ (~misread => LInv)

\* No step of the tree over its log breaks it: the history only grows.
LEMMA UnlessMisreadStep ==
  ASSUME ProofCrashAt, LInvUnlessMisread, [LNext]_<<vars, logVars>>
  PROVE  LInvUnlessMisread'
<1>1. LogInv /\ LogInv' BY LogStep DEF LInvUnlessMisread
<1>2. misread' \in BOOLEAN /\ (misread => misread')
  BY DEF LInvUnlessMisread, LNext, LAppend, CrashInAppend, LTruncate, LOpen, LOpenThrows, logVars
<1>3. ASSUME ~misread' PROVE LInv'
  <2>1. LInv BY <1>2, <1>3 DEF LInvUnlessMisread
  <2>2. [Next]_vars BY <1>1, <1>3, StepImplements
  <2> QED BY <2>1, <2>2, LInvInductive
<1> QED BY <1>1, <1>2, <1>3 DEF LInvUnlessMisread

\* It holds of every behaviour of the tree over its log.
LEMMA UnlessMisread == ASSUME ProofCrashAt PROVE LSpec => []LInvUnlessMisread
<1>1. LInit => LInvUnlessMisread BY LogInit, InitInv DEF LInit, LInvUnlessMisread
<1> QED BY <1>1, UnlessMisreadStep, PTL DEF LSpec

\* What is parsed from the bytes on disk, with the complete SSTables, says of each key
\* what was last written to it, wherever the process crashes outside compaction's
\* deletion loop, while the log is not buried and none was misread.
THEOREM LoggedNothingLost == ASSUME ProofCrashAt PROVE LSpec => []LoggedDurable
<1>1. LInvUnlessMisread => LoggedDurable
  <2>1. SUFFICES ASSUME LInvUnlessMisread, ~misread, tail # "buried",
                        pc \in CrashAt \cup {"down", "unopenable"}, NEW k \in Keys
                 PROVE  OnDisk(Replayed, k, want[k])
    BY DEF LoggedDurable
  <2>2. Replayed = wal BY <2>1 DEF LInvUnlessMisread, LogInv, ReplayGivesWritten
  <2>3. OnDisk(wal, k, want[k]) BY <2>1 DEF LInvUnlessMisread, LInv, DiskInv, ProofCrashAt
  <2> QED BY <2>2, <2>3
<1> QED BY <1>1, UnlessMisread, PTL

\* The tree over the bytes of its log answers get with the value last written, unless
\* a buried log was replayed.
THEOREM LoggedGetReturnsLatest == ASSUME ProofCrashAt PROVE LSpec => []LoggedReadsLatest
<1>1. LInvUnlessMisread => LoggedReadsLatest
  BY LInvReads DEF LInvUnlessMisread, LoggedReadsLatest
<1> QED BY <1>1, UnlessMisread, PTL
=============================================================================
