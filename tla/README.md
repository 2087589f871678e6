# A TLA+ verification of Foundations-Lab

Foundations-Lab is a collection of thirteen independent small systems in C, C++,
Java, C# and JavaScript.  They share no code; what they have in common is that
each claims a strong correctness property ("never lost", "settles once",
"converges", "never hands out overlapping memory") and tests it by example or by
random stress.  This directory models the ones with state that is hard to test,
checks them exhaustively on small instances with TLC, and proves the central
facts of eight parts of them, the work-stealing deque, the thread pool, the LSM tree with
its log, the sequence CRDT, promises, the reactive graph, the matcher of the DEFLATE codec
and the coroutines, for every value of the constants with TLAPS.

`PROJECT.json` is the machine-readable index: runs, the map from definitions to
source lines, mutants, hazards, findings and theorems.

## 1. Inventory

| Sub-project | State | Operations | What is hard | What makes it correct |
|---|---|---|---|---|
| CPP-WorkStealing, `Deque` | `top_`, `bottom_`, `ring_`, the rings | push (with growth), pop, steal | lock-free: every access of shared memory interleaves; relaxed stores | every task handed out exactly once; `nullptr` from pop means empty |
| CPP-WorkStealing, `ThreadPool` | deques, global queue, `pending_`, `done_`, mutex and condition variable | submit, worker loop, wait_idle, destructor | lost wake-ups, `notify_one` to the wrong thread, shutdown | no task twice; `pending_ = 0` means all done; everything terminates |
| Java-LSM, `LsmTree`, `MemTable`, `SSTable` | memtable, list of tables, files | put, delete, get, scan, flush, compact, close, open | a crash between any two changes of the disk | no acknowledged write lost, no deleted key back, latest value read |
| Java-LSM, `WriteAheadLog` | bytes of `wal.log` | append, truncate, replay | torn records | replay gives exactly what was acknowledged |
| Java-LSM, `BloomFilter` | bit array | add, mightContain | – | no false negatives |
| JS-CRDT, `RGA` | nodes, Lamport clock, deferred operations | insertAt, deleteAt, apply | operations late, reordered, duplicated | convergence, intention, no resurrection |
| JS-CRDT, counters and OR-Set | maps per replica | increment, add, remove, merge, clone | concurrent add and remove | merge is a join; add wins |
| Promises-APlus | `#state`, `#value`, callbacks, microtasks | constructor, then, all, race, resolution procedure | foreign thenables, order of microtasks | settles once, handlers once and in order |
| Java-BTree | nodes, leaf chain, size | put, remove, get, range | cascading splits, borrows, merges | structure invariants, get and range agree with the map |
| Reactive-Signals | values, colours, edges, pending effects, batch depth | signal, computed, effect, batch, untrack, dispose | re-entrant propagation, dynamic dependencies, exceptions | no glitch, no stale CLEAN node, no needless run |
| C-Allocator | memory, free lists, chunks, statistics | balloc, bfree, brealloc, bcalloc, reset | everything lives in the memory it manages | no overlap, no leak, complete coalescing |
| C-Coroutines | stacks, `g_current`, `sp`, `caller_sp`, `value`, `done` of each coroutine | create, resume, yield, destroy, switch | control leaves a function in the middle and comes back after any nesting of resumes | control returns to whoever resumed, values reach the other side, a coroutine that ended never runs again |
| C-Deflate, matcher | hash chains `head` and `prev`, the match held back | find_match, lz77_parse | slots of `prev` reused and never initialised, lazy matching | the tokens expand to the input |
| C-Deflate, codec | bit streams, code lengths, decoding tables | compress, decompress | two bit orders, code length limits, choice of block type, streams cut or damaged | round trip; every fault reported; the chosen block has the size it was chosen for |
| CPP-SimdJSON | scanner position, value tree | parse | vector and scalar scans | the two agree |
| CSharp-ZeroCSV | enumerators over a buffer | rows, fields | quotes, line ends | fields of the reference grammar |
| CSharp-SourceGen | none at run time | generate | – | – |
| HyperLogLog | registers | add, merge, estimate | floating point | merge is a join |

Interactions.  A `ThreadPool` worker owns one `Deque` and steals from the others.
`LsmTree` calls `WriteAheadLog`, `MemTable` and `SSTable`, and an `SSTable` holds
a `BloomFilter`.  RGA replicas exchange operations over a network the code leaves to its
user.  Promises call into user handlers and foreign thenables, which call back.
Signals call user functions, which read and write signals.  There are no
interactions between sub-projects.

## 2. Modules

| Module | Models | Kind |
|---|---|---|
| `AbstractDeque` | what a `Deque` promises: a double-ended queue with indivisible operations | abstract specification |
| `ChaseLev` | `ws::Deque`, one step per access of shared memory | component; implements `AbstractDeque` |
| `ChaseLevWeak` | the same with the owner's stores in a buffer (x86 TSO, or ARM-like) | composition with a memory system |
| `ChaseLevProof` | | proofs about `ChaseLev` |
| `ThreadPool` | `ws::ThreadPool` over abstract deques | component |
| `ThreadPoolProof` | | proofs about `ThreadPool` |
| `LsmTree` | `LsmTree`, `MemTable`, `SSTable` as maps, disk and memory apart | component |
| `WriteAheadLog` | the byte format of the log: `append`'s bytes, `replay` | pure operators |
| `LoggedLsmTree` | `LsmTree` over the bytes of its log | composition |
| `LsmTreeProof` | | proofs about `LsmTree`, `WriteAheadLog` and `LoggedLsmTree` |
| `RGA` | replicas and the network | component |
| `RGAProof` | | proofs about `RGA` |
| `APromise` | promises, microtasks, thenables, `all`, `race` | component |
| `APromiseProof` | | proofs about `APromise` |
| `BPlusTree` | the tree as a heap of nodes | component |
| `Signals` | the reactive graph with its call stack | component |
| `SignalsProof` | | proofs about `Signals` |
| `Allocator` | `balloc.c` on one memory | component |
| `AbstractCoroutine` | what `coroutine.h` promises: a stack of resumed coroutines, values handed across | abstract specification |
| `Coroutine` | `coroutine.c` and `switch.S` as transfers of control between stacks | component; implements `AbstractCoroutine` |
| `CoroutineProof` | | proofs about `Coroutine`, refinement included |
| `LZ77` | `find_match` and `lz77_parse`, one step per round of a loop | component |
| `LZ77Proof` | | proof about `LZ77` |
| `Huffman` | canonical codes, the two bit orders, decoding | pure operators |
| `Deflate` | `deflate_compress`, the way of the stream, `deflate_decompress` | composition with `LZ77` and `Huffman` |
| `MCLsmTree`, `MCLoggedLsmTree`, `MCBPlusTree`, `MCSignals`, `MCCoroutine`, `MCDeflate` | | instances for TLC |

Definitions keep the source's names where TLA+ allows it.  Operators announced
by a comment "Mutant: ..." or "Mutant of ..." are deliberately wrong variants of the
definition that follows them; they are used only to show that the property named for
them in `PROJECT.json` would notice.

### How state and steps correspond to the code

* **ChaseLev.**  `top`, `bottom`, `ring` and `rings` are the atomics and the ring
  objects (old rings stay readable, as the code keeps them in `retired_`).  The owner and each
  thief have a program counter; every load, store and compare-exchange is one
  step.  `ChaseLevWeak` keeps `ChaseLev`'s variables as the owner's view and adds
  what thieves can see (`m`) and the owner's stores on their way (`buf`), with the
  fences at the lines where the code has them.
* **ThreadPool.**  One program counter per thread.  `idle_mtx_` is explicit where
  a thread keeps it between testing its predicate and blocking; the condition
  variable is a set of waiting threads; a worker's `wait_for` may time out at any
  time.  Tasks may submit tasks.
* **LsmTree / LoggedLsmTree.**  A step is one change of the disk with the changes
  of memory around it; the public methods are `synchronized`, so only a crash can
  come between.  `CrashAt` names the positions where it may.  In `LsmTree`, `wal`
  is what replaying the log ought to give, and `Open` recovers from it.  In
  `LoggedLsmTree` the log is the bytes `append` writes, of which the process may die with any
  prefix of a record written; `wal` is history only, and the constructor (`LOpen`) opens the log for
  appending whatever it ends with and fills the memtable with what `Replay` parses, or throws
  (`LOpenThrows`) if that meets a negative length.  `tail` and `misread` are history too:
  whether the log ends with a whole record, with the part of one that a crash has left (`"torn"`)
  or has bytes behind such a part (`"buried"`), and whether a buried log was ever replayed.
* **RGA.**  `apply` calls itself through `_flush`; `todo` is that stack, and the
  replica does nothing else until it is empty.  The network is external: any
  operation sent may be delivered at any time, any number of times.
* **APromise.**  A step is one API call or one microtask.  Users call resolve and
  reject in any order and as often as they like; foreign thenables call back late, twice, both
  ways, or throw.  `asked` remembers what each promise was asked to become first, `again` which
  were asked once more while they were still pending.
* **BPlusTree.**  Recursion returns one level per step (`path`), so splits,
  borrows and merges are separate actions.
* **Signals.**  `stack` holds the calls of flush, updateIfNecessary, update and
  markStale, the innermost last; a frame of markStale is the list of calls it has yet to
  make, so that recolouring a node, and queueing it if it is an effect, is one step.  What a
  reaction's function does next is given by the constant operator `Body`.
  `BodyAssumption` says what functions may do: that of a computed is pure and reads only
  what is below it (`Depth`: the graph of computeds has no cycle), that of an effect may
  also read untracked, write, and read again.
* **Allocator.**  Tags, list pointers and client data are words of one memory;
  each public function is one action (the allocator is single-threaded).  Words the
  allocator must not read, the rest of a free block and the slack of an allocated
  one, are set to `Junk` after each call: this forgets only what a former
  owner left there, and a read of it would go wrong visibly.  The headers of the chunks and
  `g_class` are not words of that memory but fields of the heap (`g_chunks`, `g_class`), so
  a write that strays into a chunk's header is outside the model.
* **Coroutine.**  `co_switch` parks the running context and goes on with another
  stack, so a call of `co_resume` or `co_yield` is two steps: what comes before the
  switch, and what the stack switched to does when it lands (`LandInTrampoline`,
  `LandInResume`, `LandInYield`).  `frame[x]` is what lies on top of `x`'s stack with
  the locals of the parked call (`prev`, `co`); a stack pointer is the context whose stack it
  points into.  Clients do anything in any order, but resume and destroy only
  coroutines that neither run nor wait for one they resumed, the condition the code
  relies on without checking it.  `Chain` reads the chain of resumers off the stacks: it is
  the refinement mapping to the stack of `AbstractCoroutine`.
* **LZ77 / Huffman / Deflate.**  A step of `LZ77` is one candidate of `find_match`, one
  decision of `lz77_parse` or one inserted position; `prev` starts as `Garbage`, what `malloc`
  leaves.  Emitting a block is one step that writes the bits of all its tokens;
  reading is one step per symbol.  Between the two the stream arrives whole, or cut at a
  byte, or with a damaged bit, or meets an output buffer one byte short.  A Huffman tree is kept as the
  depths of its leaves, all that the code reads of it, but selection and merging are those of `build_once`,
  swap with the last element included.

## 3. Runs

| Run | Properties | Result |
|---|---|---|
| `deque_x86` | `NoneTwice`, `NoneLost`, `PopNullOnlyWhenEmpty`, `RefinesAbstractDeque`, `EveryTaskTaken` | hold with the owner's stores delayed in order |
| `pool` | `IdleMeansDone`, `EveryTaskRuns`, `WaitIdleReturns`, `DestructorReturns` | hold |
| `lsm` | `LoggedDurable`, `LoggedReadsLatest`, `TablesMatchDisk`, `ReplayGivesWritten` | hold; no crash while old tables are deleted (finding 2), and the first, second and fourth name what they leave out: a log appended to behind a torn record (section 4) |
| `lsm_crash_delete` | `Durable` | violated, finding 2 |
| `rga` | `Converged`, `OrderAgrees`, `InsertLandsAtIndex`, `NoResurrection`, `EventuallyConsistent` | hold |
| `promise` | `FirstResolutionWins`, `HandledExactlyOnce`, `CombinatorsMatchItems`, `RunInOrder`, `CombinatorsSettle` | hold; `FirstResolutionWins` names what it leaves out: promises asked again while they followed a pending one (section 4) |
| `btree` | `Consistent`, `LookupsAgree` | hold |
| `signals` | `CleanIsCurrent`, `EffectsCurrent`, `NoGlitch`, `NoRedundantRun` | hold |
| `allocator` | `HeapConsistent`, `DataIntact`, `ListsExact`, `StatsExact` | hold |
| `coroutine` | `IdentityAgrees`, `RefinesAbstractCoroutine` | hold |
| `deflate` | `CandidatesAreFresh`, `TokensGiveInput`, `RoundTrip`, `FaultsReported`, `ChoiceIsMeasured` | hold; `RoundTrip` and `FaultsReported` except where finding 1 strikes |
| `deflate_lone_distance` | `RoundTripAlways` | violated, finding 1 |

### Bounds and why they are enough

* `deque_x86`: two tasks, two thieves, a ring of one slot.  The second push grows
  the ring while thieves hold the old one; two tasks give both the race for the last task and a
  task left behind it; two thieves race each other and the owner.
* `pool`: two workers, one client, two tasks, either of which may be submitted by
  the client or by the other task.  A sleeping worker, a busy one and a waiting
  client are the three parties of every wake-up race.
* `lsm`: two keys, one value and tombstones, up to two tables between calls
  (`Threshold = 2`), three generations, two records begun between truncations, torn ones
  included: one acknowledged before or behind a torn one.  One key is the empty string, the other one
  letter of two bytes with the top bit set, and the value starts with a zero byte, so that misaligned
  parsing finds short and negative lengths.  TLC goes no further once a buried log was
  replayed (`NotMisread`, a constraint): of what follows nothing is claimed but `TablesMatchDisk`,
  in which the log has no part.  Three generations give two flushes and the compaction of their tables, by a
  call of `compact`; the third flush reaches the automatic compaction, whose table would
  be the fourth (the proofs have no such bound).
* `rga`: two replicas, three operations, copies of operations at any time.
* `promise`: three promises, two values, one foreign thenable, two pairs of callbacks in all: one
  promise can follow another and be asked again meanwhile, or two can follow each other.
* `btree`: order 3 (the smallest), seven keys: three levels, so underflow cascades
  through an internal level.  TLC compares trees up to the numbering of nodes (`View`).
* `signals`: a diamond, an equality cutoff, a dynamic dependency, a throwing
  function and a writing effect, values 0 to 3; eight calls, batches nested twice.
* `allocator`: `CHUNK` 64 and `PAGE` 32 in place of 1 MiB and 4096, three classes,
  block sizes 32, 48 and 96, two adjacent chunks, three live
  allocations.  All four coalesce cases, splits with and without remainder, both roundings of
  `grow`, a failing `mmap` and an in-place, a moving and a failing `brealloc` occur.
* `coroutine`: three coroutines and the main program, two values.  Three is the least
  with which a coroutine can be parked inside one context and resumed again by another
  while a third waits.  The coroutines are symmetric.
* `deflate`: the alphabets and field widths of RFC 1951 are constants, so that the whole
  codec fits small inputs: eight byte values of four bits, a window of 4, matches of 3 to 5,
  codes of at most five bits (and four for the code length code), a hash with many collisions.  All
  strings of two byte values up to length 8, twice the window, at four levels (stored,
  greedy, two lazy ones), and six long inputs which reach the dynamic block with each kind of repeat, a code
  that must be shortened to the limit, a block without distances, and several stored chunks.
  Streams of inputs up to length 3 are also damaged at any one bit; all streams are also cut at
  every byte.

Counters are capped in guards only (`MaxGen`, `MaxRecords`, `MaxOps`,
`MaxDeferred`, `MaxPairs`, `MaxCalls`, `MaxBatch`, `MaxChunks`, `MaxLive`);
`DamagedUpTo` limits which streams are damaged.

`CHECK_DEADLOCK FALSE` is set where the system may really stop: a destroyed
pool, an LSM tree at its last generation or one that refuses to open, replicas that have received
everything, programs with no promise left to settle, a user who makes no more calls.

### Fairness

* `deque_x86`: a buffered store eventually becomes visible, an owner inside push
  or pop goes on, each thief goes on.  The owner need not start another operation.
* `pool`: strong fairness per thread: the operating system schedules every
  runnable thread, and a mutex that is free again and again is eventually obtained (what
  the C++ library's mutexes provide in practice; weak fairness would let a worker starve on
  `idle_mtx_`).  The 1 ms timeout of a worker's wait is a step of its loop, so it
  eventually fires; `EveryTaskRuns` depends on it, because `notify_one` may wake the
  client.  Nothing forces a client to wait or to destroy the pool.
* `rga`: a replica finishes its synchronous calls; an operation that is sent is eventually
  delivered (the assumption under which a CRDT promises anything).
* `promise`: the event loop runs microtasks.  Users and thenables need not act.

## 4. Findings

1. **A lone distance code is lost** (`deflate_lone_distance`).  With one used symbol,
   `build_once` stores its length by symbol (`huffman.c:45`), but its caller reads
   lengths by leaf (line 110): unless it is symbol 0, the symbol gets no code.  An input
   whose dynamic block has all its matches under one distance code other than 0 does not
   decompress to itself, although `huffman.c:41` says "every decoder accepts it".
2. **A crash inside compaction's deletion loop brings a deleted key back**
   (`lsm_crash_delete`): old files are deleted newest first, the merged file has no
   tombstones.  Deleting oldest first would be safe.

One more shows when a constant of a run is changed; the run above excludes it:

* *Ring publication on weakly ordered hardware.*  `push` publishes a grown ring with a
  relaxed store after relaxed copies (`workstealing.hpp:73-75`).  A thief that knows an
  older `bottom_` may see the new ring before its content, win the compare-exchange and
  return an uninitialised task.  `ARCHITECTURE.md:13` says "the code stays correct on ARM
  too".  With `InOrder = FALSE` in `deque_x86.cfg`, `NoneLost` is violated.

Three are behaviours of the models that properties leave out by name; without the
exemption TLC finds the property violated:

* *A write after the recovery from a torn log record is lost or misread, or the tree no longer
  opens*: the constructor opens the log for appending behind the torn bytes
  (`WriteAheadLog.java:34`), and nothing truncates it before the next flush of a memtable that is
  not empty (`LsmTree.java:123`).  `replay` then takes the bytes of the next record for the rest of the
  torn one; a length that comes out negative makes `readNBytes` throw
  (`WriteAheadLog.java:81`, `:93`).  `WriteAheadLog.java:25-26` says "Replay tolerates a torn trailing
  record — the signature of a crash mid-append — by stopping at the first short read", and
  `LsmTree.java:29-30` "reopening the tree replays the log and every acknowledged write
  comes back".  Exempt in `ReplayGivesWritten`, `LoggedDurable` and `LoggedReadsLatest`: `tail = "buried"`
  and `misread`.
* *After a crash inside `SSTable.write` the tree cannot be opened*: the file has no footer and the
  constructor throws on it (`SSTable.java:113`, called from `LsmTree.java:173`), against the same
  promise of `LsmTree.java:29-30`.  `Durable` and `LoggedDurable` say that the log and the complete
  tables still hold every write, and do not say that they can be opened; the model has the refusal as
  `OpenFails`.
* *A promise that follows a pending promise or thenable can be resolved or rejected again*: `#resolve`
  and `#reject` look at `#state` only, nothing records that the promise is locked in (`promise.js:82`,
  `:96`).  `promise.js:14-15` says "Every path that could settle it goes through a guard
  so the second attempt is a no-op", `Promises-APlus/README.md:38-40` the same of "a second
  `resolve`", and `promise.test.js:79` tests "settle-once: a second resolve or reject is ignored" with
  plain values.  Exempt in `FirstResolutionWins`: promises in `again`.

Divergences met while modelling that have no run of their own:

* Copies of a deferred RGA operation are buffered again (`rga.js:77-80`); harmless
  when applied, but `pending` grows.  `rga.js:12-13` says applying an operation twice "is a no-op".
* `worker_id_` is shared by all pools (`workstealing.hpp:188`): a worker of one
  pool that submits to another uses its id there.
* `~ThreadPool` drops queued tasks; `CPP-WorkStealing/README.md:7` says "never
  dropped".  `EveryTaskRuns` is stated up to destruction.
* An exception in an effect abandons the other effects of that flush for good
  (`signals.js:195` and `:105`), against `signals.js:229` "again whenever the values it
  read change".  `EffectsCurrent` exempts exactly those (`lost`).
* An effect that writes what it has read ends CLEAN on the old value: it is DIRTY while it
  runs, so `markStale` returns at once (`signals.js:105`), and the end of the run makes it
  CLEAN (`signals.js:125`).  Theorem `EffectsCurrentHolds` names the condition,
  `NoneMarkedRunning`.
* `size_class` maps 32 to class 1, not to class 0 as its comment says
  (`balloc.c:73`); class 0 stays empty, which is harmless.
* `balloc` of a size within 31 bytes of `SIZE_MAX` wraps and returns a minimal block
  (`balloc.c:222`).  `AllocatorAssumption` leaves such requests out.
* `co_create` leaves the stack pointer a multiple of 16 at the entry of the trampoline
  (`coroutine.c:69-72`), where the x86-64 ABI has 8 more: functions in a coroutine run on a
  misaligned stack and an aligned vector store there faults, against
  `coroutine.c:69-70` "so that the trampoline's own `call` is ABI-correct".
* `co_resume` does not check that the coroutine is parked: resuming one that runs, or
  waits for one it resumed, overwrites `caller_sp` (`coroutine.c:87-91`).
* When the output buffer is full, `bw_bits` returns with bits left over and its
  callers go on: `bit_count` grows past 31 and the shift at `bits.c:26` is undefined until
  the overflow is reported.  It cannot happen with the `deflate_bound` bytes the header asks for.
* `clone` of an OR-Set keeps the replica's name and clock (`orset.js:58`): two copies
  that go on adding make the same tag for different adds.
* Generations are sorted as file names of 8 digits (`LsmTree.java:209`): from 10^8 on
  the order is wrong.

## 5. Proofs

All theorems are checked by TLAPS to the last leaf.

**`ChaseLevProof`** (sequentially consistent memory, any set of tasks and thieves,
any initial capacity from 1).  The inductive invariant is

    IInv == TypeOK /\ OwnerInv /\ RoomInv /\ ThiefInv /\ PlaceInv /\ NoneTwice /\ NoneLost

`NoneTwice` alone is not inductive: that a thief's compare-exchange succeeds says that
`top` has not moved since it was read, and one needs that the slot it read,
possibly in a ring since replaced, still holds the task of that index.
`ThiefInv` says so for each thief position; `RoomInv` that live indices fit in the ring, so
that no slot is reused while its index is live; `OwnerInv` relates the owner's
locals to `top` and `bottom` (a pop that lowered `bottom` under `top` restores
it); `PlaceInv` gives each pushed task its index.  There is one lemma per action.
Theorems: `TypeCorrect`, `NoneTwiceHolds`, `NoneLostHolds`, `PopMissesNothing` (an action
property) and `Refinement`: the refinement mapping takes the items to be the tasks at
indices `top .. bottom - 1` as corrected for a pop in progress, and each step is a
push, pop or steal of `AbstractDeque`, or a stutter.

**`ThreadPoolProof`** (any workers, clients and tasks).

    IInv == TypeOK /\ ControlInv /\ PlacesInv /\ QueuesInv /\ CountInv /\ RanInv

`IdleMeansDone` reads `pending_` alone.  `CountInv` says what `pending_` counts: the tasks
in flight, from the increment in `submit` to the decrement after the run.  For that to be
kept a task must leave the count once: `PlacesInv` and `QueuesInv` say that a task in flight is in
one place only (a submit under way, one slot of one deque, one of the global queue, or
one worker's hands); `RanInv` says that a submitted task that is no longer in flight has run,
once.  Theorems: `InvariantHolds`,
`IdleMeansDoneHolds`, `AtMostOnceHolds`.  Assumed: clients and workers are different threads,
and `None` is neither a task nor a thread.

**`LsmTreeProof`** (any keys and values, any threshold, any crash points except
`"deleting"`, the hypothesis `ProofCrashAt`: with it `Durable` is false, finding 2).

    LInv == TypeOK /\ GenInv /\ TablesInv /\ MemInv /\ DiskInv

`Durable` speaks of the disk alone and is not inductive: a flush preserves it
only because the memtable equals the log's content (`MemInv`) and because
the new file is the newest (`GenInv`); a compaction only because the open tables are exactly
the files, newest first (`TablesInv`), and because once the merged file is
written the log and that file alone already give every value (`DiskInv`).
Theorems: `LsmTypeCorrect`, `NothingLost`, `GetReturnsLatest`, `TablesAreDirectory`.

Its second part is about the bytes of the log (any keys and values that are sequences of bytes no
longer than the largest `int`, `BytesAssumption`).  The invariant is

    LogInv == /\ tail \in {"whole", "torn", "buried"}
              /\ tail = "whole" => log \in Bytes /\ Intact(log)
              /\ ReplayGivesWritten

where `Intact` says that the log is a sequence of whole records, in the words of replay: a
read that starts at the beginning ends exactly at the end.  A record appended to an intact log is
read back after all the others, a proper prefix of a record appended to it changes nothing that is
read; both are shown backwards from the end of the log (`Downwards`), since where
a record starts depends on the lengths before it, but what is read from it on only on what
follows.  `ReadingExists` shows that the recursion of `Replay` is well defined.  Theorems:
`ReplayGivesWrittenHolds`, without a hypothesis (the property exempts a buried log by name).

The third part joins the two.  The constructor of `LoggedLsmTree` fills the memtable from the bytes, so
its step is one of `LsmTree` only because these are read back as `wal`, that is by
`LogInv`, and only while no buried log is replayed (`StepImplements`).  Hence
`ImplementsLsmTree`, with `[]~misread` as a hypothesis on the behaviour; and for every behaviour

    LInvUnlessMisread == LogInv /\ misread \in BOOLEAN /\ (~misread => LInv)

from which `LoggedNothingLost` (`LoggedDurable`, of what is parsed from the bytes) and
`LoggedGetReturnsLatest` (`LoggedReadsLatest`) follow, with `ProofCrashAt` as before.

**`RGAProof`** (any replicas, any number of operations).

    IInv == TypeOK /\ IdsInv /\ LocalInv

with, for each replica, `Known` (it holds on to received operations only), `Handled` (each is
applied, still to be applied, or waits for a node that is missing), `Caused` (each node and
tombstone comes from a received operation) and `Grounded` (chains of predecessors end at the
root).  `Converged` follows: were a node on one replica and not on another that received the
same, some first such node along a chain of predecessors would follow a node the other
has, and nothing there could have kept it waiting.  `Grounded`, a statement about all sets of nodes, takes the place
of an induction along the chain.  `IdsInv` says that ids are given once, which is where the
Lamport clock comes in.

`OrderAgrees` and `InsertLandsAtIndex` speak of the text, which `Ordered` reads by a
recursive walk.  Their proof has three parts.

* Sequences.  `Before(s, a, b)` says that `a` stands before `b`; the lemmas give it for a
  concatenation, a flattening and a filter, and `SameSequence` that sequences without
  repetition and with the same `Before` are equal.
* Trees.  A set of nodes is a `Tree` when each follows the root or an older one, so that
  the clock is a level and the walk ends.  The walk exists and is unique (`WalkExists`, by induction
  over levels), visits every node once (`NoneTwice`, `AllVisited`), and says which of two nodes comes
  first by where their ancestors part (`WalkOrder`).  Two trees that agree on the nodes they
  share and hold the ancestors of these therefore order them in one way (`OrderedAgrees`).  A leaf newer than its
  siblings comes right after its parent, and nothing else moves (`LandsInText`).
* The program.  `Lamport` says that every node is newer than the one it follows and no newer than the clock:
  the catch-up in `apply`, and the clock behind each new id, keep it.  `OwnInv` says
  that an insertion still in the hands of its author finds the node it follows there, not deleted,
  and is newer than all nodes there: nothing is applied between `insertAt` and its `apply`.

Theorems: `InvariantHolds`, `ConvergedHolds`, `NoResurrectionHolds`, `OrderAgreesHolds`,
`InsertLandsAtIndexHolds`.
`InsertAtIndex` and `DeleteAtIndex` name the key they found by `\E after \in Deps : after = ...`
so that its type is known where the order of the text is not.  Sorting and filtering are written out
(`Sorted`, `Keep`), since the library's `SortSeq` and `SelectSeq` are opaque to the provers.

**`APromiseProof`** (any bounds, values and thenables, any use of `then`, `all` and `race`).

    GoodInv == Fit /\ NoneForgotten

`HandledExactlyOnce` is not inductive: that a promise which settles schedules its handlers
says nothing unless one knows whose they are and that nobody else has them.  `Fit` says that a
handler is registered with a promise only by `then`, by the resolution procedure for a pair of
callbacks, or by a call of `all` or `race` that has the promise among its items
(`Kept`), that a microtask is such a handler with the state and value of the settled promise
(`Scheduled`), and that handlers of `then` wait in the order of registration (`KeptInOrder`,
`JobsInOrder`); `NoneForgotten` that a handler of `then` is in one of these places
until it runs.  The order gives `RunInOrder`, and also that no handler is in a list twice.
The invariant is stated of parameters in place of the variables, because a microtask goes through
states of its own: the job is taken, then the promise is resolved; `all` subscribes to one item
after the other (`SubscribeEachGood`, an induction on the items).

`FirstResolutionWins` needs `AskedInv`: whatever a promise was first asked to become, it is settled so, or
it follows a promise that is pending or has its state and value, or a pair of callbacks
was given to a thenable for it; and pairs are given for no other reason.  Of a promise in `again`
nothing like it is kept.  One that follows such a promise still becomes what it becomes, because it
waits for a settled state, which does not change.

`CombinatorsMatchItems` needs `CombInv`: the promise of a call of `all` or `race` is nobody's to
resolve but its own handlers' (`PairsOut`), the handler of an item of `all` waits in one place at
most, with its item or in the queue (`Single`), and while the promise is pending `remaining` is
the number of items whose handler waits and the results of the others are their values.  So when
the last handler runs all the results are in.  A step moves waiting handlers, subscribes new ones
or takes one from the queue (`SettleMoves`, `SubscribeMoves`, `HeadMoves`).

Theorems: `InvariantHolds`, `HandledExactlyOnceHolds`, `RunInOrderHolds` (an action property),
`CombinatorsMatchItemsHolds`, `FirstResolutionWinsHolds`.

**`LZ77Proof`** (any inputs, levels, hash function, window and match lengths from 3).

    IInv == LTypeOK /\ HeadInv /\ PrevInv /\ SearchInv

`CandidatesAreFresh` (a candidate is an earlier position with the hash searched for) is not
inductive: the next candidate is read from the slot of the present one, so something must
be known of the slots.  `PrevInv` says of every position in the window that its slot
holds the end of its chain or an earlier position of the same hash; that two positions in
a window have different slots is `ModInjective`.  Beyond the window a slot may hold
anything, and `find_match` stops on the distance before it looks there.  Theorem `ChainsAreFresh`.

**`CoroutineProof`** (any finite number of coroutines, any values).

    IInv == TypeOK /\ FrameInv /\ AliveInv /\ ChainInv /\ LandInv /\ NameInv

`IdentityAgrees` speaks of the running context alone, and where control goes next
depends on what other stacks hold.  `FrameInv` says that no stack is parked under
another's name, `ChainInv` that every coroutine that runs or waits in a resume has its
resumer waiting in the resume of it, `LandInv` that a resume that returns finds its
coroutine parked.  Theorem `RunsUnderItsName`.

The refinement of `AbstractCoroutine` reads the stack of resumed coroutines off the frames by
a recursion, `Chain`.  The invariant is

    CInv == IInv /\ DoneInv /\ \E s \in Seq(Coroutines) : IsChain(s)

`IsChain(s)` says without recursion that `s` are different coroutines, each waiting in the resume of the
next and named in the next one's `caller_sp`, from the main program to whoever runs;
`DoneInv` that a coroutine that ended neither runs nor waits.  `ResumersAre` shows that `Chain`
computes such an `s` (that it has room for it takes `FinitelyMany`: there are finitely many
coroutines).  Then each action is followed: resume appends, yield and end remove the last,
create and destroy touch nobody on the chain, a landing is a stutter.  Theorem `Refinement`.

**`SignalsProof`** (any finite graph, any values, any functions that `BodyAssumption` allows,
any number of calls).

    GraphInv == TypeOK /\ EdgesInv /\ StackInv /\ QueueInv
                /\ ColourInv(Computeds) /\ SeenInv /\ MovedInv

`CleanIsCurrent` is not inductive: that a computed is CLEAN says nothing of its sources
while the wave of a write, or a pull that is half done, is on its way.  `ColourInv` says
what the colours mean at every moment: a node that is not DIRTY holds what its function
returned for the values it saw, and its sources still have those values, or the call
that will make it DIRTY is on the stack; a CLEAN one has CLEAN sources, or is still to
be marked.  For the calls in progress it says the same of what they have done so far:
a function that runs has read current values, a node being checked has CLEAN sources up to the
one it has come to.  `EdgesInv` keeps both ends of an edge together, `StackInv` that
the calls go down the graph, so that no computed is entered twice, and `QueueInv` that an
effect waits in one place at most and is not pulled while it does.  From `ColourInv` the value of a CLEAN
computed is what the signals make it by induction over `Depth` (`CurrentNow`); the
definition of that value is recursive, and shown to exist the same way.  Theorems
`GraphHolds`, `CleanIsCurrentHolds`, `NoGlitchHolds` and `NoRedundantRunHolds`, for
effects that write anything they like: only computeds' colours are needed.

For effects themselves the colours can be trusted only if none is marked during its own
run, by its own writes or by an effect these set off (`NoneMarkedRunning`): see the
divergence on `signals.js:125` in section 4.  `EffectsHold` and `EffectsCurrentHolds` have
that as a hypothesis on the behaviour.  The second also needs that no effect is forgotten:
a live one that is not CLEAN waits or is pulled (`LiveInv`), and outside a batch what waits
is about to be taken (`PendInv`).  The instance of the `signals` run meets it: only
`e2` writes, only to `b`, and `c1`, all that it reads tracked, does not depend on `b`;
`d`, which does, it reads untracked.

Inductions are over sets: a set of naturals has a least element (from the library's
well-founded induction), so a set with 0 and every successor is all of `Nat` (`Upwards`).
These lemmas, and those on `%`, head the modules that need them.

Constants' assumptions are named in the modules that declare them, and TLC evaluates
them on every run.

**Only model-checked:** liveness under fairness (`EveryTaskTaken`, `EveryTaskRuns`,
`WaitIdleReturns`, `DestructorReturns`, `EventuallyConsistent`, `CombinatorsSettle`), which
is outside the prover's reach; the memory model (`ChaseLevWeak`); what `RECURSIVE` operators
and nested walks compute (the code construction of `Huffman`, `Expand` and so the
properties of `Deflate`, the walks of `BPlusTree` and `Allocator`): recursive functions
are within reach where something well-founded bounds them, as `Replay`, `Chain` and `Ordered` show,
but recursive operators are not.

## 6. Not modelled, and why

Not yet: Bloom filter, SSTable file layout and `scan`, state-based CRDTs,
CSV enumerators, HyperLogLog registers (see the plan).  `IOException`s other than crashes.
UTF-8.  Several pools at once.  Cleanup functions of effects that touch the graph.
Of the codec: the gzip container and its CRC, `malloc` failures, an output buffer below
`deflate_bound` for the compressor; the buffers of the bit writer and reader (a stream is its bits).
Of coroutines: registers, the alignment of stacks, guard pages, failing `mmap`.
Out of reach or of little use: HyperLogLog's estimate (floating point), vector intrinsics of
the JSON parser, a sequential parser otherwise, the source generator (no state at run
time), benchmarks and demos.

## 7. Plan

Done, in this order: the deque with its abstraction and proofs; the pool; the LSM
tree with proofs, its log, and their composition; RGA; promises; B+ tree; signals;
allocator; the DEFLATE codec and the proof about its matcher; coroutines with their
abstraction and proof; then the proofs about the pool, RGA, the log's bytes and the
coroutines' refinement, the promises and the reactive graph.

Next:

1. Proofs: `ChaseLevWeak` with stores in order; the walks of `BPlusTree`, as those of `RGA`.
2. `LsmTree`: the SSTable's sparse index and Bloom filter as operators checked against the map they
   encode, and `scan`, in the `lsm` run.
3. State-based CRDTs: G-Counter, PN-Counter, OR-Set as joins, with the algebraic laws as
   theorems, and replicas that gossip, beside `RGA`.
4. Pure algorithms: CSV enumerators against a reference grammar, HyperLogLog registers.
5. Two pools sharing `worker_id_`; requests to the allocator that wrap.

## 8. Running

    tlc -workers 2 -config lsm.cfg MCLoggedLsmTree
    tlc -workers 2 -config deflate.cfg MCDeflate
    tlapm CoroutineProof.tla
