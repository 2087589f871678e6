------------------------------ MODULE ChaseLev ------------------------------
(***************************************************************************)
(* The lock-free Chase-Lev deque of CPP-WorkStealing (class ws::Deque):    *)
(* one owner pushes and pops at the bottom, any number of thieves steal at *)
(* the top.  Every access to shared memory that another thread can race    *)
(* with is a step of its own; memory is sequentially consistent here, and  *)
(* ChaseLevWeak weakens it.                                                *)
(*                                                                         *)
(* A Ring is a record of its capacity and slots; `rings' holds every ring  *)
(* ever allocated (superseded rings are retired, never freed while the     *)
(* deque lives) and `ring' is the atomic ring_ pointer, an index into it.  *)
(***************************************************************************)
EXTENDS Integers

CONSTANTS
  Tasks,      \* the Task* values the owner pushes, each once (they come from new)
  NoTask,     \* content of a slot never written
  Thieves,    \* threads that call steal
  InitCap     \* the constructor's cap

ASSUME InitCapAssumption == InitCap \in Nat \ {0}
ASSUME NoTaskAssumption == NoTask \notin Tasks

VARIABLES
  top, bottom,       \* top_, bottom_
  ring, rings,       \* ring_, and every ring including retired_
  opc, ob, ot, ox,   \* the owner's position in push/pop and its locals b, t, x
  spc, st, sa, sx,   \* each thief's position in steal and its locals t, a, x
  fresh,             \* tasks not yet passed to push
  given              \* given[x]: how often pop or steal returned x

ownerVars == <<opc, ob, ot, ox>>
thiefVars == <<spc, st, sa, sx>>
vars == <<top, bottom, ring, rings, ownerVars, thiefVars, fresh, given>>

EmptyRing(c) == [cap |-> c, slots |-> [j \in 0 .. c - 1 |-> NoTask]]

\* Ring::get: i & mask, with the capacity a power of two.
Get(r, i) == rings[r].slots[i % rings[r].cap]

Init ==
  /\ top = 0 /\ bottom = 0
  /\ ring = 1 /\ rings = [r \in 1 .. 1 |-> EmptyRing(InitCap)]
  /\ opc = "idle" /\ ob = 0 /\ ot = 0 /\ ox = NoTask
  /\ spc = [p \in Thieves |-> "idle"]
  /\ st = [p \in Thieves |-> 0]
  /\ sa = [p \in Thieves |-> 1]
  /\ sx = [p \in Thieves |-> NoTask]
  /\ fresh = Tasks
  /\ given = [x \in Tasks |-> 0]

-----------------------------------------------------------------------------
(* push, by the owner.  bottom_ and ring_ are written by the owner only,   *)
(* so its loads of them join the load of top_.                             *)

PushLoad(x) ==
  /\ opc = "idle" /\ x \in fresh
  /\ fresh' = fresh \ {x}
  /\ ob' = bottom /\ ot' = top /\ ox' = x
  /\ opc' = IF bottom - top > rings[ring].cap - 1 THEN "pushGrow" ELSE "pushPut"
  /\ UNCHANGED <<top, bottom, ring, rings, thiefVars, given>>

\* Mutant of Grown: the copy loop stops one task early.
GrownOneShort(r, lo, hi) ==
  LET c == 2 * rings[r].cap
  IN  [cap |-> c,
       slots |-> [j \in 0 .. c - 1 |->
                    IF \E i \in lo .. hi - 2 : i % c = j
                    THEN Get(r, CHOOSE i \in lo .. hi - 2 : i % c = j)
                    ELSE NoTask]]

\* The ring of twice the size that holds the live range [lo, hi) of ring r.
Grown(r, lo, hi) ==
  LET c == 2 * rings[r].cap
  IN  [cap |-> c,
       slots |-> [j \in 0 .. c - 1 |->
                    IF \E i \in lo .. hi - 1 : i % c = j
                    THEN Get(r, CHOOSE i \in lo .. hi - 1 : i % c = j)
                    ELSE NoTask]]

\* The new ring is private to the owner until the store of ring_ publishes it.
PushGrow ==
  /\ opc = "pushGrow"
  /\ rings' = [r \in 1 .. ring + 1 |->
                 IF r = ring + 1 THEN Grown(ring, ot, ob) ELSE rings[r]]
  /\ ring' = ring + 1
  /\ opc' = "pushPut"
  /\ UNCHANGED <<top, bottom, ob, ot, ox, thiefVars, fresh, given>>

PushPut ==
  /\ opc = "pushPut"
  /\ rings' = [rings EXCEPT ![ring].slots[ob % rings[ring].cap] = ox]
  /\ opc' = "pushStore"
  /\ UNCHANGED <<top, bottom, ring, ob, ot, ox, thiefVars, fresh, given>>

PushStore ==
  /\ opc = "pushStore"
  /\ bottom' = ob + 1
  /\ opc' = "idle"
  /\ UNCHANGED <<top, ring, rings, ob, ot, ox, thiefVars, fresh, given>>

-----------------------------------------------------------------------------
(* pop, by the owner.                                                      *)

\* bottom_ is lowered before top_ is read: from here on, thieves that read
\* bottom_ leave the last task alone.
PopDec ==
  /\ opc = "idle"
  /\ ob' = bottom - 1 /\ bottom' = bottom - 1
  /\ opc' = "popTop"
  /\ UNCHANGED <<top, ring, rings, ot, ox, thiefVars, fresh, given>>

\* Mutant of PopTake: the last task is taken without the CAS too.
PopTakeLast ==
  /\ opc = "popTop" /\ top <= ob
  /\ ot' = top /\ ox' = Get(ring, ob)
  /\ given' = [given EXCEPT ![ox'] = @ + 1]
  /\ opc' = "idle"
  /\ UNCHANGED <<top, bottom, ring, rings, ob, thiefVars, fresh>>

\* More than one task: the owner takes the bottom one without a CAS.
PopTake ==
  /\ opc = "popTop" /\ top < ob
  /\ ot' = top /\ ox' = Get(ring, ob)
  /\ given' = [given EXCEPT ![ox'] = @ + 1]
  /\ opc' = "idle"
  /\ UNCHANGED <<top, bottom, ring, rings, ob, thiefVars, fresh>>

\* Exactly one task: race a thief for it.
PopLast ==
  /\ opc = "popTop" /\ top = ob
  /\ ot' = top /\ ox' = Get(ring, ob)
  /\ opc' = "popCas"
  /\ UNCHANGED <<top, bottom, ring, rings, ob, thiefVars, fresh, given>>

\* Mutant of PopEmpty: t < b where the code has t <= b.
PopEmptyOffByOne ==
  /\ opc = "popTop" /\ top >= ob
  /\ ot' = top /\ ox' = NoTask
  /\ opc' = "popRestore"
  /\ UNCHANGED <<top, bottom, ring, rings, ob, thiefVars, fresh, given>>

PopEmpty ==
  /\ opc = "popTop" /\ top > ob
  /\ ot' = top /\ ox' = NoTask
  /\ opc' = "popRestore"
  /\ UNCHANGED <<top, bottom, ring, rings, ob, thiefVars, fresh, given>>

PopCasWin ==
  /\ opc = "popCas" /\ top = ot
  /\ top' = ot + 1
  /\ given' = [given EXCEPT ![ox] = @ + 1]
  /\ opc' = "popRestore"
  /\ UNCHANGED <<bottom, ring, rings, ob, ot, ox, thiefVars, fresh>>

\* A thief won the last task: pop returns nullptr.
PopCasLose ==
  /\ opc = "popCas" /\ top # ot
  /\ ox' = NoTask
  /\ opc' = "popRestore"
  /\ UNCHANGED <<top, bottom, ring, rings, ob, ot, thiefVars, fresh, given>>

\* Mutant of PopRestore: bottom_ stays lowered.
PopRestoreForgets ==
  /\ opc = "popRestore"
  /\ opc' = "idle"
  /\ UNCHANGED <<top, bottom, ring, rings, ob, ot, ox, thiefVars, fresh, given>>

PopRestore ==
  /\ opc = "popRestore"
  /\ bottom' = ob + 1
  /\ opc' = "idle"
  /\ UNCHANGED <<top, ring, rings, ob, ot, ox, thiefVars, fresh, given>>

-----------------------------------------------------------------------------
(* steal, by thief p.                                                      *)

StealTop(p) ==
  /\ spc[p] = "idle"
  /\ st' = [st EXCEPT ![p] = top]
  /\ spc' = [spc EXCEPT ![p] = "bottom"]
  /\ UNCHANGED <<top, bottom, ring, rings, ownerVars, sa, sx, fresh, given>>

StealBottom(p) ==
  /\ spc[p] = "bottom"
  /\ spc' = [spc EXCEPT ![p] = IF st[p] < bottom THEN "ring" ELSE "idle"]
  /\ UNCHANGED <<top, bottom, ring, rings, ownerVars, st, sa, sx, fresh, given>>

StealRing(p) ==
  /\ spc[p] = "ring"
  /\ sa' = [sa EXCEPT ![p] = ring]
  /\ spc' = [spc EXCEPT ![p] = "get"]
  /\ UNCHANGED <<top, bottom, ring, rings, ownerVars, st, sx, fresh, given>>

StealGet(p) ==
  /\ spc[p] = "get"
  /\ sx' = [sx EXCEPT ![p] = Get(sa[p], st[p])]
  /\ spc' = [spc EXCEPT ![p] = "cas"]
  /\ UNCHANGED <<top, bottom, ring, rings, ownerVars, st, sa, fresh, given>>

StealCasWin(p) ==
  /\ spc[p] = "cas" /\ top = st[p]
  /\ top' = st[p] + 1
  /\ given' = [given EXCEPT ![sx[p]] = @ + 1]
  /\ spc' = [spc EXCEPT ![p] = "idle"]
  /\ UNCHANGED <<bottom, ring, rings, ownerVars, st, sa, sx, fresh>>

StealCasLose(p) ==
  /\ spc[p] = "cas" /\ top # st[p]
  /\ spc' = [spc EXCEPT ![p] = "idle"]
  /\ UNCHANGED <<top, bottom, ring, rings, ownerVars, st, sa, sx, fresh, given>>

-----------------------------------------------------------------------------
Push == (\E x \in Tasks : PushLoad(x)) \/ PushGrow \/ PushPut \/ PushStore
Pop == \/ PopDec \/ PopTake \/ PopLast \/ PopEmpty
       \/ PopCasWin \/ PopCasLose \/ PopRestore
Steal(p) == \/ StealTop(p) \/ StealBottom(p) \/ StealRing(p)
            \/ StealGet(p) \/ StealCasWin(p) \/ StealCasLose(p)

Next == Push \/ Pop \/ \E p \in Thieves : Steal(p)

Spec == Init /\ [][Next]_vars

\* A thread inside an operation keeps running; a thief whose steal came back
\* empty tries again (ThreadPool::run loops).  The owner need not call again.
OwnerStep == (Push \/ Pop) /\ opc # "idle"
Fairness == WF_vars(OwnerStep) /\ \A p \in Thieves : WF_vars(Steal(p))
FairSpec == Spec /\ Fairness

-----------------------------------------------------------------------------
(* Properties.                                                             *)

OwnerPCs == {"idle", "pushGrow", "pushPut", "pushStore",
             "popTop", "popCas", "popRestore"}
ThiefPCs == {"idle", "bottom", "ring", "get", "cas"}

Slots(c) == [0 .. c - 1 -> Tasks \cup {NoTask}]

IsRing(r) ==
  /\ r.cap \in Nat \ {0}
  /\ r.slots \in Slots(r.cap)
  /\ r = [cap |-> r.cap, slots |-> r.slots]

\* Type invariant of the deque's shared words and of each thread's locals: the
\* current ring is the last one allocated, and each ring's slots match its cap.
TypeOK ==
  /\ top \in Nat /\ bottom \in Int
  /\ ring \in Nat \ {0}
  /\ rings = [r \in 1 .. ring |-> rings[r]]
  /\ \A r \in 1 .. ring : IsRing(rings[r])
  /\ opc \in OwnerPCs /\ ob \in Int /\ ot \in Nat /\ ox \in Tasks \cup {NoTask}
  /\ spc \in [Thieves -> ThiefPCs] /\ st \in [Thieves -> Nat]
  /\ sa \in [Thieves -> 1 .. ring] /\ sx \in [Thieves -> Tasks \cup {NoTask}]
  /\ fresh \in SUBSET Tasks
  /\ given \in [Tasks -> Nat]

\* The bottom as callers see it: pop lowers bottom_ before it knows whether
\* it may take the last task, and puts it back when it may not.
Popping == opc \in {"popTop", "popCas", "popRestore"}
Bottom == IF Popping THEN bottom + 1 ELSE bottom

Live == top .. Bottom - 1

\* The owner is pushing x and has not yet published it by the store of bottom_.
InPush(x) == opc \in {"pushGrow", "pushPut", "pushStore"} /\ ox = x

\* No task is returned twice, however pops race with steals for the last task,
\* and however thieves race with each other (the CAS on top_ in pop and steal).
NoneTwice == \A x \in Tasks : given[x] <= 1

\* No task is lost: one that was passed to push is being pushed, or lies in the
\* live range of the current ring (which growing and the reuse of slots must
\* not disturb), or was returned by a pop or a steal.
NoneLost ==
  \A x \in Tasks \ fresh :
    \/ InPush(x)
    \/ \E i \in Live : Get(ring, i) = x
    \/ given[x] >= 1

\* The owner's pop comes back with nullptr only when the deque is empty at the
\* moment it decides to: it never misses work of its own that nobody stole.
PopNullOnlyWhenEmpty ==
  [][(opc # "popRestore" /\ opc' = "popRestore" /\ ox' = NoTask) => Live = {}]_vars

\* Every push, pop and steal takes effect at one instant, and does there what
\* the sequential deque does: push when bottom_ is stored, steal at its CAS,
\* pop when it reads top_ or at its CAS.
AD == INSTANCE AbstractDeque
        WITH items <- [k \in 1 .. Bottom - top |-> Get(ring, top + k - 1)]
RefinesAbstractDeque == AD!Spec

\* Work published on the deque does not stay there: as long as thieves keep
\* trying, every published task is eventually returned to somebody.
EveryTaskTaken == \A x \in Tasks : (x \notin fresh /\ ~InPush(x)) ~> given[x] = 1
=============================================================================
