--------------------------- MODULE ChaseLevProof ---------------------------
(***************************************************************************)
(* Proofs about ChaseLev, for every set of tasks, every set of thieves and *)
(* every initial capacity: the deque hands each task out exactly once.     *)
(*                                                                         *)
(* NoneTwice and NoneLost are not inductive.  What carries them is         *)
(*  - OwnerInv: what the owner's locals still say about shared memory;     *)
(*  - RoomInv: the live range fits the current ring, so distinct live      *)
(*    indices have distinct slots;                                         *)
(*  - ThiefInv: a thief whose t is still top_ (its CAS would succeed)      *)
(*    read, or is about to read through a possibly retired ring, the task  *)
(*    that the current ring holds at top_, and the deque is not empty;     *)
(*  - PlaceInv: each task is in one place only.                            *)
(***************************************************************************)
EXTENDS ChaseLev, SequenceTheorems, TLAPS

Pushing == opc \in {"pushGrow", "pushPut", "pushStore"}

OwnerInv ==
  /\ Popping => ob = bottom
  /\ Pushing => ob = bottom /\ ot <= top /\ ox \in Tasks
  /\ opc = "pushGrow" => ob - ot <= rings[ring].cap
  /\ opc \in {"pushPut", "pushStore"} => ob - top <= rings[ring].cap - 1
  /\ opc = "pushStore" => Get(ring, ob) = ox
  /\ opc = "popCas" => ot = ob /\ ot <= top /\ ox = Get(ring, ob)
  /\ opc = "popRestore" => top = ob + 1

RoomInv ==
  /\ top <= Bottom
  /\ Bottom - top <= rings[ring].cap

ThiefInv ==
  \A p \in Thieves :
    /\ st[p] <= top
    /\ spc[p] \in {"ring", "get", "cas"} /\ st[p] = top => top < Bottom
    /\ spc[p] = "get" /\ st[p] = top => Get(sa[p], top) = Get(ring, top)
    /\ spc[p] = "cas" /\ st[p] = top => sx[p] = Get(ring, top)

PlaceInv ==
  /\ \A i \in Live : /\ Get(ring, i) \in Tasks \ fresh
                     /\ given[Get(ring, i)] = 0
                     /\ ~InPush(Get(ring, i))
  /\ \A i, j \in Live : Get(ring, i) = Get(ring, j) => i = j
  /\ \A x \in fresh : given[x] = 0 /\ ~InPush(x)
  /\ Pushing => given[ox] = 0

IInv == TypeOK /\ OwnerInv /\ RoomInv /\ ThiefInv /\ PlaceInv /\ NoneTwice /\ NoneLost

-----------------------------------------------------------------------------
(* Arithmetic of slots numbered modulo a size.                             *)

\* The slot of an index lies in the range of slots.
LEMMA ModRange ==
  ASSUME NEW c \in Nat \ {0}, NEW i \in Int
  PROVE  i % c \in 0 .. c - 1
  OBVIOUS

\* A multiple of the size smaller than the size is zero.
LEMMA SmallMultiple ==
  ASSUME NEW c \in Nat \ {0}, NEW q \in Int, 0 <= c * q, c * q < c
  PROVE  q = 0
<1>1. CASE q >= 1
  <2>1. c * q >= c * 1 BY <1>1, SMT
  <2> QED BY <2>1, SMT
<1>2. CASE q <= -1
  <2>1. c * q <= c * (-1) BY <1>2, SMT
  <2> QED BY <2>1, SMT
<1> QED BY <1>1, <1>2

\* Two indices less than one size apart have different slots.
LEMMA ModInjective ==
  ASSUME NEW c \in Nat \ {0}, NEW i \in Int, NEW j \in Int,
         i <= j, j - i < c, i % c = j % c
  PROVE  i = j
<1> DEFINE p == i \div c
           q == j \div c
<1>1. p \in Int /\ q \in Int OBVIOUS
<1>2. i = c * p + (i % c) /\ j = c * q + (j % c) OBVIOUS
<1>3. i % c \in Int /\ j % c \in Int OBVIOUS
<1> HIDE DEF p, q
<1>4. c * (q - p) = c * q - c * p BY <1>1, SMT
<1>5. c * (q - p) = j - i BY <1>1, <1>2, <1>3, <1>4, SMT
<1>6. q - p = 0 BY <1>1, <1>5, SmallMultiple
<1> QED BY <1>1, <1>2, <1>3, <1>6

-----------------------------------------------------------------------------
(* Type correctness.                                                       *)

\* The constructor leaves the deque and the threads with their types.
THEOREM TypeInit == Init => TypeOK
<1> SUFFICES ASSUME Init PROVE TypeOK OBVIOUS
<1>1. IsRing(EmptyRing(InitCap))
  BY InitCapAssumption DEF IsRing, EmptyRing, Slots
<1> QED BY <1>1 DEF Init, TypeOK, OwnerPCs, ThiefPCs

\* Reading a ring at any index gives a task or an empty slot.
LEMMA GetType ==
  ASSUME TypeOK, NEW r \in 1 .. ring, NEW i \in Int
  PROVE  Get(r, i) \in Tasks \cup {NoTask}
<1>1. IsRing(rings[r]) BY DEF TypeOK
<1>2. i % rings[r].cap \in 0 .. rings[r].cap - 1 BY <1>1, ModRange DEF IsRing
<1> QED BY <1>1, <1>2 DEF Get, IsRing, Slots

\* The ring that push builds is a ring, and holds the live range.
LEMMA GrownRing ==
  ASSUME TypeOK, NEW lo \in Nat, NEW hi \in Int, hi - lo <= rings[ring].cap
  PROVE  /\ IsRing(Grown(ring, lo, hi))
         /\ Grown(ring, lo, hi).cap = 2 * rings[ring].cap
         /\ \A i \in lo .. hi - 1 :
              Grown(ring, lo, hi).slots[i % (2 * rings[ring].cap)] = Get(ring, i)
<1> DEFINE c == 2 * rings[ring].cap
           Copied(j) == IF \E i \in lo .. hi - 1 : i % c = j
                        THEN Get(ring, CHOOSE i \in lo .. hi - 1 : i % c = j)
                        ELSE NoTask
           g == Grown(ring, lo, hi)
<1>1. rings[ring].cap \in Nat \ {0} /\ c \in Nat \ {0} BY DEF TypeOK, IsRing
<1>2. g = [cap |-> c, slots |-> [j \in 0 .. c - 1 |-> Copied(j)]] BY DEF Grown
<1>3. \A i \in lo .. hi - 1 : i % c \in 0 .. c - 1 /\ Copied(i % c) = Get(ring, i)
  <2> TAKE i \in lo .. hi - 1
  <2>1. i % c \in 0 .. c - 1
    <3>1. c \in Nat \ {0} /\ i \in Int BY <1>1
    <3> HIDE DEF c
    <3> QED BY <3>1, ModRange
  <2> DEFINE k == CHOOSE m \in lo .. hi - 1 : m % c = i % c
  <2>2. k \in lo .. hi - 1 /\ k % c = i % c OBVIOUS
  <2> HIDE DEF k
  <2>3. k = i
    <3>1. k \in Int /\ i \in Int BY <2>2
    <3>2. CASE k <= i
      <4>1. i - k < c BY <1>1, <2>2, <3>1
      <4> HIDE DEF c
      <4> QED BY <1>1, <2>2, <3>1, <3>2, <4>1, ModInjective
    <3>3. CASE i <= k
      <4>1. k - i < c BY <1>1, <2>2, <3>1
      <4> HIDE DEF c
      <4> QED BY <1>1, <2>2, <3>1, <3>3, <4>1, ModInjective
    <3> QED BY <3>1, <3>2, <3>3
  <2>4. Copied(i % c) = Get(ring, k) BY DEF k
  <2> QED BY <2>1, <2>3, <2>4
<1>4. \A j \in 0 .. c - 1 : Copied(j) \in Tasks \cup {NoTask}
  <2> TAKE j \in 0 .. c - 1
  <2>1. CASE \E i \in lo .. hi - 1 : i % c = j
    <3>1. PICK i \in lo .. hi - 1 : i % c = j BY <2>1
    <3> HIDE DEF Copied
    <3>2. Copied(j) = Get(ring, i) BY <1>3, <3>1
    <3> QED BY <3>2, GetType DEF TypeOK
  <2>2. CASE ~\E i \in lo .. hi - 1 : i % c = j BY <2>2
  <2> QED BY <2>1, <2>2
<1> HIDE DEF Copied, c, g
<1>5. g.cap = c /\ g.slots = [j \in 0 .. c - 1 |-> Copied(j)] BY <1>2
<1>6. IsRing(g) BY <1>1, <1>2, <1>4 DEF IsRing, Slots
<1>7. \A i \in lo .. hi - 1 : g.slots[i % c] = Get(ring, i) BY <1>3, <1>5
<1> QED BY <1>5, <1>6, <1>7 DEF c, g

\* What reading the rings returns after each of the two steps that write them.
LEMMA GrowContent ==
  ASSUME IInv, PushGrow
  PROVE  /\ ring' = ring + 1
         /\ rings'[ring'].cap = 2 * rings[ring].cap
         /\ \A r \in 1 .. ring, i \in Int : rings'[r] = rings[r] /\ Get(r, i)' = Get(r, i)
         /\ \A i \in ot .. ob - 1 : Get(ring, i)' = Get(ring, i)
<1>1. /\ ot \in Nat /\ ob \in Int /\ ob - ot <= rings[ring].cap /\ TypeOK
      /\ ring \in Nat \ {0}
  BY DEF IInv, OwnerInv, PushGrow, TypeOK
<1> DEFINE g == Grown(ring, ot, ob)
<1>2. /\ g.cap = 2 * rings[ring].cap
      /\ \A i \in ot .. ob - 1 : g.slots[i % (2 * rings[ring].cap)] = Get(ring, i)
  BY <1>1, GrownRing
<1> HIDE DEF g
<1>3. ring' = ring + 1 /\ rings'[ring + 1] = g /\ \A r \in 1 .. ring : rings'[r] = rings[r]
  BY <1>1 DEF PushGrow, g
<1>4. \A i \in ot .. ob - 1 : Get(ring, i)' = Get(ring, i)
  <2> TAKE i \in ot .. ob - 1
  <2>1. Get(ring, i)' = g.slots[i % g.cap] BY <1>3 DEF Get
  <2> QED BY <2>1, <1>2
<1> QED BY <1>2, <1>3, <1>4 DEF Get

\* Writing a slot of a ring leaves its capacity alone.
LEMMA SlotUpdate ==
  ASSUME NEW a, NEW s, NEW w, NEW x, NEW q, q = [cap |-> a, slots |-> s]
  PROVE  [q EXCEPT !.slots[w] = x] = [cap |-> a, slots |-> [s EXCEPT ![w] = x]]
  OBVIOUS

\* The slot that push writes is the only one whose content changes.
LEMMA PutContent ==
  ASSUME IInv, PushPut
  PROVE  /\ \A r \in 1 .. ring : /\ IsRing(rings[r])'
                                 /\ rings'[r].cap = rings[r].cap
         /\ rings' = [r \in 1 .. ring |-> rings'[r]]
         /\ \A r \in 1 .. ring, i \in Int : r # ring => Get(r, i)' = Get(r, i)
         /\ Get(ring, ob)' = ox
         /\ \A i \in Int : i < ob /\ ob - i <= rings[ring].cap - 1
                             => Get(ring, i)' = Get(ring, i)
<1> DEFINE c == rings[ring].cap
           w == ob % c
<1>1. /\ TypeOK /\ ring \in 1 .. ring /\ ob \in Int /\ ox \in Tasks /\ ring' = ring
      /\ rings = [r \in 1 .. ring |-> rings[r]]
      /\ \A r \in 1 .. ring : IsRing(rings[r])
  BY DEF IInv, OwnerInv, PushPut, TypeOK, Pushing
<1>2. c \in Nat \ {0} BY <1>1 DEF IsRing
<1>3. w \in 0 .. c - 1 BY <1>1, <1>2, ModRange
<1>4. rings' = [rings EXCEPT ![ring].slots[w] = ox] BY DEF PushPut
<1>5. rings' = [r \in 1 .. ring |-> IF r = ring THEN [rings[ring] EXCEPT !.slots[w] = ox]
                                                ELSE rings[r]]
  BY <1>1, <1>4
<1> DEFINE n == [rings[ring] EXCEPT !.slots[w] = ox]
<1>6. n = [cap |-> c, slots |-> [rings[ring].slots EXCEPT ![w] = ox]]
  <2>1. rings[ring] = [cap |-> c, slots |-> rings[ring].slots] BY <1>1 DEF IsRing
  <2> HIDE DEF c, w
  <2> QED BY <2>1, SlotUpdate
<1>7. IsRing(n) BY <1>1, <1>2, <1>6 DEF IsRing, Slots
<1>8. n.cap = c /\ n.slots = [j \in 0 .. c - 1 |-> IF j = w THEN ox ELSE rings[ring].slots[j]]
  BY <1>1, <1>6 DEF IsRing, Slots
<1>9. rings'[ring] = n /\ \A r \in 1 .. ring : r # ring => rings'[r] = rings[r]
  BY <1>1, <1>5
<1> HIDE DEF n
<1>10. \A r \in 1 .. ring : IsRing(rings[r])' /\ rings'[r].cap = rings[r].cap
  BY <1>1, <1>7, <1>8, <1>9 DEF IsRing
<1>11. Get(ring, ob)' = ox
  <2>1. Get(ring, ob)' = n.slots[ob % n.cap] BY <1>1, <1>9 DEF Get, PushPut
  <2> QED BY <2>1, <1>3, <1>8
<1>12. ASSUME NEW i \in Int, i < ob, ob - i <= c - 1
       PROVE  Get(ring, i)' = Get(ring, i)
  <2> DEFINE v == i % c
  <2>1. v \in 0 .. c - 1 BY <1>2, ModRange
  <2>2. v # w
    <3>1. SUFFICES ASSUME v = w PROVE FALSE OBVIOUS
    <3>2. i <= ob /\ ob - i < c BY <1>1, <1>2, <1>12
    <3>3. i = ob BY <1>1, <1>2, <3>1, <3>2, ModInjective
    <3> QED BY <3>3, <1>1, <1>12
  <2>3. Get(ring, i)' = n.slots[i % n.cap] BY <1>1, <1>9 DEF Get, PushPut
  <2>4. n.slots[i % n.cap] = n.slots[v] BY <1>8
  <2>5. n.slots[v] = rings[ring].slots[v] BY <1>8, <2>1, <2>2
  <2> QED BY <2>3, <2>4, <2>5 DEF Get
<1>13. rings' = [r \in 1 .. ring |-> rings'[r]] BY <1>5
<1>14. \A r \in 1 .. ring, i \in Int : r # ring => Get(r, i)' = Get(r, i) BY <1>9 DEF Get
<1> QED BY <1>10, <1>11, <1>12, <1>13, <1>14

\* Pushing one task adds one index to the live range.
LEMMA CountUp ==
  ASSUME NEW f \in [Tasks -> Nat], NEW y
  PROVE  [f EXCEPT ![y] = @ + 1] \in [Tasks -> Nat]
<1>1. CASE y \in Tasks BY <1>1
<1>2. CASE y \notin Tasks BY <1>2
<1> QED BY <1>1, <1>2

\* The part of the type invariant about rings, kept by every step that leaves them alone.
RingsOK ==
  /\ ring \in Nat \ {0}
  /\ rings = [r \in 1 .. ring |-> rings[r]]
  /\ \A r \in 1 .. ring : IsRing(rings[r])

\* Every step of push, pop and steal keeps the types.
LEMMA TypeStep == IInv /\ [Next]_vars => TypeOK'
<1> SUFFICES ASSUME IInv, [Next]_vars PROVE TypeOK' OBVIOUS
<1>0. TypeOK BY DEF IInv
<1>a. RingsOK BY <1>0 DEF TypeOK, RingsOK
<1>b. UNCHANGED <<ring, rings>> => RingsOK' BY <1>a DEF RingsOK
<1>c. RingsOK => ring \in 1 .. ring BY DEF RingsOK
<1>d. TypeOK' <=>
        /\ top' \in Nat /\ bottom' \in Int /\ RingsOK'
        /\ opc' \in OwnerPCs /\ ob' \in Int /\ ot' \in Nat /\ ox' \in Tasks \cup {NoTask}
        /\ spc' \in [Thieves -> ThiefPCs] /\ st' \in [Thieves -> Nat]
        /\ sa' \in [Thieves -> 1 .. ring'] /\ sx' \in [Thieves -> Tasks \cup {NoTask}]
        /\ fresh' \in SUBSET Tasks
        /\ given' \in [Tasks -> Nat]
  BY DEF TypeOK, RingsOK, OwnerPCs, ThiefPCs
<1>e. /\ top \in Nat /\ bottom \in Int /\ ring \in Nat \ {0}
      /\ opc \in OwnerPCs /\ ob \in Int /\ ot \in Nat /\ ox \in Tasks \cup {NoTask}
      /\ spc \in [Thieves -> ThiefPCs] /\ st \in [Thieves -> Nat]
      /\ sa \in [Thieves -> 1 .. ring] /\ sx \in [Thieves -> Tasks \cup {NoTask}]
      /\ fresh \in SUBSET Tasks
      /\ given \in [Tasks -> Nat]
  BY <1>0 DEF TypeOK
<1> USE DEF OwnerPCs, ThiefPCs, ownerVars, thiefVars
<1>1. ASSUME NEW x \in Tasks, PushLoad(x) PROVE TypeOK'
  BY <1>1, <1>b, <1>d, <1>e DEF PushLoad
<1>2. CASE PushGrow
  <2>1. IsRing(Grown(ring, ot, ob)) /\ ring + 1 \in Nat \ {0}
    BY <1>0, <1>2, GrownRing DEF IInv, OwnerInv, PushGrow, TypeOK
  <2>2. RingsOK' BY <1>a, <1>2, <2>1 DEF PushGrow, RingsOK
  <2> QED BY <1>d, <1>e, <1>2, <2>2 DEF PushGrow
<1>3. CASE PushPut
  <2>1. RingsOK' BY <1>a, <1>3, PutContent DEF RingsOK, PushPut
  <2> QED BY <1>d, <1>e, <1>3, <2>1 DEF PushPut
<1>4. CASE PushStore \/ PopDec \/ PopRestore
  BY <1>b, <1>d, <1>e, <1>4 DEF PushStore, PopDec, PopRestore
<1>5. CASE PopTake \/ PopLast
  <2>1. Get(ring, ob) \in Tasks \cup {NoTask} BY <1>0, <1>a, <1>c, <1>e, GetType
  <2>2. given' \in [Tasks -> Nat] BY <1>e, <1>5, CountUp DEF PopTake, PopLast
  <2> QED BY <1>b, <1>d, <1>e, <1>5, <2>1, <2>2 DEF PopTake, PopLast
<1>6. CASE PopEmpty \/ PopCasLose
  BY <1>b, <1>d, <1>e, <1>6 DEF PopEmpty, PopCasLose
<1>7. CASE PopCasWin
  <2>1. given' \in [Tasks -> Nat] BY <1>e, <1>7, CountUp DEF PopCasWin
  <2> QED BY <1>b, <1>d, <1>e, <1>7, <2>1 DEF PopCasWin
<1>8. ASSUME NEW p \in Thieves, Steal(p) PROVE TypeOK'
  <2>1. CASE StealTop(p) BY <1>b, <1>d, <1>e, <2>1 DEF StealTop
  <2>2. CASE StealBottom(p) BY <1>b, <1>d, <1>e, <2>2 DEF StealBottom
  <2>3. CASE StealRing(p) BY <1>b, <1>d, <1>e, <2>3 DEF StealRing
  <2>4. CASE StealGet(p)
    <3>1. Get(sa[p], st[p]) \in Tasks \cup {NoTask} BY <1>0, <1>e, GetType
    <3> QED BY <1>b, <1>d, <1>e, <2>4, <3>1 DEF StealGet
  <2>5. CASE StealCasWin(p)
    <3>1. given' \in [Tasks -> Nat] BY <1>e, <2>5, CountUp DEF StealCasWin
    <3> QED BY <1>b, <1>d, <1>e, <2>5, <3>1 DEF StealCasWin
  <2>6. CASE StealCasLose(p) BY <1>b, <1>d, <1>e, <2>6 DEF StealCasLose
  <2> QED BY <1>8, <2>1, <2>2, <2>3, <2>4, <2>5, <2>6 DEF Steal
<1>9. CASE UNCHANGED vars BY <1>b, <1>d, <1>e, <1>9 DEF vars
<1> QED
  BY <1>1, <1>2, <1>3, <1>4, <1>5, <1>6, <1>7, <1>8, <1>9 DEF Next, Push, Pop

\* A step that changes neither the rings nor the live range keeps what thieves know.
LEMMA ThiefFrame ==
  ASSUME IInv, top' = top, Bottom' = Bottom, UNCHANGED <<ring, rings, thiefVars>>
  PROVE  ThiefInv'
  BY DEF IInv, ThiefInv, thiefVars, Get

-----------------------------------------------------------------------------
(* Each step of push, pop and steal preserves the invariant.               *)

\* push reads bottom_, top_ and ring_: only its locals change.
LEMMA PushLoadStep ==
  ASSUME IInv, TypeOK', NEW x \in Tasks, PushLoad(x) PROVE IInv'
<1> USE DEF IInv, TypeOK, PushLoad, Bottom, Popping, Live
<1>1. OwnerInv' /\ RoomInv' BY DEF OwnerInv, RoomInv, Pushing, Get, IsRing
<1>2. ThiefInv' BY ThiefFrame
<1>3. PlaceInv' BY DEF PlaceInv, InPush, Pushing, Get
<1>4. NoneTwice' /\ NoneLost' BY DEF NoneTwice, NoneLost, InPush, Get
<1> QED BY <1>1, <1>2, <1>3, <1>4

\* push replaces a full ring: the live range reads the same in the new one.
LEMMA PushGrowStep ==
  ASSUME IInv, TypeOK', PushGrow PROVE IInv'
<1>1. /\ ring' = ring + 1
      /\ rings'[ring'].cap = 2 * rings[ring].cap
      /\ \A r \in 1 .. ring, i \in Int : Get(r, i)' = Get(r, i)
      /\ \A i \in ot .. ob - 1 : Get(ring, i)' = Get(ring, i)
  BY GrowContent
<1>2. /\ top \in Nat /\ bottom \in Int /\ ot \in Nat /\ ob \in Int /\ ring \in Nat \ {0}
      /\ rings[ring].cap \in Nat \ {0}
      /\ ot <= top /\ ob = bottom /\ Bottom = bottom /\ Bottom' = bottom /\ top' = top
      /\ Live = top .. ob - 1 /\ Live' = Live /\ Live \subseteq ot .. ob - 1
  BY DEF IInv, TypeOK, IsRing, OwnerInv, Pushing, PushGrow, Bottom, Popping, Live
<1>3. \A i \in Live : Get(ring, i)' = Get(ring, i) BY <1>1, <1>2
<1>4. OwnerInv'
  BY <1>1, <1>2 DEF IInv, OwnerInv, PushGrow, Pushing, Popping
<1>5. RoomInv' BY <1>1, <1>2 DEF IInv, RoomInv
<1>6. ThiefInv'
  <2>1. ASSUME NEW p \in Thieves, top < Bottom PROVE Get(ring, top)' = Get(ring, top)
    BY <1>2, <1>3, <2>1
  <2>2. \A p \in Thieves : sa[p] \in 1 .. ring BY DEF IInv, TypeOK
  <2> QED BY <1>1, <1>2, <2>1, <2>2 DEF IInv, ThiefInv, PushGrow, thiefVars
<1>7. PlaceInv'
  BY <1>2, <1>3 DEF IInv, PlaceInv, PushGrow, InPush, Pushing
<1>8. NoneTwice' /\ NoneLost'
  BY <1>2, <1>3 DEF IInv, NoneTwice, NoneLost, PushGrow, InPush
<1> QED BY <1>4, <1>5, <1>6, <1>7, <1>8 DEF IInv

\* push writes its task to a slot outside the live range.
LEMMA PushPutStep ==
  ASSUME IInv, TypeOK', PushPut PROVE IInv'
<1>1. /\ rings'[ring].cap = rings[ring].cap /\ ring' = ring
      /\ \A r \in 1 .. ring, i \in Int : r # ring => Get(r, i)' = Get(r, i)
      /\ Get(ring, ob)' = ox
      /\ \A i \in Int : i < ob /\ ob - i <= rings[ring].cap - 1
                          => Get(ring, i)' = Get(ring, i)
  BY PutContent DEF PushPut, IInv, TypeOK
<1>2. /\ top \in Nat /\ bottom \in Int /\ ob \in Int /\ ring \in Nat \ {0}
      /\ rings[ring].cap \in Nat \ {0}
      /\ ob = bottom /\ Bottom = bottom /\ Bottom' = bottom /\ top' = top
      /\ ob - top <= rings[ring].cap - 1
      /\ Live = top .. ob - 1 /\ Live' = Live
  BY DEF IInv, TypeOK, IsRing, OwnerInv, Pushing, PushPut, Bottom, Popping, Live
<1>3. \A i \in Live : Get(ring, i)' = Get(ring, i) BY <1>1, <1>2
<1>4. OwnerInv'
  BY <1>1, <1>2 DEF IInv, OwnerInv, PushPut, Pushing, Popping
<1>5. RoomInv' BY <1>1, <1>2 DEF IInv, RoomInv
<1>6. ThiefInv'
  <2>1. top < Bottom => \A r \in 1 .. ring : Get(r, top)' = Get(r, top)
    BY <1>1, <1>2, <1>3
  <2>2. \A p \in Thieves : sa[p] \in 1 .. ring BY DEF IInv, TypeOK
  <2> QED BY <1>1, <1>2, <2>1, <2>2 DEF IInv, ThiefInv, PushPut, thiefVars
<1>7. PlaceInv'
  BY <1>2, <1>3 DEF IInv, PlaceInv, PushPut, InPush, Pushing
<1>8. NoneTwice' /\ NoneLost'
  BY <1>2, <1>3 DEF IInv, NoneTwice, NoneLost, PushPut, InPush
<1> QED BY <1>4, <1>5, <1>6, <1>7, <1>8 DEF IInv

\* push publishes its task by advancing bottom_.
LEMMA PushStoreStep ==
  ASSUME IInv, TypeOK', PushStore PROVE IInv'
<1>1. /\ top \in Nat /\ ob \in Int /\ ox \in Tasks /\ ob = bottom
      /\ Get(ring, ob) = ox /\ ob - top <= rings[ring].cap - 1
      /\ rings[ring].cap \in Nat /\ given[ox] = 0
  BY DEF IInv, TypeOK, OwnerInv, PlaceInv, Pushing, PushStore, IsRing
<1>2. /\ top <= ob /\ Bottom = ob /\ Bottom' = ob + 1 /\ top' = top
      /\ Live = top .. ob - 1 /\ Live' = top .. ob
  BY <1>1 DEF IInv, RoomInv, PushStore, Bottom, Popping, Live
<1>3. Live' = Live \cup {ob} BY <1>1, <1>2
<1>4. \A r, i : Get(r, i)' = Get(r, i) BY DEF PushStore, Get
<1>5. OwnerInv' BY DEF OwnerInv, PushStore, Pushing, Popping
<1>6. RoomInv' BY <1>1, <1>2 DEF RoomInv, PushStore
<1>7. ThiefInv' BY <1>1, <1>2, <1>4 DEF IInv, TypeOK, ThiefInv, PushStore, thiefVars
<1>8. ox \notin fresh /\ InPush(ox) BY <1>1 DEF IInv, PlaceInv, InPush, PushStore
<1>9. PlaceInv'
  BY <1>1, <1>3, <1>4, <1>8 DEF IInv, PlaceInv, InPush, PushStore, Pushing
<1>10. NoneTwice' /\ NoneLost'
  BY <1>1, <1>3, <1>4, <1>8 DEF IInv, NoneTwice, NoneLost, InPush, PushStore
<1> QED BY <1>5, <1>6, <1>7, <1>9, <1>10 DEF IInv

\* pop reserves the last index by lowering bottom_.
LEMMA PopDecStep ==
  ASSUME IInv, TypeOK', PopDec PROVE IInv'
<1> USE DEF PopDec
<1>1. /\ top \in Nat /\ bottom \in Int
      /\ Bottom = bottom /\ Bottom' = Bottom /\ top' = top /\ Live' = Live
  BY DEF IInv, TypeOK, Bottom, Popping, Live
<1>2. \A r, i : Get(r, i)' = Get(r, i) BY DEF Get
<1>3. OwnerInv' /\ RoomInv'
  BY <1>1 DEF IInv, OwnerInv, RoomInv, Pushing, Popping
<1>4. ThiefInv' BY <1>1, ThiefFrame
<1>5. PlaceInv' BY <1>1, <1>2 DEF IInv, PlaceInv, InPush, Pushing
<1>6. NoneTwice' /\ NoneLost' BY <1>1, <1>2 DEF IInv, NoneTwice, NoneLost, InPush
<1> QED BY <1>3, <1>4, <1>5, <1>6 DEF IInv

\* Handing out the live task x at index k, when the live range loses just k, keeps
\* every task in one place.  Shared by the owner's and the thieves' ways to take.
LEMMA TakeOne ==
  ASSUME IInv, TypeOK', NEW k \in Live, Live' = Live \ {k}, Pushing' <=> Pushing,
         Pushing => ox' = ox,
         \A i \in Live : Get(ring, i)' = Get(ring, i),
         given' = [given EXCEPT ![Get(ring, k)] = @ + 1], fresh' = fresh
  PROVE  PlaceInv' /\ NoneTwice' /\ NoneLost'
<1> DEFINE x == Get(ring, k)
<1>0. \A y : InPush(y)' <=> InPush(y) BY DEF InPush, Pushing
<1>1. x \in Tasks \ fresh /\ given[x] = 0 BY DEF IInv, PlaceInv
<1>2. given \in [Tasks -> Nat] /\ fresh \in SUBSET Tasks BY DEF IInv, TypeOK
<1>3. \A y \in Tasks : given'[y] = IF y = x THEN 1 ELSE given[y] BY <1>1, <1>2
<1>4. \A i \in Live' : Get(ring, i) \in Tasks /\ Get(ring, i) # x BY DEF IInv, PlaceInv
<1> HIDE DEF x
<1>5. PlaceInv'
  <2>1. Pushing => ox \in Tasks /\ ox # x BY DEF IInv, OwnerInv, PlaceInv, InPush, Pushing, x
  <2> QED BY <1>0, <1>1, <1>2, <1>3, <1>4, <2>1 DEF IInv, PlaceInv
<1>6. NoneTwice' BY <1>2, <1>3 DEF IInv, NoneTwice
<1>7. NoneLost'
  <2> SUFFICES ASSUME NEW y \in Tasks \ fresh, y # x
               PROVE  \/ InPush(y)'
                      \/ \E i \in Live' : Get(ring, i)' = y
                      \/ given'[y] >= 1
    BY <1>1, <1>3 DEF NoneLost
  <2>1. InPush(y) \/ (\E i \in Live : Get(ring, i) = y) \/ given[y] >= 1
    BY DEF IInv, NoneLost
  <2> QED BY <1>0, <1>3, <2>1 DEF x
<1> QED BY <1>5, <1>6, <1>7

\* pop takes the last of several tasks without a CAS.
LEMMA PopTakeStep ==
  ASSUME IInv, TypeOK', PopTake PROVE IInv'
<1> USE DEF PopTake
<1>1. /\ top \in Nat /\ ob \in Int /\ ob = bottom /\ top < ob
      /\ Bottom = ob + 1 /\ Bottom' = ob /\ top' = top
      /\ Live = top .. ob /\ Live' = top .. ob - 1
  BY DEF IInv, TypeOK, OwnerInv, Bottom, Popping, Live
<1>2. \A r, i : Get(r, i)' = Get(r, i) BY DEF Get
<1>3. ob \in Live /\ Live' = Live \ {ob} BY <1>1
<1>4. OwnerInv' BY DEF OwnerInv, Pushing, Popping
<1>5. RoomInv' BY <1>1 DEF IInv, TypeOK, IsRing, RoomInv
<1>6. ThiefInv' BY <1>1, <1>2 DEF IInv, ThiefInv, thiefVars
<1>7. PlaceInv' /\ NoneTwice' /\ NoneLost' BY <1>2, <1>3, TakeOne DEF Pushing
<1> QED BY <1>4, <1>5, <1>6, <1>7 DEF IInv

\* PopLast, PopEmpty and PopCasLose only move the owner's locals.
LEMMA PopLocalStep ==
  ASSUME IInv, TypeOK', PopLast \/ PopEmpty \/ PopCasLose PROVE IInv'
<1> USE DEF PopLast, PopEmpty, PopCasLose
<1>1. /\ top \in Nat /\ ob \in Int /\ ot \in Nat /\ ob = bottom
      /\ Bottom = ob + 1 /\ Bottom' = Bottom /\ top' = top /\ Live' = Live
      /\ top <= ob + 1 /\ UNCHANGED <<bottom, ring, rings, thiefVars, fresh, given, ob>>
  BY DEF IInv, TypeOK, OwnerInv, RoomInv, Bottom, Popping, Live
<1>2. \A r, i : Get(r, i)' = Get(r, i) BY <1>1 DEF Get
<1>3. OwnerInv' BY <1>1, <1>2 DEF IInv, OwnerInv, Pushing, Popping
<1>4. RoomInv' BY <1>1 DEF IInv, RoomInv
<1>5. ThiefInv' BY <1>1, ThiefFrame
<1>6. PlaceInv' BY <1>1, <1>2 DEF IInv, PlaceInv, InPush, Pushing
<1>7. NoneTwice' /\ NoneLost' BY <1>1, <1>2 DEF IInv, NoneTwice, NoneLost, InPush
<1> QED BY <1>3, <1>4, <1>5, <1>6, <1>7 DEF IInv

\* pop wins the last task from the thieves.
LEMMA PopCasWinStep ==
  ASSUME IInv, TypeOK', PopCasWin PROVE IInv'
<1> USE DEF PopCasWin
<1>1. /\ top \in Nat /\ ob \in Int /\ ob = bottom /\ top = ob /\ ox = Get(ring, ob)
      /\ top' = ob + 1 /\ Bottom = ob + 1 /\ Bottom' = ob + 1
      /\ Live = ob .. ob /\ Live' = ob + 1 .. ob
  BY DEF IInv, TypeOK, OwnerInv, Bottom, Popping, Live
<1>2. \A r, i : Get(r, i)' = Get(r, i) BY DEF Get
<1>3. ob \in Live /\ Live' = Live \ {ob} BY <1>1
<1>4. OwnerInv' BY <1>1 DEF IInv, OwnerInv, Pushing, Popping
<1>5. RoomInv' BY <1>1 DEF IInv, TypeOK, IsRing, RoomInv
<1>6. ThiefInv' BY <1>1 DEF IInv, TypeOK, ThiefInv, thiefVars
<1>7. PlaceInv' /\ NoneTwice' /\ NoneLost' BY <1>1, <1>2, <1>3, TakeOne DEF Pushing
<1> QED BY <1>4, <1>5, <1>6, <1>7 DEF IInv

\* pop puts bottom_ back after the empty case or the race.
LEMMA PopRestoreStep ==
  ASSUME IInv, TypeOK', PopRestore PROVE IInv'
<1> USE DEF PopRestore
<1>1. /\ ob \in Int /\ ob = bottom
      /\ Bottom = ob + 1 /\ Bottom' = Bottom /\ top' = top /\ Live' = Live
  BY DEF IInv, TypeOK, OwnerInv, Bottom, Popping, Live
<1>2. \A r, i : Get(r, i)' = Get(r, i) BY DEF Get
<1>3. OwnerInv' /\ RoomInv' BY <1>1 DEF IInv, OwnerInv, RoomInv, Pushing, Popping
<1>4. ThiefInv' BY <1>1, ThiefFrame
<1>5. PlaceInv' BY <1>1, <1>2 DEF IInv, PlaceInv, InPush, Pushing
<1>6. NoneTwice' /\ NoneLost' BY <1>1, <1>2 DEF IInv, NoneTwice, NoneLost, InPush
<1> QED BY <1>3, <1>4, <1>5, <1>6 DEF IInv

\* Until its CAS, a thief writes nothing but its own locals.
LEMMA StealLocalStep ==
  ASSUME IInv, TypeOK', NEW p \in Thieves,
         StealTop(p) \/ StealBottom(p) \/ StealRing(p) \/ StealGet(p) \/ StealCasLose(p)
  PROVE  IInv'
<1>1. UNCHANGED <<top, bottom, ring, rings, ownerVars, fresh, given>>
  BY DEF StealTop, StealBottom, StealRing, StealGet, StealCasLose
<1>2. Bottom' = Bottom /\ Live' = Live /\ \A r, i : Get(r, i)' = Get(r, i)
  BY <1>1 DEF Bottom, Popping, Live, Get, ownerVars
<1>3. OwnerInv' /\ RoomInv'
  BY <1>1, <1>2 DEF IInv, OwnerInv, RoomInv, Pushing, Popping, ownerVars
<1>4. PlaceInv' BY <1>1, <1>2 DEF IInv, PlaceInv, InPush, Pushing, ownerVars
<1>5. NoneTwice' /\ NoneLost'
  BY <1>1, <1>2 DEF IInv, NoneTwice, NoneLost, InPush, ownerVars
<1>6. ThiefInv'
  <2>1. /\ top \in Nat /\ bottom \in Int /\ st \in [Thieves -> Nat] /\ spc \in [Thieves -> ThiefPCs]
        /\ sa \in [Thieves -> 1 .. ring] /\ sx \in [Thieves -> Tasks \cup {NoTask}]
    BY DEF IInv, TypeOK
  <2>2. bottom <= Bottom BY <2>1 DEF Bottom
  <2>3. CASE StealTop(p)
    BY <1>1, <1>2, <2>1, <2>3 DEF IInv, ThiefInv, StealTop
  <2>4. CASE StealBottom(p)
    BY <1>1, <1>2, <2>1, <2>2, <2>4 DEF IInv, ThiefInv, StealBottom, Bottom
  <2>5. CASE StealRing(p)
    BY <1>1, <1>2, <2>1, <2>5 DEF IInv, ThiefInv, StealRing
  <2>6. CASE StealGet(p)
    BY <1>1, <1>2, <2>1, <2>6 DEF IInv, ThiefInv, StealGet
  <2>7. CASE StealCasLose(p)
    BY <1>1, <1>2, <2>1, <2>7 DEF IInv, ThiefInv, StealCasLose
  <2> QED BY <2>3, <2>4, <2>5, <2>6, <2>7
<1> QED BY <1>3, <1>4, <1>5, <1>6 DEF IInv

\* A thief wins the task at top_.
LEMMA StealCasWinStep ==
  ASSUME IInv, TypeOK', NEW p \in Thieves, StealCasWin(p) PROVE IInv'
<1> USE DEF StealCasWin
<1>1. /\ top \in Nat /\ bottom \in Int /\ st \in [Thieves -> Nat] /\ spc \in [Thieves -> ThiefPCs]
      /\ ob \in Int /\ ot \in Nat /\ rings[ring].cap \in Nat
  BY DEF IInv, TypeOK, IsRing
<1>2. Bottom \in Int /\ Bottom' = Bottom /\ top' = top + 1
  BY <1>1 DEF Bottom, Popping, ownerVars
<1>3. top < Bottom /\ sx[p] = Get(ring, top) BY DEF IInv, ThiefInv
<1>4. top \in Live /\ Live' = Live \ {top} BY <1>1, <1>2, <1>3 DEF Live
<1>5. \A r, i : Get(r, i)' = Get(r, i) BY DEF Get
<1>6. OwnerInv'
  <2>1. Popping => Bottom = ob + 1 BY DEF IInv, OwnerInv, Bottom
  <2>2. opc # "popRestore" BY <1>1, <1>3, <2>1 DEF IInv, OwnerInv, Popping
  <2> QED BY <1>1, <1>2, <1>5, <2>2 DEF IInv, OwnerInv, Pushing, Popping, ownerVars
<1>7. RoomInv' BY <1>1, <1>2, <1>3 DEF IInv, RoomInv
<1>8. ThiefInv' BY <1>1, <1>2 DEF IInv, ThiefInv
<1>9. (Pushing' <=> Pushing) /\ ox' = ox BY DEF Pushing, ownerVars
<1>10. PlaceInv' /\ NoneTwice' /\ NoneLost' BY <1>3, <1>4, <1>5, <1>9, TakeOne
<1> QED BY <1>6, <1>7, <1>8, <1>10 DEF IInv

-----------------------------------------------------------------------------
(* The invariant, and what follows from it.                                *)

\* The inductive invariant holds of every behaviour of the deque.
THEOREM Invariance == Spec => []IInv
<1>1. Init => IInv
  <2> SUFFICES ASSUME Init PROVE IInv OBVIOUS
  <2>1. TypeOK BY TypeInit
  <2>2. Live = {} /\ Bottom = 0 BY DEF Init, Live, Bottom, Popping
  <2>3. OwnerInv /\ ThiefInv BY DEF Init, OwnerInv, ThiefInv, Pushing, Popping
  <2>4. RoomInv BY <2>1, <2>2 DEF Init, RoomInv, TypeOK, IsRing
  <2>5. PlaceInv BY <2>2 DEF Init, PlaceInv, InPush, Pushing
  <2>6. NoneTwice /\ NoneLost BY DEF Init, NoneTwice, NoneLost
  <2> QED BY <2>1, <2>3, <2>4, <2>5, <2>6 DEF IInv
<1>2. IInv /\ [Next]_vars => IInv'
  <2> SUFFICES ASSUME IInv, [Next]_vars PROVE IInv' OBVIOUS
  <2>1. TypeOK' BY TypeStep
  <2>2. CASE Push
    BY <2>1, <2>2, PushLoadStep, PushGrowStep, PushPutStep, PushStoreStep DEF Push
  <2>3. CASE Pop
    BY <2>1, <2>3, PopDecStep, PopTakeStep, PopLocalStep, PopCasWinStep, PopRestoreStep
       DEF Pop
  <2>4. CASE \E p \in Thieves : Steal(p)
    BY <2>1, <2>4, StealLocalStep, StealCasWinStep DEF Steal
  <2>5. CASE UNCHANGED vars
    <3>1. Bottom' = Bottom /\ Live' = Live /\ \A r, i : Get(r, i)' = Get(r, i)
      BY <2>5 DEF vars, ownerVars, Bottom, Popping, Live, Get
    <3> QED BY <2>1, <2>5, <3>1
            DEF IInv, vars, ownerVars, thiefVars, OwnerInv, RoomInv, ThiefInv, PlaceInv,
                NoneTwice, NoneLost, InPush, Pushing, Popping
  <2> QED BY <2>2, <2>3, <2>4, <2>5 DEF Next
<1> QED BY <1>1, <1>2, PTL DEF Spec

\* The deque's shared words and every thread's locals keep their types.
THEOREM TypeCorrect == Spec => []TypeOK
<1>1. IInv => TypeOK BY DEF IInv
<1> QED BY <1>1, Invariance, PTL

\* No task is returned twice by pop and steal, whatever the interleaving of the owner
\* and the thieves, across ring growth: the race for the last task has one winner.
THEOREM NoneTwiceHolds == Spec => []NoneTwice
<1>1. IInv => NoneTwice BY DEF IInv
<1> QED BY <1>1, Invariance, PTL

\* No task is lost by them: a pushed task is returned, in the deque, or in the hands
\* of the one thread whose CAS or decrement of bottom took it.
THEOREM NoneLostHolds == Spec => []NoneLost
<1>1. IInv => NoneLost BY DEF IInv
<1> QED BY <1>1, Invariance, PTL

\* pop returns nullptr only when there is nothing left to take.
THEOREM PopMissesNothing == Spec => PopNullOnlyWhenEmpty
<1> DEFINE A == (opc # "popRestore" /\ opc' = "popRestore" /\ ox' = NoTask) => Live = {}
<1>1. IInv /\ [Next]_vars => [A]_vars
  <2> SUFFICES ASSUME IInv, Next, opc # "popRestore", opc' = "popRestore", ox' = NoTask
               PROVE  Live = {}
    BY DEF vars
  <2>1. PopEmpty \/ PopCasLose \/ PopCasWin
    BY DEF Next, Push, Pop, Steal, PushLoad, PushGrow, PushPut, PushStore, PopDec, PopTake,
           PopLast, PopRestore, StealTop, StealBottom, StealRing, StealGet,
           StealCasWin, StealCasLose, ownerVars
  <2>2. /\ top \in Nat /\ ob \in Int /\ ot \in Nat /\ Bottom = ob + 1 /\ top <= Bottom
    BY <2>1 DEF IInv, TypeOK, OwnerInv, RoomInv, Popping, Bottom, PopEmpty, PopCasLose, PopCasWin
  <2>3. CASE PopEmpty BY <2>2, <2>3 DEF PopEmpty, Live
  <2>4. CASE PopCasLose BY <2>2, <2>4 DEF PopCasLose, Live, IInv, OwnerInv
  <2>5. CASE PopCasWin
    <3>1. ob \in Live /\ ox = Get(ring, ob)
      BY <2>2, <2>5 DEF PopCasWin, Live, IInv, OwnerInv
    <3>2. ox \in Tasks BY <3>1 DEF IInv, PlaceInv
    <3> QED BY <2>5, <3>2, NoTaskAssumption DEF PopCasWin
  <2> QED BY <2>1, <2>3, <2>4, <2>5
<1>2. Spec => [][A]_vars BY <1>1, Invariance, PTL DEF Spec
<1> QED BY <1>2 DEF PopNullOnlyWhenEmpty

-----------------------------------------------------------------------------
(* Refinement: the deque implements AbstractDeque.                         *)

\* The abstract sequence, as the refinement mapping computes it.
Items == [k \in 1 .. Bottom - top |-> Get(ring, top + k - 1)]

\* The items of the abstract deque are the live range, in order.
LEMMA ItemsFacts ==
  ASSUME IInv
  PROVE  /\ top \in Nat /\ Bottom \in Int /\ Bottom - top \in Nat
         /\ Items \in Seq(Tasks) /\ Len(Items) = Bottom - top
<1>1. top \in Nat /\ Bottom \in Int /\ Bottom - top \in Nat
  BY DEF IInv, TypeOK, RoomInv, Bottom
<1>2. \A k \in 1 .. Bottom - top : Get(ring, top + k - 1) \in Tasks
  BY <1>1 DEF IInv, PlaceInv, Live
<1> QED BY <1>1, <1>2 DEF Items

\* Steps that are stutters for callers of the deque.
LEMMA ItemsFrame ==
  ASSUME IInv, top' = top, Bottom' = Bottom, given' = given,
         \A i \in Live : Get(ring, i)' = Get(ring, i)
  PROVE  Items' = Items /\ given' = given
<1>1. \A k \in 1 .. Bottom - top : top + k - 1 \in Live BY ItemsFacts DEF Live
<1> QED BY <1>1 DEF Items

\* Items in the next state, spelled out.
LEMMA ItemsPrime ==
  ASSUME UNCHANGED <<ring, rings>>, NEW t \in Int, NEW b \in Int, top' = t, Bottom' = b
  PROVE  Items' = [k \in 1 .. b - t |-> Get(ring, t + k - 1)]
  BY DEF Items, Get

\* A push appends its task to the items.
LEMMA ItemsPush ==
  ASSUME IInv, PushStore PROVE Items' = Append(Items, ox) /\ ox \in Tasks /\ given' = given
<1>1. /\ ob = bottom /\ ox \in Tasks /\ Get(ring, ob) = ox /\ Bottom = bottom
      /\ Bottom' = Bottom + 1 /\ top' = top
  BY DEF IInv, TypeOK, OwnerInv, Pushing, PushStore, Bottom, Popping
<1> DEFINE n == Bottom - top
           s == [k \in 1 .. n + 1 |-> Get(ring, top + k - 1)]
<1>2. top \in Nat /\ Bottom \in Int /\ n \in Nat /\ Items \in Seq(Tasks) /\ Len(Items) = n
  BY ItemsFacts
<1>3. Items' = s
  <2>1. Items' = [k \in 1 .. (Bottom + 1) - top |-> Get(ring, top + k - 1)]
    BY <1>1, <1>2, ItemsPrime DEF PushStore
  <2>2. (Bottom + 1) - top = n + 1 BY <1>2
  <2> QED BY <2>1, <2>2
<1>4. \A k \in 1 .. n : s[k] = Items[k] /\ Items[k] \in Tasks
  BY <1>2, ElementOfSeq DEF Items
<1>5. s[n + 1] = ox
  <2>1. top + (n + 1) - 1 = ob /\ n + 1 \in 1 .. n + 1 BY <1>1, <1>2
  <2> QED BY <1>1, <2>1
<1>6. s \in Seq(Tasks) /\ Len(s) = n + 1
  <2>1. \A k \in 1 .. n + 1 : k \in 1 .. n \/ k = n + 1 BY <1>2
  <2>2. \A k \in 1 .. n + 1 : s[k] \in Tasks BY <1>1, <1>4, <1>5, <2>1
  <2>3. s \in [1 .. n + 1 -> Tasks] BY <2>2
  <2> HIDE DEF s, n
  <2> QED BY <1>2, <2>3
<1> HIDE DEF s, n
<1>7. Append(Items, ox) = s
  BY <1>1, <1>2, <1>4, <1>5, <1>6, AppendProperties, SeqEqual
<1> QED BY <1>1, <1>3, <1>7 DEF PushStore

\* A pop takes the last item.
LEMMA ItemsPop ==
  ASSUME IInv, top' = top, Bottom' = Bottom - 1, top < Bottom, UNCHANGED <<ring, rings>>
  PROVE  /\ Items # <<>> /\ Items' = SubSeq(Items, 1, Len(Items) - 1)
         /\ Items[Len(Items)] = Get(ring, Bottom - 1)
<1> DEFINE n == Bottom - top
<1>1. /\ top \in Nat /\ Bottom \in Int /\ n \in Nat \ {0}
      /\ Items \in Seq(Tasks) /\ Len(Items) = n
  BY ItemsFacts
<1>2. Items' = [k \in 1 .. n - 1 |-> Get(ring, top + k - 1)]
  <2>1. Items' = [k \in 1 .. (Bottom - 1) - top |-> Get(ring, top + k - 1)]
    BY <1>1, ItemsPrime
  <2>2. (Bottom - 1) - top = n - 1 BY <1>1
  <2> QED BY <2>1, <2>2
<1>3. SubSeq(Items, 1, n - 1) = [k \in 1 .. n - 1 |-> Items[k]] BY <1>1
<1>4. \A k \in 1 .. n : Items[k] = Get(ring, top + k - 1) BY DEF Items
<1>5. Items' = SubSeq(Items, 1, n - 1) BY <1>1, <1>2, <1>3, <1>4
<1>6. Items[n] = Get(ring, Bottom - 1)
  <2>1. top + n - 1 = Bottom - 1 BY <1>1
  <2> QED BY <1>1, <1>4, <2>1
<1> QED BY <1>1, <1>5, <1>6

\* A CAS on top_ takes the first item.
LEMMA ItemsSteal ==
  ASSUME IInv, top' = top + 1, Bottom' = Bottom, top < Bottom, UNCHANGED <<ring, rings>>
  PROVE  Items # <<>> /\ Items' = Tail(Items) /\ Items[1] = Get(ring, top)
<1> DEFINE n == Bottom - top
           s == [k \in 1 .. n - 1 |-> Items[k + 1]]
<1>1. /\ top \in Nat /\ Bottom \in Int /\ n \in Nat \ {0}
      /\ Items \in Seq(Tasks) /\ Len(Items) = n /\ Items # <<>>
  BY ItemsFacts
<1>2. \A k \in 1 .. n : Items[k] = Get(ring, top + k - 1) BY DEF Items
<1>3. \A k \in 1 .. n - 1 : Get(ring, top + 1 + k - 1) = Items[k + 1]
  <2> TAKE k \in 1 .. n - 1
  <2>1. k + 1 \in 1 .. n /\ top + 1 + k - 1 = top + (k + 1) - 1 BY <1>1
  <2> QED BY <1>2, <2>1
<1>4. Items' = s
  <2>1. Items' = [k \in 1 .. Bottom - (top + 1) |-> Get(ring, top + 1 + k - 1)]
    BY <1>1, ItemsPrime
  <2>2. Bottom - (top + 1) = n - 1 BY <1>1
  <2> QED BY <1>3, <2>1, <2>2
<1>5. s \in Seq(Tasks) /\ Len(s) = n - 1
  <2>1. \A k \in 1 .. n - 1 : k + 1 \in 1 .. n BY <1>1
  <2>2. \A k \in 1 .. n - 1 : Items[k + 1] \in Tasks BY <1>1, <2>1, ElementOfSeq
  <2>3. s \in [1 .. n - 1 -> Tasks] /\ n - 1 \in Nat BY <1>1, <2>2
  <2> HIDE DEF s, n
  <2> QED BY <2>3
<1>6. s = Tail(Items)
  <2>1. \A k \in 1 .. n - 1 : s[k] = Items[k + 1] OBVIOUS
  <2> HIDE DEF s, n
  <2> QED BY <1>1, <1>5, <2>1, HeadTailProperties, SeqEqual
<1>7. Items[1] = Get(ring, top)
  <2>1. 1 \in 1 .. n /\ top + 1 - 1 = top BY <1>1
  <2> QED BY <1>2, <2>1
<1> QED BY <1>1, <1>4, <1>6, <1>7

\* Every step of push, pop and steal is a step of the abstract deque or none at all.
THEOREM Refinement == Spec => RefinesAbstractDeque
<1>1. Init => AD!Init
  <2> SUFFICES ASSUME Init PROVE AD!Init OBVIOUS
  <2>1. Bottom - top = 0 BY DEF Init, Bottom, Popping
  <2> QED BY <2>1 DEF AD!Init, Init
<1>2. IInv /\ [Next]_vars => [AD!Next]_(AD!vars)
  <2> SUFFICES ASSUME IInv, [Next]_vars,
                      ~(Items' = Items /\ given' = given)
               PROVE  AD!Next
    BY DEF AD!vars, Items
  <2> USE DEF Items
  <2>1. CASE PushStore
    BY <2>1, ItemsPush DEF AD!Next, AD!Push
  <2>2. CASE PopTake
    <3>1. /\ top' = top /\ Bottom' = Bottom - 1 /\ top < Bottom /\ Bottom - 1 = ob
          /\ UNCHANGED <<ring, rings>>
      BY <2>2 DEF IInv, TypeOK, OwnerInv, PopTake, Bottom, Popping
    <3> QED BY <2>2, <3>1, ItemsPop DEF AD!Next, AD!Pop, PopTake
  <2>3. CASE PopCasWin
    <3>1. /\ top' = top + 1 /\ Bottom' = Bottom /\ top < Bottom /\ ox = Get(ring, top)
          /\ UNCHANGED <<ring, rings>>
      BY <2>3 DEF IInv, TypeOK, OwnerInv, PopCasWin, Bottom, Popping
    <3> QED BY <2>3, <3>1, ItemsSteal DEF AD!Next, AD!Steal, PopCasWin
  <2>4. ASSUME NEW p \in Thieves, StealCasWin(p) PROVE AD!Next
    <3>1. /\ top' = top + 1 /\ Bottom' = Bottom /\ top < Bottom /\ sx[p] = Get(ring, top)
          /\ UNCHANGED <<ring, rings>>
      BY <2>4 DEF IInv, ThiefInv, StealCasWin, Bottom, Popping, ownerVars
    <3> QED BY <2>4, <3>1, ItemsSteal DEF AD!Next, AD!Steal, StealCasWin
  <2> HIDE DEF Items
  <2>5. CASE PushGrow
    <3>1. /\ top' = top /\ Bottom' = Bottom /\ given' = given /\ Live \subseteq ot .. ob - 1
      BY <2>5 DEF IInv, TypeOK, OwnerInv, PushGrow, Bottom, Popping, Live, Pushing
    <3> QED BY <2>5, <3>1, GrowContent, ItemsFrame
  <2>6. CASE PushPut
    <3>1. /\ top' = top /\ Bottom' = Bottom /\ given' = given
          /\ \A i \in Live : i \in Int /\ i < ob /\ ob - i <= rings[ring].cap - 1
      BY <2>6 DEF IInv, TypeOK, IsRing, OwnerInv, PushPut, Bottom, Popping, Live, Pushing
    <3> QED BY <2>6, <3>1, PutContent, ItemsFrame
  <2>7. CASE UNCHANGED <<top, ring, rings, given>> /\ Bottom' = Bottom
    BY <2>7, ItemsFrame DEF Get
  <2>8. ASSUME NEW x \in Tasks, PushLoad(x) PROVE AD!Next
    BY <2>7, <2>8 DEF PushLoad, Bottom, Popping
  <2>9. CASE PopDec \/ PopLast \/ PopEmpty \/ PopCasLose \/ PopRestore
    <3>1. Bottom' = Bottom
      <4>1. CASE PopDec BY <4>1 DEF PopDec, Bottom, Popping, IInv, TypeOK
      <4>2. CASE PopLast \/ PopEmpty \/ PopCasLose
        BY <4>2 DEF PopLast, PopEmpty, PopCasLose, Bottom, Popping
      <4>3. CASE PopRestore BY <4>3 DEF PopRestore, Bottom, Popping, IInv, OwnerInv
      <4> QED BY <2>9, <4>1, <4>2, <4>3
    <3> QED BY <2>7, <2>9, <3>1 DEF PopDec, PopLast, PopEmpty, PopCasLose, PopRestore
  <2>10. ASSUME NEW p \in Thieves, StealTop(p) \/ StealBottom(p) \/ StealRing(p)
                                   \/ StealGet(p) \/ StealCasLose(p)
         PROVE  AD!Next
    BY <2>7, <2>10 DEF StealTop, StealBottom, StealRing, StealGet, StealCasLose,
                       Bottom, Popping, ownerVars
  <2>11. CASE UNCHANGED vars BY <2>7, <2>11 DEF vars, ownerVars, Bottom, Popping
  <2> QED
    BY <2>1, <2>2, <2>3, <2>4, <2>5, <2>6, <2>8, <2>9, <2>10, <2>11
       DEF Next, Push, Pop, Steal
<1> QED BY <1>1, <1>2, Invariance, PTL DEF Spec, RefinesAbstractDeque, AD!Spec
=============================================================================
