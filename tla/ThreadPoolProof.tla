--------------------------- MODULE ThreadPoolProof ---------------------------
(***************************************************************************)
(* Proof about ThreadPool, for any number of workers, clients and tasks:   *)
(* pending_ = 0 means that every submitted task has run (IdleMeansDone),   *)
(* and no task runs twice.                                                 *)
(*                                                                         *)
(* IdleMeansDone is not inductive: it says nothing while pending_ > 0.     *)
(* What is kept is that pending_ counts the tasks in flight (CountInv), and*)
(* for the count to go down by one when a worker is done with a task, that *)
(* the task was in one place only (PlacesInv).  A place is the argument of *)
(* a submit under way, a deque, the global queue, or a worker's hands.     *)
(***************************************************************************)
EXTENDS ThreadPool, SequenceTheorems, FiniteSetTheorems, TLAPS

PCs == {"loop", "pop", "global", "steal", "run", "ran", "last", "sleep", "block",
        "waiting", "woken", "expired", "exit", "enqPush", "enqLock", "enqNotify",
        "idle", "wait", "dtorLock", "dtorNotify", "join"}

TypeOK ==
  /\ pc \in [Threads -> PCs]
  /\ task \in [Workers -> Tasks \cup {None}]
  /\ arg \in [Threads -> Tasks \cup {None}]
  /\ deq \in [Workers -> Seq(Tasks)] /\ gq \in Seq(Tasks)
  /\ pending \in Int /\ done \in BOOLEAN
  /\ lock \in Threads \cup {None} /\ waiting \subseteq Threads
  /\ fresh \subseteq Tasks /\ ran \in [Tasks -> Nat]

\* A worker has a task in its hands from the moment it takes it to fetch_sub.
Busy == {"run", "ran", "enqPush", "enqLock", "enqNotify"}

ControlInv ==
  /\ \A w \in Workers : task[w] # None <=> pc[w] \in Busy
  /\ \A u \in Threads : pc[u] = "enqPush" => arg[u] # None
  /\ \A u \in waiting : pc[u] = "waiting"

\* The places of tasks, and the tasks in each.
SubmitOf(u) == <<"submit", u>>
DequeOf(w) == <<"deque", w>>
Global == <<"global", None>>
HandsOf(w) == <<"hands", w>>
Places ==
  {SubmitOf(u) : u \in Threads} \cup {DequeOf(w) : w \in Workers}
  \cup {Global} \cup {HandsOf(w) : w \in Workers}

Held(h) ==
  CASE h[1] = "submit" -> IF pc[h[2]] = "enqPush" THEN {arg[h[2]]} ELSE {}
    [] h[1] = "deque" -> Range(deq[h[2]])
    [] h[1] = "global" -> Range(gq)
    [] h[1] = "hands" -> {task[h[2]]} \ {None}

InFlight == UNION {Held(h) : h \in Places}

PlacesInv == \A h, k \in Places : h # k => Held(h) \cap Held(k) = {}

NoRepeats(s) == \A i, j \in 1 .. Len(s) : s[i] = s[j] => i = j
QueuesInv == NoRepeats(gq) /\ \A w \in Workers : NoRepeats(deq[w])

CountInv == IsFiniteSet(InFlight) /\ pending = Cardinality(InFlight)

JustRan(x) == \E w \in Workers : pc[w] = "ran" /\ task[w] = x

RanInv ==
  /\ \A x \in fresh : x \notin InFlight /\ ran[x] = 0
  /\ \A x \in Tasks \ fresh :
       ran[x] = IF x \in InFlight /\ ~JustRan(x) THEN 0 ELSE 1

IInv == TypeOK /\ ControlInv /\ PlacesInv /\ QueuesInv /\ CountInv /\ RanInv

-----------------------------------------------------------------------------
(* Sequences.                                                              *)

\* Appending a new element.
LEMMA AppendNew ==
  ASSUME NEW S, NEW s \in Seq(S), NEW x \in S, x \notin Range(s), NoRepeats(s)
  PROVE  /\ Append(s, x) \in Seq(S)
         /\ Range(Append(s, x)) = Range(s) \cup {x}
         /\ NoRepeats(Append(s, x))
<1> DEFINE t == Append(s, x)
<1>1. /\ t \in Seq(S) /\ Len(t) = Len(s) + 1 /\ Len(s) \in Nat
      /\ \A i \in 1 .. Len(s) : t[i] = s[i]
      /\ t[Len(s) + 1] = x
  BY AppendProperties, LenProperties
<1> HIDE DEF t
<1>2. Range(s) = {s[i] : i \in 1 .. Len(s)} /\ Range(t) = {t[i] : i \in 1 .. Len(t)}
  BY <1>1, RangeEquality
<1>3. Range(t) = Range(s) \cup {x} BY <1>1, <1>2
<1>4. NoRepeats(t) BY <1>1, <1>2 DEF NoRepeats
<1> QED BY <1>1, <1>3, <1>4 DEF t

\* Taking the element at one end.
LEMMA TakeEnd ==
  ASSUME NEW S, NEW s \in Seq(S), s # <<>>, NoRepeats(s)
  PROVE  /\ Last(s) \in S /\ Last(s) \in Range(s)
         /\ Front(s) \in Seq(S) /\ NoRepeats(Front(s))
         /\ Range(Front(s)) = Range(s) \ {Last(s)}
<1>1. Len(s) \in Nat \ {0} BY EmptySeq
<1>2. \A i \in 1 .. Len(s) - 1 : s[i] \in S BY <1>1, ElementOfSeq
<1>3. /\ Front(s) \in Seq(S) /\ Len(Front(s)) = Len(s) - 1
      /\ \A i \in 1 .. Len(s) - 1 : Front(s)[i] = s[i]
  <2> DEFINE t == SubSeq(s, 1, Len(s) - 1)
  <2>1. /\ t \in Seq(S)
        /\ Len(t) = IF 1 <= Len(s) - 1 THEN Len(s) - 1 - 1 + 1 ELSE 0
        /\ \A i \in 1 .. Len(s) - 1 - 1 + 1 : t[i] = s[1 + i - 1]
    BY <1>1, <1>2, SubSeqProperties
  <2> HIDE DEF t
  <2>2. Len(t) = Len(s) - 1
    <3> DEFINE n == Len(s)
    <3>1. n \in Nat \ {0} /\ Len(t) = IF 1 <= n - 1 THEN n - 1 - 1 + 1 ELSE 0 BY <1>1, <2>1
    <3> HIDE DEF n
    <3>2. (IF 1 <= n - 1 THEN n - 1 - 1 + 1 ELSE 0) = n - 1 BY <3>1
    <3> QED BY <3>1, <3>2 DEF n
  <2>3. ASSUME NEW i \in 1 .. Len(s) - 1 PROVE t[i] = s[i]
    <3>1. 1 + i - 1 = i /\ i \in 1 .. Len(s) - 1 - 1 + 1 BY <1>1
    <3> QED BY <2>1, <3>1
  <2> QED BY <2>1, <2>2, <2>3 DEF t, Front
<1>4. Last(s) = s[Len(s)] /\ Last(s) \in S BY <1>1, ElementOfSeq DEF Last
<1>5. /\ Range(s) = {s[i] : i \in 1 .. Len(s)}
      /\ Range(Front(s)) = {Front(s)[i] : i \in 1 .. Len(Front(s))}
  BY <1>3, RangeEquality
<1>6. Last(s) \in Range(s) BY <1>1, <1>4, <1>5
<1>7. Range(Front(s)) = Range(s) \ {Last(s)}
  BY <1>1, <1>3, <1>4, <1>5 DEF NoRepeats
<1>8. NoRepeats(Front(s)) BY <1>1, <1>3 DEF NoRepeats
<1> QED BY <1>3, <1>4, <1>6, <1>7, <1>8

\* Taking the element at the other end.
LEMMA TakeHead ==
  ASSUME NEW S, NEW s \in Seq(S), s # <<>>, NoRepeats(s)
  PROVE  /\ Head(s) \in S /\ Head(s) \in Range(s)
         /\ Tail(s) \in Seq(S) /\ NoRepeats(Tail(s))
         /\ Range(Tail(s)) = Range(s) \ {Head(s)}
<1>1. Len(s) \in Nat \ {0} BY EmptySeq
<1>2. /\ Head(s) \in S /\ Tail(s) \in Seq(S) /\ Len(Tail(s)) = Len(s) - 1
      /\ \A i \in 1 .. Len(s) - 1 : Tail(s)[i] = s[i + 1]
  BY HeadTailProperties
<1>3. Head(s) = s[1] OBVIOUS
<1>4. /\ Range(s) = {s[i] : i \in 1 .. Len(s)}
      /\ Range(Tail(s)) = {Tail(s)[i] : i \in 1 .. Len(Tail(s))}
  BY <1>2, RangeEquality
<1>5. Head(s) \in Range(s) BY <1>1, <1>3, <1>4
<1>6. Range(Tail(s)) = Range(s) \ {Head(s)}
  <2>1. ASSUME NEW y \in Range(Tail(s)) PROVE y \in Range(s) \ {Head(s)}
    <3>1. PICK i \in 1 .. Len(s) - 1 : y = s[i + 1] BY <1>2, <1>4
    <3>2. i + 1 \in 1 .. Len(s) /\ i + 1 # 1 BY <1>1
    <3>3. s[i + 1] # s[1] BY <1>1, <3>2 DEF NoRepeats
    <3> QED BY <1>3, <1>4, <3>1, <3>2, <3>3
  <2>2. ASSUME NEW y \in Range(s) \ {Head(s)} PROVE y \in Range(Tail(s))
    <3>1. PICK i \in 1 .. Len(s) : y = s[i] BY <1>4
    <3>2. i - 1 \in 1 .. Len(s) - 1 /\ i = (i - 1) + 1 BY <1>1, <1>3, <3>1
    <3>3. y = Tail(s)[i - 1] BY <1>2, <3>1, <3>2
    <3> QED BY <1>2, <1>4, <3>2, <3>3
  <2> QED BY <2>1, <2>2
<1>7. NoRepeats(Tail(s))
  <2> SUFFICES ASSUME NEW i \in 1 .. Len(s) - 1, NEW j \in 1 .. Len(s) - 1,
                      s[i + 1] = s[j + 1]
               PROVE  i = j
    BY <1>2 DEF NoRepeats
  <2> QED BY <1>1 DEF NoRepeats
<1> QED BY <1>2, <1>5, <1>6, <1>7

-----------------------------------------------------------------------------
(* Places.                                                                 *)

\* Each kind of place, and what it holds now and after a step.
LEMMA Kinds ==
  \A h \in Places :
    \/ \E u \in Threads : h = SubmitOf(u)
    \/ \E w \in Workers : h = DequeOf(w)
    \/ h = Global
    \/ \E w \in Workers : h = HandsOf(w)
BY DEF Places

\* Places of different kinds, or of different threads, are different.
LEMMA Distinct ==
  /\ \A u, w : SubmitOf(u) # DequeOf(w) /\ SubmitOf(u) # HandsOf(w) /\ SubmitOf(u) # Global
  /\ \A u, w : DequeOf(u) # HandsOf(w)
  /\ \A u : DequeOf(u) # Global /\ HandsOf(u) # Global
  /\ \A u, w : SubmitOf(u) = SubmitOf(w) \/ DequeOf(u) = DequeOf(w) \/ HandsOf(u) = HandsOf(w)
                 => u = w
BY DEF SubmitOf, DequeOf, HandsOf, Global

\* What the places hold.
LEMMA HeldNow ==
  /\ \A u : Held(SubmitOf(u)) = IF pc[u] = "enqPush" THEN {arg[u]} ELSE {}
  /\ \A w : Held(DequeOf(w)) = Range(deq[w])
  /\ Held(Global) = Range(gq)
  /\ \A w : Held(HandsOf(w)) = {task[w]} \ {None}
BY DEF Held, SubmitOf, DequeOf, HandsOf, Global

\* What the places hold after a step.
LEMMA HeldNext ==
  /\ \A u : Held(SubmitOf(u))' = IF pc'[u] = "enqPush" THEN {arg'[u]} ELSE {}
  /\ \A w : Held(DequeOf(w))' = Range(deq'[w])
  /\ Held(Global)' = Range(gq')
  /\ \A w : Held(HandsOf(w))' = {task'[w]} \ {None}
BY DEF Held, SubmitOf, DequeOf, HandsOf, Global

\* A place that is not touched holds what it held.
LEMMA Unmoved ==
  /\ \A u : ((pc'[u] = "enqPush" <=> pc[u] = "enqPush")
             /\ (pc[u] = "enqPush" => arg'[u] = arg[u]))
            => Held(SubmitOf(u))' = Held(SubmitOf(u))
  /\ \A w : deq'[w] = deq[w] => Held(DequeOf(w))' = Held(DequeOf(w))
  /\ gq' = gq => Held(Global)' = Held(Global)
  /\ \A w : task'[w] = task[w] => Held(HandsOf(w))' = Held(HandsOf(w))
<1>1. ASSUME NEW u, pc'[u] = "enqPush" <=> pc[u] = "enqPush",
             pc[u] = "enqPush" => arg'[u] = arg[u]
      PROVE  Held(SubmitOf(u))' = Held(SubmitOf(u))
  BY <1>1, HeldNow, HeldNext
<1>2. ASSUME NEW w, deq'[w] = deq[w] PROVE Held(DequeOf(w))' = Held(DequeOf(w))
  BY <1>2, HeldNow, HeldNext
<1>3. ASSUME gq' = gq PROVE Held(Global)' = Held(Global) BY <1>3, HeldNow, HeldNext
<1>4. ASSUME NEW w, task'[w] = task[w] PROVE Held(HandsOf(w))' = Held(HandsOf(w))
  BY <1>4, HeldNow, HeldNext
<1> QED BY <1>1, <1>2, <1>3, <1>4

\* A task moves from one place to another.
LEMMA Moved ==
  ASSUME PlacesInv, NEW a \in Places, NEW b \in Places, a # b, NEW x \in Held(a),
         Held(a)' = Held(a) \ {x}, Held(b)' = Held(b) \cup {x},
         \A h \in Places \ {a, b} : Held(h)' = Held(h)
  PROVE  PlacesInv' /\ InFlight' = InFlight
<1>1. \A h, k \in Places : h # k => Held(h) \cap Held(k) = {} BY DEF PlacesInv
<1>2. \A h \in Places \ {a} : x \notin Held(h) BY <1>1
<1>3. ASSUME NEW h \in Places, NEW k \in Places, h # k
      PROVE  Held(h)' \cap Held(k)' = {}
  <2>1. Held(h) \cap Held(k) = {} BY <1>1, <1>3
  <2>2. CASE h = a
    <3>1. CASE k = b BY <2>1, <2>2, <3>1
    <3>2. CASE k # b BY <1>3, <2>1, <2>2, <3>2
    <3> QED BY <3>1, <3>2
  <2>3. CASE h = b
    <3>1. CASE k = a BY <2>1, <2>3, <3>1
    <3>2. CASE k # a BY <1>2, <1>3, <2>1, <2>3, <3>2
    <3> QED BY <3>1, <3>2
  <2>4. CASE h \notin {a, b}
    <3>1. x \notin Held(h) /\ Held(h)' = Held(h) BY <1>2, <2>4
    <3>2. Held(k)' \subseteq Held(k) \cup {x} BY <2>4
    <3> QED BY <2>1, <3>1, <3>2
  <2> QED BY <2>2, <2>3, <2>4
<1>4. PlacesInv' BY <1>3 DEF PlacesInv, Places, SubmitOf, DequeOf, HandsOf, Global
<1>5. \A y : (\E h \in Places : y \in Held(h)') <=> (\E h \in Places : y \in Held(h))
  <2> TAKE y
  <2>1. CASE y = x BY <2>1
  <2>2. CASE y # x
    <3>1. \A h \in Places : y \in Held(h)' <=> y \in Held(h) BY <2>2
    <3> QED BY <3>1
  <2> QED BY <2>1, <2>2
<1> QED BY <1>4, <1>5 DEF InFlight, Places, SubmitOf, DequeOf, HandsOf, Global

\* A new task comes to a place, or a task leaves its place for good.
LEMMA Came ==
  ASSUME PlacesInv, NEW b \in Places, NEW x, x \notin InFlight,
         Held(b)' = Held(b) \cup {x},
         \A h \in Places \ {b} : Held(h)' = Held(h)
  PROVE  PlacesInv' /\ InFlight' = InFlight \cup {x}
<1>1. \A h \in Places : x \notin Held(h) BY DEF InFlight
<1>2. ASSUME NEW h \in Places, NEW k \in Places, h # k
      PROVE  Held(h)' \cap Held(k)' = {}
  <2>1. Held(h) \cap Held(k) = {} BY <1>2 DEF PlacesInv
  <2>2. Held(h)' = Held(h) \/ Held(k)' = Held(k) BY <1>2
  <2>3. Held(h)' \subseteq Held(h) \cup {x} /\ Held(k)' \subseteq Held(k) \cup {x} OBVIOUS
  <2> QED BY <1>1, <2>1, <2>2, <2>3
<1>3. PlacesInv' BY <1>2 DEF PlacesInv, Places, SubmitOf, DequeOf, HandsOf, Global
<1>4. \A y : (\E h \in Places : y \in Held(h)') <=> y \in InFlight \/ y = x
  <2> TAKE y
  <2>1. CASE y = x BY <2>1
  <2>2. CASE y # x
    <3>1. \A h \in Places : y \in Held(h)' <=> y \in Held(h) BY <2>2
    <3> QED BY <2>2, <3>1 DEF InFlight
  <2> QED BY <2>1, <2>2
<1> QED BY <1>3, <1>4 DEF InFlight, Places, SubmitOf, DequeOf, HandsOf, Global

\* The places that a step leaves alone.
LEMMA Left ==
  ASSUME PlacesInv, NEW a \in Places, NEW x \in Held(a),
         Held(a)' = Held(a) \ {x},
         \A h \in Places \ {a} : Held(h)' = Held(h)
  PROVE  PlacesInv' /\ InFlight' = InFlight \ {x}
<1>1. \A h \in Places \ {a} : x \notin Held(h) BY DEF PlacesInv
<1>2. \A h \in Places : Held(h)' = Held(h) \ {x} BY <1>1
<1>3. ASSUME NEW h \in Places, NEW k \in Places, h # k
      PROVE  Held(h)' \cap Held(k)' = {}
  <2>1. Held(h) \cap Held(k) = {} BY <1>3 DEF PlacesInv
  <2> QED BY <1>2, <2>1
<1>4. PlacesInv' BY <1>3 DEF PlacesInv, Places, SubmitOf, DequeOf, HandsOf, Global
<1>5. \A y : (\E h \in Places : y \in Held(h)') <=> y \in InFlight /\ y # x
  BY <1>2 DEF InFlight
<1> QED BY <1>4, <1>5 DEF InFlight, Places, SubmitOf, DequeOf, HandsOf, Global

\* When the tasks move between places, the count stays.
LEMMA StillInFlight ==
  ASSUME CountInv, RanInv, InFlight' = InFlight, UNCHANGED <<pending, history>>,
         \A x \in Tasks : JustRan(x)' <=> JustRan(x)
  PROVE  CountInv' /\ RanInv'
BY DEF CountInv, RanInv, history

-----------------------------------------------------------------------------
(* The steps.                                                              *)

\* A step that neither moves a task nor calls one: u, or all waiters, go on.
LEMMA QuietKeeps ==
  ASSUME IInv, TypeOK', ControlInv', UNCHANGED <<task, queues, pending, history>>,
         \A u \in Threads : (pc'[u] = "enqPush" <=> pc[u] = "enqPush"),
         \A u \in Threads : pc[u] = "enqPush" => arg'[u] = arg[u],
         \A w \in Workers : (pc'[w] = "ran" <=> pc[w] = "ran")
  PROVE  IInv'
<1>1. \A h \in Places : Held(h)' = Held(h)
  <2> TAKE h \in Places
  <2>1. UNCHANGED <<task, deq, gq>> BY DEF queues
  <2> QED BY <2>1, Unmoved, Kinds
<1>2. PlacesInv'
  BY <1>1 DEF IInv, PlacesInv, Places, SubmitOf, DequeOf, HandsOf, Global
<1>3. InFlight' = InFlight
  BY <1>1 DEF InFlight, Places, SubmitOf, DequeOf, HandsOf, Global
<1>4. \A x \in Tasks : JustRan(x)' <=> JustRan(x) BY DEF JustRan
<1>5. CountInv' /\ RanInv' BY <1>3, <1>4, StillInFlight DEF IInv
<1>6. QueuesInv' BY DEF IInv, QueuesInv, NoRepeats, queues
<1> QED BY <1>2, <1>5, <1>6 DEF IInv

\* Waking all waiters leaves alone the threads that enqueue or run tasks.
LEMMA WakeAllKeeps ==
  ASSUME TypeOK, ControlInv, NEW u \in Threads, NEW l, WakeAll(u, l),
         l \in PCs \ (Busy \cup {"waiting"}), pc[u] \notin Busy,
         UNCHANGED <<task, arg>>
  PROVE  /\ pc' \in [Threads -> PCs] /\ waiting' = {}
         /\ ControlInv'
         /\ \A v \in Threads : (pc'[v] = "enqPush" <=> pc[v] = "enqPush")
         /\ \A w \in Workers : (pc'[w] = "ran" <=> pc[w] = "ran")
<1>1. /\ waiting' = {}
      /\ \A v \in Threads :
           pc'[v] = IF v = u THEN l ELSE IF v \in waiting THEN "woken" ELSE pc[v]
  BY DEF WakeAll
<1>2. pc' \in [Threads -> PCs] BY <1>1 DEF WakeAll, TypeOK, PCs
<1>3. \A v \in Threads : pc'[v] \in Busy <=> pc[v] \in Busy
  BY <1>1 DEF ControlInv, Busy
<1>4. \A v \in Threads : pc[v] \in Busy => pc'[v] = pc[v]
  BY <1>1 DEF ControlInv, Busy
<1>5. Workers \subseteq Threads BY DEF Threads
<1>6. ControlInv' BY <1>1, <1>3, <1>4, <1>5 DEF ControlInv, Busy
<1> QED BY <1>1, <1>2, <1>3, <1>4, <1>5, <1>6 DEF Busy

\* Submit counts a new task.
LEMMA SubmitKeeps ==
  ASSUME IInv, NEW u \in Threads, NEW x \in Tasks, Submit(u, x)
  PROVE  IInv'
<1> USE NoneAssumption DEF IInv
<1>1. /\ x \in fresh /\ x # None /\ Workers \subseteq Threads
      /\ pc[u] \notin {"enqPush", "ran", "waiting"}
      /\ u \in Workers => pc[u] = "run"
      /\ u \notin Workers => pc[u] = "idle"
  BY DEF Submit, Threads
<1>2. /\ pc' = [pc EXCEPT ![u] = "enqPush"] /\ arg' = [arg EXCEPT ![u] = x]
      /\ pending' = pending + 1 /\ fresh' = fresh \ {x}
      /\ UNCHANGED <<task, deq, gq, done, lock, waiting, ran>>
  BY DEF Submit, Goto, queues
<1>3. TypeOK' BY <1>1, <1>2 DEF TypeOK, PCs
<1>4. /\ pc'[u] = "enqPush" /\ arg'[u] = x
      /\ \A v \in Threads \ {u} : pc'[v] = pc[v] /\ arg'[v] = arg[v]
  BY <1>2 DEF TypeOK
<1>5. ControlInv' BY <1>1, <1>2, <1>4 DEF TypeOK, ControlInv, Busy
<1>6. PlacesInv' /\ InFlight' = InFlight \cup {x}
  <2>1. SubmitOf(u) \in Places BY DEF Places
  <2>2. Held(SubmitOf(u)) = {} /\ Held(SubmitOf(u))' = {x}
    BY <1>1, <1>4, HeldNow, HeldNext
  <2>3. \A h \in Places \ {SubmitOf(u)} : Held(h)' = Held(h)
    <3> TAKE h \in Places \ {SubmitOf(u)}
    <3>1. \A v \in Threads \ {u} : Held(SubmitOf(v))' = Held(SubmitOf(v))
      BY <1>4, Unmoved
    <3> QED BY <1>2, <3>1, Unmoved, Kinds
  <2>4. x \notin InFlight BY <1>1 DEF RanInv
  <2> QED BY <2>1, <2>2, <2>3, <2>4, Came
<1>7. QueuesInv' BY <1>2 DEF QueuesInv, NoRepeats
<1>8. x \notin InFlight BY <1>1 DEF RanInv
<1>9. CountInv'
  BY <1>2, <1>6, <1>8, FS_AddElement DEF CountInv
<1>10. \A y : JustRan(y)' <=> JustRan(y) BY <1>1, <1>2, <1>4 DEF JustRan
<1>11. ~JustRan(x)
  <2> SUFFICES ASSUME NEW w \in Workers, pc[w] = "ran", task[w] = x PROVE FALSE BY DEF JustRan
  <2>1. x \in Held(HandsOf(w)) BY <1>1, HeldNow
  <2>2. HandsOf(w) \in Places BY DEF Places
  <2> QED BY <1>8, <2>1, <2>2 DEF InFlight
<1>12. RanInv' BY <1>1, <1>2, <1>6, <1>10, <1>11 DEF RanInv, TypeOK
<1> QED BY <1>3, <1>5, <1>6, <1>7, <1>9, <1>12

\* The task goes to the submitter's own deque or to the global queue.
LEMMA EnqPushKeeps ==
  ASSUME IInv, NEW u \in Threads, EnqPush(u)
  PROVE  IInv'
<1> USE NoneAssumption DEF IInv
<1> DEFINE x == arg[u]
           b == IF u \in Workers THEN DequeOf(u) ELSE Global
<1>1. /\ pc[u] = "enqPush" /\ x \in Tasks /\ Workers \subseteq Threads
      /\ pc' = [pc EXCEPT ![u] = "enqLock"]
      /\ UNCHANGED <<task, arg, pending, done, lock, waiting, fresh, ran>>
  BY DEF EnqPush, Goto, history, TypeOK, ControlInv, Threads
<1>2. /\ pc'[u] = "enqLock"
      /\ \A v \in Threads \ {u} : pc'[v] = pc[v]
  BY <1>1 DEF TypeOK
<1>3. ControlInv' BY <1>1, <1>2 DEF ControlInv, Busy, TypeOK
<1>4. SubmitOf(u) \in Places /\ b \in Places /\ b # SubmitOf(u)
  BY Distinct DEF Places
<1>5. Held(SubmitOf(u)) = {x} /\ Held(SubmitOf(u))' = {}
  BY <1>1, <1>2, HeldNow, HeldNext
<1>6. x \notin Held(b) BY <1>4, <1>5 DEF PlacesInv
<1>7. /\ deq' \in [Workers -> Seq(Tasks)] /\ gq' \in Seq(Tasks) /\ QueuesInv'
      /\ Held(b)' = Held(b) \cup {x}
      /\ \A w \in Workers : DequeOf(w) # b => deq'[w] = deq[w]
      /\ Global # b => gq' = gq
  <2>1. CASE u \in Workers
    <3>1. deq' = [deq EXCEPT ![u] = Append(deq[u], x)] /\ gq' = gq
      BY <2>1 DEF EnqPush
    <3>2. deq[u] \in Seq(Tasks) /\ NoRepeats(deq[u]) /\ x \notin Range(deq[u])
      BY <2>1, <1>6, HeldNow DEF TypeOK, QueuesInv
    <3>3. /\ Append(deq[u], x) \in Seq(Tasks) /\ NoRepeats(Append(deq[u], x))
          /\ Range(Append(deq[u], x)) = Range(deq[u]) \cup {x}
      BY <1>1, <3>2, AppendNew
    <3>4. deq'[u] = Append(deq[u], x) /\ \A w \in Workers \ {u} : deq'[w] = deq[w]
      BY <2>1, <3>1 DEF TypeOK
    <3>5. deq' \in [Workers -> Seq(Tasks)] /\ gq' \in Seq(Tasks) BY <3>1, <3>3 DEF TypeOK
    <3>6. QueuesInv' BY <3>1, <3>3, <3>4 DEF QueuesInv, NoRepeats
    <3>7. Held(b)' = Held(b) \cup {x} BY <2>1, <3>3, <3>4, HeldNow, HeldNext DEF DequeOf
    <3> QED BY <2>1, <3>1, <3>4, <3>5, <3>6, <3>7
  <2>2. CASE u \notin Workers
    <3>1. gq' = Append(gq, x) /\ deq' = deq BY <2>2 DEF EnqPush
    <3>2. gq \in Seq(Tasks) /\ NoRepeats(gq) /\ x \notin Range(gq)
      BY <2>2, <1>6, HeldNow DEF TypeOK, QueuesInv
    <3>3. /\ gq' \in Seq(Tasks) /\ NoRepeats(gq') /\ Range(gq') = Range(gq) \cup {x}
      BY <1>1, <3>1, <3>2, AppendNew
    <3>4. QueuesInv' BY <3>1, <3>3 DEF QueuesInv, NoRepeats
    <3>5. Held(b)' = Held(b) \cup {x} BY <2>2, <3>3, HeldNow, HeldNext DEF Global
    <3> QED BY <2>2, <3>1, <3>3, <3>4, <3>5 DEF TypeOK
  <2> QED BY <2>1, <2>2
<1>8. TypeOK' BY <1>1, <1>7 DEF TypeOK, PCs
<1>9. \A h \in Places \ {SubmitOf(u), b} : Held(h)' = Held(h)
  <2> HIDE DEF b
  <2> TAKE h \in Places \ {SubmitOf(u), b}
  <2>1. \A v \in Threads \ {u} : Held(SubmitOf(v))' = Held(SubmitOf(v))
    BY <1>1, <1>2, Unmoved
  <2> QED BY <1>1, <1>7, <2>1, Unmoved, Kinds
<1>10. PlacesInv' /\ InFlight' = InFlight
  <2> HIDE DEF b
  <2> QED BY <1>4, <1>5, <1>7, <1>9, Moved
<1>11. \A y \in Tasks : JustRan(y)' <=> JustRan(y) BY <1>1, <1>2 DEF JustRan
<1>12. CountInv' /\ RanInv' BY <1>1, <1>10, <1>11, StillInFlight DEF history
<1> QED BY <1>3, <1>7, <1>8, <1>10, <1>12

\* A worker takes x out of the deque or global queue a.
LEMMA TakeKeeps ==
  ASSUME IInv, NEW w \in Workers, pc[w] \in {"pop", "global", "steal"},
         NEW a \in {DequeOf(v) : v \in Workers} \cup {Global},
         NEW x \in Held(a) \cap Tasks, Take(w, x), Held(a)' = Held(a) \ {x},
         deq' \in [Workers -> Seq(Tasks)], gq' \in Seq(Tasks), QueuesInv',
         \A v \in Workers : DequeOf(v) # a => deq'[v] = deq[v],
         Global # a => gq' = gq,
         UNCHANGED <<arg, pending, done, lock, waiting, fresh, ran>>
  PROVE  IInv'
<1> USE NoneAssumption DEF IInv
<1>1. /\ pc' = [pc EXCEPT ![w] = "run"] /\ task' = [task EXCEPT ![w] = x]
      /\ x # None /\ Workers \subseteq Threads
      /\ task[w] = None
  BY DEF Take, Goto, Threads, ControlInv, Busy
<1>2. /\ pc'[w] = "run" /\ \A v \in Threads \ {w} : pc'[v] = pc[v]
      /\ task'[w] = x /\ \A v \in Workers \ {w} : task'[v] = task[v]
  BY <1>1 DEF TypeOK
<1>3. TypeOK' BY <1>1 DEF TypeOK, PCs
<1>4. ControlInv' BY <1>1, <1>2 DEF ControlInv, Busy
<1>5. a \in Places /\ HandsOf(w) \in Places /\ a # HandsOf(w)
  BY Distinct DEF Places
<1>6. Held(HandsOf(w)) = {} /\ Held(HandsOf(w))' = {x}
  BY <1>1, <1>2, HeldNow, HeldNext
<1>7. \A h \in Places \ {a, HandsOf(w)} : Held(h)' = Held(h)
  <2> TAKE h \in Places \ {a, HandsOf(w)}
  <2>1. \A v \in Threads : Held(SubmitOf(v))' = Held(SubmitOf(v))
    BY <1>2, Unmoved
  <2>2. \A v \in Workers \ {w} : Held(HandsOf(v))' = Held(HandsOf(v))
    BY <1>2, Unmoved
  <2> QED BY <2>1, <2>2, Unmoved, Kinds
<1>8. PlacesInv' /\ InFlight' = InFlight BY <1>5, <1>6, <1>7, Moved
<1>9. \A y \in Tasks : JustRan(y)' <=> JustRan(y) BY <1>1, <1>2 DEF JustRan
<1>10. CountInv' /\ RanInv' BY <1>8, <1>9, StillInFlight DEF history
<1> QED BY <1>3, <1>4, <1>8, <1>10

\* Taking the head or the last element of a deque.
LEMMA TakeFromDeque ==
  ASSUME IInv, NEW w \in Workers, pc[w] \in {"pop", "steal"}, NEW v \in Workers,
         NEW x \in Tasks, NEW t \in Seq(Tasks), x \in Range(deq[v]),
         Range(t) = Range(deq[v]) \ {x}, NoRepeats(t),
         Take(w, x), deq' = [deq EXCEPT ![v] = t],
         UNCHANGED <<arg, gq, pending, done, lock, waiting, history>>
  PROVE  IInv'
<1>1. deq'[v] = t /\ \A u \in Workers \ {v} : deq'[u] = deq[u] BY DEF IInv, TypeOK
<1>2. deq' \in [Workers -> Seq(Tasks)] /\ gq' \in Seq(Tasks) BY DEF IInv, TypeOK
<1>3. QueuesInv' BY <1>1 DEF IInv, QueuesInv, NoRepeats
<1>4. x \in Held(DequeOf(v)) /\ Held(DequeOf(v))' = Held(DequeOf(v)) \ {x}
  BY <1>1, HeldNow, HeldNext
<1>5. \A u \in Workers : DequeOf(u) # DequeOf(v) => deq'[u] = deq[u] BY <1>1
<1> QED BY <1>2, <1>3, <1>4, <1>5, TakeKeeps DEF history

\* A worker pops from its own deque.
LEMMA PopOwnKeeps ==
  ASSUME IInv, NEW w \in Workers, PopOwn(w)
  PROVE  IInv'
<1>1. CASE deq[w] = <<>>
  <2>1. /\ pc' = [pc EXCEPT ![w] = "global"] /\ pc[w] = "pop" /\ w \in Threads
        /\ UNCHANGED <<task, arg, deq, gq, pending, done, lock, waiting, history>>
    BY <1>1 DEF PopOwn, Goto, Threads
  <2>2. TypeOK' /\ ControlInv' BY <2>1 DEF IInv, TypeOK, ControlInv, PCs, Busy, history, Threads
  <2>3. /\ \A u \in Threads : (pc'[u] = "enqPush" <=> pc[u] = "enqPush")
        /\ \A v \in Workers : (pc'[v] = "ran" <=> pc[v] = "ran")
    BY <2>1 DEF IInv, TypeOK, Threads
  <2> QED BY <2>1, <2>2, <2>3, QuietKeeps DEF queues
<1>2. CASE deq[w] # <<>>
  <2>1. deq[w] \in Seq(Tasks) /\ NoRepeats(deq[w]) BY DEF IInv, TypeOK, QueuesInv
  <2>2. /\ Last(deq[w]) \in Tasks /\ Last(deq[w]) \in Range(deq[w])
        /\ Front(deq[w]) \in Seq(Tasks) /\ NoRepeats(Front(deq[w]))
        /\ Range(Front(deq[w])) = Range(deq[w]) \ {Last(deq[w])}
    BY <1>2, <2>1, TakeEnd
  <2>3. /\ pc[w] = "pop" /\ Take(w, Last(deq[w]))
        /\ deq' = [deq EXCEPT ![w] = Front(deq[w])]
        /\ UNCHANGED <<arg, gq, pending, done, lock, waiting, history>>
    BY <1>2 DEF PopOwn
  <2> QED BY <2>2, <2>3, TakeFromDeque
<1> QED BY <1>1, <1>2

\* A worker steals from another one's deque.
LEMMA StealKeeps ==
  ASSUME IInv, NEW w \in Workers, StealFromOthers(w)
  PROVE  IInv'
<1>1. PICK v \in Workers \ {w} :
        /\ deq[v] # <<>> /\ pc[w] = "steal"
        /\ Take(w, Head(deq[v])) /\ deq' = [deq EXCEPT ![v] = Tail(deq[v])]
        /\ UNCHANGED <<arg, gq, pending, done, lock, waiting, history>>
  BY DEF StealFromOthers
<1>2. deq[v] \in Seq(Tasks) /\ NoRepeats(deq[v]) BY DEF IInv, TypeOK, QueuesInv
<1>3. /\ Head(deq[v]) \in Tasks /\ Head(deq[v]) \in Range(deq[v])
      /\ Tail(deq[v]) \in Seq(Tasks) /\ NoRepeats(Tail(deq[v]))
      /\ Range(Tail(deq[v])) = Range(deq[v]) \ {Head(deq[v])}
  BY <1>1, <1>2, TakeHead
<1> QED BY <1>1, <1>3, TakeFromDeque

\* A worker takes the first task of the global queue.
LEMMA TakeGlobalKeeps ==
  ASSUME IInv, NEW w \in Workers, TakeGlobal(w)
  PROVE  IInv'
<1>1. CASE gq = <<>>
  <2>1. /\ pc' = [pc EXCEPT ![w] = "steal"] /\ pc[w] = "global" /\ w \in Threads
        /\ UNCHANGED <<task, arg, deq, gq, pending, done, lock, waiting, history>>
    BY <1>1 DEF TakeGlobal, Goto, Threads
  <2>2. TypeOK' /\ ControlInv' BY <2>1 DEF IInv, TypeOK, ControlInv, PCs, Busy, history, Threads
  <2>3. /\ \A u \in Threads : (pc'[u] = "enqPush" <=> pc[u] = "enqPush")
        /\ \A v \in Workers : (pc'[v] = "ran" <=> pc[v] = "ran")
    BY <2>1 DEF IInv, TypeOK, Threads
  <2> QED BY <2>1, <2>2, <2>3, QuietKeeps DEF queues
<1>2. CASE gq # <<>>
  <2>1. gq \in Seq(Tasks) /\ NoRepeats(gq) BY DEF IInv, TypeOK, QueuesInv
  <2>2. /\ Head(gq) \in Tasks /\ Head(gq) \in Range(gq)
        /\ Tail(gq) \in Seq(Tasks) /\ NoRepeats(Tail(gq))
        /\ Range(Tail(gq)) = Range(gq) \ {Head(gq)}
    BY <1>2, <2>1, TakeHead
  <2>3. /\ pc[w] = "global" /\ Take(w, Head(gq)) /\ gq' = Tail(gq)
        /\ UNCHANGED <<arg, deq, pending, done, lock, waiting, history>>
    BY <1>2 DEF TakeGlobal
  <2>4. QueuesInv' BY <2>2, <2>3 DEF IInv, QueuesInv, NoRepeats
  <2>5. Head(gq) \in Held(Global) /\ Held(Global)' = Held(Global) \ {Head(gq)}
    BY <2>2, <2>3, HeldNow, HeldNext
  <2>6. deq' \in [Workers -> Seq(Tasks)] BY <2>3 DEF IInv, TypeOK
  <2> QED BY <2>2, <2>3, <2>4, <2>5, <2>6, TakeKeeps DEF history
<1> QED BY <1>1, <1>2

\* The function of a task in a worker's hands is called: it was not called before.
LEMMA RunTaskKeeps ==
  ASSUME IInv, NEW w \in Workers, RunTask(w)
  PROVE  IInv'
<1> USE NoneAssumption DEF IInv
<1> DEFINE x == task[w]
<1>1. /\ pc[w] = "run" /\ x \in Tasks /\ Workers \subseteq Threads
      /\ pc' = [pc EXCEPT ![w] = "ran"] /\ ran' = [ran EXCEPT ![x] = ran[x] + 1]
      /\ UNCHANGED <<task, arg, deq, gq, pending, done, lock, waiting, fresh>>
  BY DEF RunTask, Goto, queues, TypeOK, ControlInv, Busy, Threads
<1>2. pc'[w] = "ran" /\ \A v \in Threads \ {w} : pc'[v] = pc[v]
  BY <1>1 DEF TypeOK
<1>3. TypeOK' BY <1>1 DEF TypeOK, PCs
<1>4. ControlInv' BY <1>1, <1>2 DEF ControlInv, Busy
<1>5. \A h \in Places : Held(h)' = Held(h)
  <2> TAKE h \in Places
  <2>1. \A v \in Threads : Held(SubmitOf(v))' = Held(SubmitOf(v)) BY <1>1, <1>2, Unmoved
  <2> QED BY <1>1, <2>1, Unmoved, Kinds
<1>6. PlacesInv' /\ InFlight' = InFlight
  BY <1>5 DEF PlacesInv, InFlight, Places, SubmitOf, DequeOf, HandsOf, Global
<1>7. QueuesInv' /\ CountInv' BY <1>1, <1>6 DEF QueuesInv, NoRepeats, CountInv
<1>8. HandsOf(w) \in Places /\ x \in Held(HandsOf(w)) BY <1>1, HeldNow DEF Places
<1>9. x \in InFlight BY <1>8 DEF InFlight
<1>10. ~JustRan(x)
  <2> SUFFICES ASSUME NEW v \in Workers, pc[v] = "ran", task[v] = x PROVE FALSE
    BY DEF JustRan
  <2>1. v # w /\ HandsOf(v) # HandsOf(w) BY <1>1, Distinct
  <2>2. HandsOf(v) \in Places /\ x \in Held(HandsOf(v)) BY <1>1, HeldNow DEF Places
  <2> QED BY <1>8, <2>1, <2>2 DEF PlacesInv
<1>11. \A y \in Tasks : JustRan(y)' <=> JustRan(y) \/ y = x
  BY <1>1, <1>2 DEF JustRan
<1>12. x \notin fresh /\ ran[x] = 0 BY <1>1, <1>9, <1>10 DEF RanInv
<1>13. ran'[x] = 1 /\ \A y \in Tasks \ {x} : ran'[y] = ran[y] BY <1>1, <1>12 DEF TypeOK
<1>14. RanInv'
  <2>1. \A y \in fresh' : y \notin InFlight' /\ ran'[y] = 0
    BY <1>1, <1>6, <1>12, <1>13 DEF RanInv, TypeOK
  <2>2. ASSUME NEW y \in Tasks \ fresh'
        PROVE  ran'[y] = IF y \in InFlight' /\ ~JustRan(y)' THEN 0 ELSE 1
    <3>1. CASE y = x BY <1>1, <1>11, <1>13, <3>1
    <3>2. CASE y # x BY <1>1, <1>6, <1>11, <1>13, <3>2 DEF RanInv
    <3> QED BY <3>1, <3>2
  <2>3. \A y \in Tasks \ fresh' :
          ran'[y] = IF y \in InFlight' /\ ~JustRan(y)' THEN 0 ELSE 1
    BY <2>2
  <2> QED BY <2>1, <2>3 DEF RanInv, JustRan
<1> QED BY <1>3, <1>4, <1>6, <1>7, <1>14

\* fetch_sub: the task that ran is in flight no more, and is counted off.
LEMMA FetchSubKeeps ==
  ASSUME IInv, NEW w \in Workers, FetchSub(w)
  PROVE  IInv'
<1> USE NoneAssumption DEF IInv
<1> DEFINE x == task[w]
<1>1. /\ pc[w] = "ran" /\ x \in Tasks /\ Workers \subseteq Threads
      /\ pc' = [pc EXCEPT ![w] = IF pending = 1 THEN "last" ELSE "loop"]
      /\ task' = [task EXCEPT ![w] = None] /\ pending' = pending - 1
      /\ UNCHANGED <<arg, deq, gq, done, lock, waiting, fresh, ran>>
  BY DEF FetchSub, Goto, queues, history, TypeOK, ControlInv, Busy, Threads
<1>2. /\ pc'[w] \in {"last", "loop"} /\ \A v \in Threads \ {w} : pc'[v] = pc[v]
      /\ task'[w] = None /\ \A v \in Workers \ {w} : task'[v] = task[v]
  BY <1>1 DEF TypeOK
<1>3. TypeOK' BY <1>1 DEF TypeOK, PCs
<1>4. ControlInv' BY <1>1, <1>2 DEF ControlInv, Busy
<1>5. HandsOf(w) \in Places BY DEF Places
<1>6. Held(HandsOf(w)) = {x} /\ Held(HandsOf(w))' = {}
  BY <1>1, <1>2, HeldNow, HeldNext
<1>7. \A h \in Places \ {HandsOf(w)} : Held(h)' = Held(h)
  <2> TAKE h \in Places \ {HandsOf(w)}
  <2>1. \A v \in Threads : Held(SubmitOf(v))' = Held(SubmitOf(v)) BY <1>1, <1>2, Unmoved
  <2>2. \A v \in Workers \ {w} : Held(HandsOf(v))' = Held(HandsOf(v)) BY <1>2, Unmoved
  <2> QED BY <1>1, <2>1, <2>2, Unmoved, Kinds
<1>8. PlacesInv' /\ InFlight' = InFlight \ {x} BY <1>5, <1>6, <1>7, Left
<1>9. QueuesInv' BY <1>1 DEF QueuesInv, NoRepeats
<1>10. x \in InFlight BY <1>5, <1>6 DEF InFlight
<1>11. CountInv' BY <1>1, <1>8, <1>10, FS_RemoveElement DEF CountInv
<1>12. JustRan(x) BY <1>1 DEF JustRan
<1>13. x \notin fresh /\ ran[x] = 1 BY <1>1, <1>10, <1>12 DEF RanInv
<1>14. \A y \in Tasks \ {x} : JustRan(y)' <=> JustRan(y)
  BY <1>1, <1>2 DEF JustRan
<1>15. RanInv'
  <2>1. \A y \in fresh' : y \notin InFlight' /\ ran'[y] = 0 BY <1>1, <1>8 DEF RanInv
  <2>2. \A y \in Tasks \ fresh' :
          ran'[y] = IF y \in InFlight' /\ ~JustRan(y)' THEN 0 ELSE 1
    BY <1>1, <1>8, <1>13, <1>14 DEF RanInv
  <2> QED BY <2>1, <2>2 DEF RanInv, JustRan
<1> QED BY <1>3, <1>4, <1>8, <1>9, <1>11, <1>15

\* The steps that neither move a task nor call one.
LEMMA EnqLockKeeps ==
  ASSUME IInv, NEW u \in Threads, EnqLock(u)
  PROVE  IInv'
<1>1. /\ pc[u] = "enqLock" /\ pc' = [pc EXCEPT ![u] = "enqNotify"]
      /\ UNCHANGED <<task, arg, deq, gq, pending, done, lock, waiting, fresh, ran>>
  BY DEF EnqLock, Goto, queues, history
<1>2. TypeOK' /\ ControlInv'
  BY <1>1 DEF IInv, TypeOK, ControlInv, PCs, Busy, Threads
<1>3. /\ \A v \in Threads : (pc'[v] = "enqPush" <=> pc[v] = "enqPush")
      /\ \A w \in Workers : (pc'[w] = "ran" <=> pc[w] = "ran")
  BY <1>1 DEF IInv, TypeOK, Threads
<1> QED BY <1>1, <1>2, <1>3, QuietKeeps DEF queues, history

\* enqueue notifies one waiting thread.
LEMMA EnqNotifyKeeps ==
  ASSUME IInv, NEW u \in Threads, EnqNotify(u)
  PROVE  IInv'
<1> USE NoneAssumption
<1> DEFINE return == IF u \in Workers THEN "run" ELSE "idle"
<1>1. /\ pc[u] = "enqNotify" /\ arg' = [arg EXCEPT ![u] = None]
      /\ UNCHANGED <<task, deq, gq, pending, done, lock, fresh, ran>>
  BY DEF EnqNotify, queues, history
<1>2. Workers \subseteq Threads BY DEF Threads
<1>3. CASE waiting = {} /\ Goto(u, return) /\ UNCHANGED waiting
  <2>1. pc' = [pc EXCEPT ![u] = return] BY <1>3 DEF Goto
  <2>2. pc'[u] = return /\ \A v \in Threads \ {u} : pc'[v] = pc[v]
    BY <2>1 DEF IInv, TypeOK
  <2>3. arg'[u] = None /\ \A v \in Threads \ {u} : arg'[v] = arg[v]
    BY <1>1 DEF IInv, TypeOK
  <2>4. TypeOK' BY <1>1, <1>3, <2>1 DEF IInv, TypeOK, PCs
  <2>5. ControlInv' BY <1>1, <1>2, <1>3, <2>2, <2>3 DEF IInv, ControlInv, Busy
  <2>6. /\ \A v \in Threads : (pc'[v] = "enqPush" <=> pc[v] = "enqPush")
        /\ \A v \in Threads : pc[v] = "enqPush" => arg'[v] = arg[v]
        /\ \A w \in Workers : (pc'[w] = "ran" <=> pc[w] = "ran")
    BY <1>1, <1>2, <2>2, <2>3
  <2> QED BY <1>1, <2>4, <2>5, <2>6, QuietKeeps DEF queues, history
<1>4. ASSUME NEW v \in waiting, waiting' = waiting \ {v},
             pc' = [pc EXCEPT ![u] = return, ![v] = "woken"]
      PROVE  IInv'
  <2>1. v \in Threads /\ pc[v] = "waiting" /\ v # u
    BY <1>1, <1>4 DEF IInv, TypeOK, ControlInv
  <2>2. /\ pc'[u] = return /\ pc'[v] = "woken"
        /\ \A t \in Threads \ {u, v} : pc'[t] = pc[t]
    BY <1>4, <2>1 DEF IInv, TypeOK
  <2>3. arg'[u] = None /\ \A t \in Threads \ {u} : arg'[t] = arg[t]
    BY <1>1 DEF IInv, TypeOK
  <2>4. TypeOK' BY <1>1, <1>4, <2>1 DEF IInv, TypeOK, PCs
  <2>5. ControlInv'
    <3>1. \A w \in Workers : task'[w] # None <=> pc'[w] \in Busy
      BY <1>1, <1>2, <2>1, <2>2 DEF IInv, ControlInv, Busy
    <3>2. \A t \in Threads : pc'[t] = "enqPush" => arg'[t] # None
      BY <2>2, <2>3 DEF IInv, ControlInv
    <3>3. \A t \in waiting' : pc'[t] = "waiting"
      BY <1>1, <1>4, <2>2 DEF IInv, TypeOK, ControlInv
    <3> QED BY <3>1, <3>2, <3>3 DEF ControlInv
  <2>6. /\ \A t \in Threads : (pc'[t] = "enqPush" <=> pc[t] = "enqPush")
        /\ \A t \in Threads : pc[t] = "enqPush" => arg'[t] = arg[t]
        /\ \A w \in Workers : (pc'[w] = "ran" <=> pc[w] = "ran")
    BY <1>1, <1>2, <2>1, <2>2, <2>3
  <2> QED BY <1>1, <2>4, <2>5, <2>6, QuietKeeps DEF queues, history
<1> QED BY <1>3, <1>4 DEF EnqNotify

\* One thread u goes on from l to m, neither of which has to do with tasks.
LEMMA OneGoesOn ==
  ASSUME IInv, NEW u \in Threads, NEW m \in PCs \ (Busy \cup {"waiting"}), pc[u] \notin Busy,
         pc' = [pc EXCEPT ![u] = m],
         waiting' = waiting \ {u} \/ (u \notin waiting /\ waiting' = waiting),
         done' \in BOOLEAN, lock' \in Threads \cup {None},
         UNCHANGED <<task, arg, deq, gq, pending, fresh, ran>>
  PROVE  IInv'
<1>1. pc'[u] = m /\ \A v \in Threads \ {u} : pc'[v] = pc[v] BY DEF IInv, TypeOK
<1>2. Workers \subseteq Threads BY DEF Threads
<1>3. TypeOK' BY DEF IInv, TypeOK
<1>4. ControlInv' BY <1>1, <1>2 DEF IInv, TypeOK, ControlInv, Busy
<1>5. /\ \A v \in Threads : (pc'[v] = "enqPush" <=> pc[v] = "enqPush")
      /\ \A w \in Workers : (pc'[w] = "ran" <=> pc[w] = "ran")
  BY <1>1, <1>2 DEF Busy
<1> QED BY <1>3, <1>4, <1>5, QuietKeeps DEF queues, history

\* run: nothing found, going to sleep, and back.
LEMMA WorkerKeeps ==
  ASSUME IInv, NEW w \in Workers,
         Loop(w) \/ StealFail(w) \/ SleepTest(w) \/ Timeout(w) \/ Expired(w)
  PROVE  IInv'
<1> USE DEF IInv, TypeOK, ControlInv, Goto, queues, history, PCs, Busy
<1>1. w \in Threads BY DEF Threads
<1>2. CASE Loop(w)
  <2>1. pc[w] = "loop" /\ w \notin waiting BY <1>2 DEF Loop
  <2>2. PICK m \in {"exit", "pop"} : pc' = [pc EXCEPT ![w] = m] BY <1>2 DEF Loop
  <2>3. UNCHANGED <<task, arg, deq, gq, pending, done, lock, waiting, fresh, ran>>
    BY <1>2 DEF Loop
  <2>4. m \in PCs \ (Busy \cup {"waiting"}) OBVIOUS
  <2> HIDE DEF IInv
  <2> QED BY <1>1, <2>1, <2>2, <2>3, <2>4, OneGoesOn DEF IInv
<1>3. CASE StealFail(w)
  <2>1. pc[w] = "steal" /\ w \notin waiting BY <1>3 DEF StealFail
  <2> QED BY <1>1, <1>3, <2>1, OneGoesOn DEF StealFail
<1>4. CASE SleepTest(w)
  <2>1. pc[w] \in {"sleep", "woken"} /\ w \notin waiting BY <1>4 DEF SleepTest
  <2>2. PICK m \in {"loop", "block"} : pc' = [pc EXCEPT ![w] = m] BY <1>4 DEF SleepTest
  <2>3. lock' \in Threads \cup {None}
        /\ UNCHANGED <<task, arg, deq, gq, pending, done, waiting, fresh, ran>>
    BY <1>1, <1>4 DEF SleepTest
  <2>4. m \in PCs \ (Busy \cup {"waiting"}) OBVIOUS
  <2> HIDE DEF IInv
  <2> QED BY <1>1, <2>1, <2>2, <2>3, <2>4, OneGoesOn DEF IInv
<1>5. CASE Timeout(w)
  <2>1. /\ pc[w] = "waiting" /\ pc' = [pc EXCEPT ![w] = "expired"]
        /\ waiting' = waiting \ {w}
        /\ UNCHANGED <<task, arg, deq, gq, pending, done, lock, fresh, ran>>
    BY <1>5 DEF Timeout
  <2>2. "expired" \in PCs \ (Busy \cup {"waiting"}) OBVIOUS
  <2>3. done' \in BOOLEAN /\ lock' \in Threads \cup {None} BY <2>1
  <2> HIDE DEF IInv
  <2> QED BY <1>1, <2>1, <2>2, <2>3, OneGoesOn DEF IInv
<1>6. CASE Expired(w)
  <2>1. pc[w] = "expired" /\ w \notin waiting BY <1>6 DEF Expired
  <2> QED BY <1>1, <1>6, <2>1, OneGoesOn DEF Expired
<1> QED BY <1>2, <1>3, <1>4, <1>5, <1>6

\* wait_idle and ~ThreadPool.
LEMMA ClientKeeps ==
  ASSUME IInv, NEW c \in Clients,
         WaitIdle(c) \/ WaitTest(c) \/ DtorDone(c) \/ DtorLock(c) \/ DtorJoin(c)
  PROVE  IInv'
<1> USE DEF IInv, TypeOK, ControlInv, Goto, queues, history, PCs, Busy
<1>1. c \in Threads BY DEF Threads
<1>2. CASE WaitIdle(c)
  <2>1. pc[c] = "idle" /\ c \notin waiting BY <1>2 DEF WaitIdle
  <2> QED BY <1>1, <1>2, <2>1, OneGoesOn DEF WaitIdle
<1>3. CASE WaitTest(c)
  <2>1. pc[c] \in {"wait", "woken"} /\ c \notin waiting BY <1>3 DEF WaitTest
  <2>2. PICK m \in {"idle", "block"} : pc' = [pc EXCEPT ![c] = m] BY <1>3 DEF WaitTest
  <2>3. lock' \in Threads \cup {None}
        /\ UNCHANGED <<task, arg, deq, gq, pending, done, waiting, fresh, ran>>
    BY <1>1, <1>3 DEF WaitTest
  <2>4. m \in PCs \ (Busy \cup {"waiting"}) OBVIOUS
  <2> HIDE DEF IInv
  <2> QED BY <1>1, <2>1, <2>2, <2>3, <2>4, OneGoesOn DEF IInv
<1>4. CASE DtorDone(c)
  <2>1. pc[c] = "idle" /\ c \notin waiting BY <1>4 DEF DtorDone
  <2> QED BY <1>1, <1>4, <2>1, OneGoesOn DEF DtorDone
<1>5. CASE DtorLock(c)
  <2>1. pc[c] = "dtorLock" /\ c \notin waiting BY <1>5 DEF DtorLock
  <2> QED BY <1>1, <1>5, <2>1, OneGoesOn DEF DtorLock
<1>6. CASE DtorJoin(c)
  <2>1. pc[c] = "join" /\ c \notin waiting BY <1>6 DEF DtorJoin
  <2> QED BY <1>1, <1>6, <2>1, OneGoesOn DEF DtorJoin
<1> QED BY <1>2, <1>3, <1>4, <1>5, <1>6

\* A thread blocks on the condition variable.
LEMMA BlockKeeps ==
  ASSUME IInv, NEW u \in Threads, Block(u)
  PROVE  IInv'
<1>1. /\ pc[u] = "block" /\ pc' = [pc EXCEPT ![u] = "waiting"]
      /\ waiting' = waiting \cup {u} /\ lock' = None
      /\ UNCHANGED <<task, arg, deq, gq, pending, done, fresh, ran>>
  BY DEF Block, Goto, queues, history
<1>2. pc'[u] = "waiting" /\ \A v \in Threads \ {u} : pc'[v] = pc[v]
  BY <1>1 DEF IInv, TypeOK
<1>3. TypeOK' BY <1>1 DEF IInv, TypeOK, PCs
<1>4. Workers \subseteq Threads BY DEF Threads
<1>5. ControlInv' BY <1>1, <1>2, <1>4 DEF IInv, TypeOK, ControlInv, Busy
<1>6. /\ \A v \in Threads : (pc'[v] = "enqPush" <=> pc[v] = "enqPush")
      /\ \A w \in Workers : (pc'[w] = "ran" <=> pc[w] = "ran")
  BY <1>1, <1>2, <1>4
<1> QED BY <1>1, <1>3, <1>5, <1>6, QuietKeeps DEF queues, history

\* The last worker, or the destructor, notifies all.
LEMMA NotifyAllKeeps ==
  ASSUME IInv, NEW u \in Threads, NEW l \in {"loop", "join"},
         pc[u] \in {"last", "dtorNotify"}, WakeAll(u, l),
         UNCHANGED <<task, arg, queues, pending, done, lock, history>>
  PROVE  IInv'
<1>1. l \in PCs \ (Busy \cup {"waiting"}) /\ pc[u] \notin Busy BY DEF PCs, Busy
<1>2. /\ pc' \in [Threads -> PCs] /\ waiting' = {} /\ ControlInv'
      /\ \A v \in Threads : (pc'[v] = "enqPush" <=> pc[v] = "enqPush")
      /\ \A w \in Workers : (pc'[w] = "ran" <=> pc[w] = "ran")
  BY <1>1, WakeAllKeeps DEF IInv
<1>3. TypeOK' BY <1>2 DEF IInv, TypeOK, queues, history
<1> QED BY <1>2, <1>3, QuietKeeps

-----------------------------------------------------------------------------
\* The invariant holds of a new pool.
LEMMA InitHolds == Init => IInv
<1> SUFFICES ASSUME Init PROVE IInv OBVIOUS
<1> USE NoneAssumption DEF Init
<1>1. Workers \subseteq Threads BY DEF Threads
<1>2. TypeOK
  <2>1. <<>> \in Seq(Tasks) OBVIOUS
  <2>2. pc \in [Threads -> PCs] BY DEF PCs
  <2>3. deq \in [Workers -> Seq(Tasks)] /\ gq \in Seq(Tasks) BY <2>1
  <2>4. /\ task \in [Workers -> Tasks \cup {None}]
        /\ arg \in [Threads -> Tasks \cup {None}]
        /\ ran \in [Tasks -> Nat]
    OBVIOUS
  <2>5. /\ pending \in Int /\ lock \in Threads \cup {None}
        /\ waiting \subseteq Threads /\ fresh \subseteq Tasks
    OBVIOUS
  <2>6. done \in BOOLEAN OBVIOUS
  <2> QED BY <2>2, <2>3, <2>4, <2>5, <2>6 DEF TypeOK
<1>3. ControlInv BY <1>1 DEF ControlInv, Busy
<1>4. \A h \in Places : Held(h) = {}
  <2>1. Range(<<>>) = {}
    <3> DEFINE e == <<>>
    <3>1. e \in Seq(Tasks) /\ Len(e) = 0 OBVIOUS
    <3> HIDE DEF e
    <3>2. Range(e) = {e[i] : i \in 1 .. Len(e)} BY <3>1, RangeEquality
    <3>3. 1 .. Len(e) = {} BY <3>1
    <3> QED BY <3>2, <3>3 DEF e
  <2>2. \A u \in Threads : pc[u] # "enqPush" OBVIOUS
  <2> QED BY <2>1, <2>2, HeldNow, Kinds
<1>5. InFlight = {} /\ PlacesInv BY <1>4 DEF InFlight, PlacesInv
<1>6. CountInv BY <1>5, FS_EmptySet DEF CountInv
<1>7. QueuesInv BY DEF QueuesInv, NoRepeats
<1>8. RanInv BY <1>5 DEF RanInv
<1> QED BY <1>2, <1>3, <1>5, <1>6, <1>7, <1>8 DEF IInv

\* Every step of a worker or a client keeps the invariant.
LEMMA NextKeeps == IInv /\ [Next]_vars => IInv'
<1> SUFFICES ASSUME IInv, [Next]_vars PROVE IInv' OBVIOUS
<1>1. ASSUME NEW u \in Threads, NEW x \in Tasks, Submit(u, x) PROVE IInv'
  BY <1>1, SubmitKeeps
<1>2. ASSUME NEW u \in Threads, EnqueueStep(u) PROVE IInv'
  BY <1>2, EnqPushKeeps, EnqLockKeeps, EnqNotifyKeeps DEF EnqueueStep
<1>3. ASSUME NEW w \in Workers, RunStep(w) PROVE IInv'
  <2>1. w \in Threads BY DEF Threads
  <2>2. CASE LastNotify(w) BY <2>1, <2>2, NotifyAllKeeps DEF LastNotify
  <2>3. CASE Block(w) BY <2>1, <2>3, BlockKeeps
  <2>4. CASE Loop(w) \/ StealFail(w) \/ SleepTest(w) \/ Timeout(w) \/ Expired(w)
    BY <2>4, WorkerKeeps
  <2> QED
    BY <1>3, <2>2, <2>3, <2>4, PopOwnKeeps, TakeGlobalKeeps, StealKeeps, RunTaskKeeps,
       FetchSubKeeps DEF RunStep
<1>4. ASSUME NEW c \in Clients, WaitIdle(c) \/ DtorDone(c) \/ ClientStep(c) PROVE IInv'
  <2>1. c \in Threads BY DEF Threads
  <2>2. CASE DtorNotify(c) BY <2>1, <2>2, NotifyAllKeeps DEF DtorNotify
  <2>3. CASE Block(c) BY <2>1, <2>3, BlockKeeps
  <2> QED BY <1>4, <2>2, <2>3, ClientKeeps DEF ClientStep
<1>5. CASE UNCHANGED vars
  <2>1. UNCHANGED <<pc, task, arg, deq, gq, pending, done, lock, waiting, fresh, ran>>
    BY <1>5 DEF vars, queues, history
  <2>2. TypeOK' /\ ControlInv' BY <2>1 DEF IInv, TypeOK, ControlInv
  <2> QED BY <2>1, <2>2, QuietKeeps DEF queues, history
<1> QED BY <1>1, <1>2, <1>3, <1>4, <1>5 DEF Next

\* The inductive invariant holds in every reachable state.
THEOREM InvariantHolds == Spec => []IInv
BY InitHolds, NextKeeps, PTL DEF Spec

\* wait_idle: pending_ = 0 is seen only when every submitted task has run, for any
\* number of workers, clients and tasks.
THEOREM IdleMeansDoneHolds == Spec => []IdleMeansDone
<1>1. IInv => IdleMeansDone
  <2> SUFFICES ASSUME IInv, pending = 0, NEW x \in Tasks \ fresh PROVE ran[x] = 1
    BY DEF IdleMeansDone
  <2>1. InFlight = {} BY FS_EmptySet DEF IInv, CountInv
  <2> QED BY <2>1 DEF IInv, RanInv
<1> QED BY <1>1, InvariantHolds, PTL

\* No task is run twice, although it passes through a submit, a deque or the
\* global queue, and the hands of an owner or of a thief.
AtMostOnce == \A x \in Tasks : ran[x] \in {0, 1}

\* AtMostOnce, for any number of workers, clients and tasks.
THEOREM AtMostOnceHolds == Spec => []AtMostOnce
<1>1. IInv => AtMostOnce BY DEF IInv, RanInv, AtMostOnce
<1> QED BY <1>1, InvariantHolds, PTL

=============================================================================
