---------------------------- MODULE SignalsProof ----------------------------
(***************************************************************************)
(* Proofs about the reactive graph, for any nodes, any values and any      *)
(* functions that the assumptions of Signals allow.                        *)
(*                                                                         *)
(* A node that is not DIRTY has kept what it read: its sources still hold  *)
(* those values, or it is still to be marked; a CLEAN one has CLEAN        *)
(* sources, or is still to be marked (ColourInv).  Of a computed it        *)
(* follows, depth by depth, that its value is what the signals make it.    *)
(* The same holds of effects only while none is marked by what it did in   *)
(* its own run (NoneMarkedRunning): markStale passes by a node that is     *)
(* DIRTY, as a running one is, and the end of the run makes it CLEAN.      *)
(*                                                                         *)
(* The order of the module: sequences; frames and types; what each step    *)
(* does; the order of the calls; the queue; the colours; why a function    *)
(* runs again; what a node is worth; the theorems; that no effect is       *)
(* forgotten.                                                              *)
(***************************************************************************)
EXTENDS Signals, WellFoundedInduction, SequenceTheorems, FiniteSetTheorems, TLAPS

-----------------------------------------------------------------------------
(* Induction: a set that holds zero and all successors is that of the      *)
(* naturals.                                                               *)

\* A set of naturals has a least element.
LEMMA LeastOf ==
  ASSUME NEW T \in SUBSET Nat, T # {}
  PROVE  \E x \in T : \A y \in T : x <= y
<1> DEFINE R == OpToRel(<, Nat)
<1>1. IsWellFoundedOn(R, Nat) BY NatLessThanWellFounded
<1> HIDE DEF R
<1>2. \E x \in T : \A y \in T : <<y, x>> \notin R BY <1>1, WFMin
<1>3. \A x, y \in Nat : y < x => <<y, x>> \in R BY DEF R, OpToRel
<1>4. PICK x \in T : \A y \in T : <<y, x>> \notin R BY <1>2
<1>5. ASSUME NEW y \in T PROVE x <= y
  <2>1. ~(y < x) BY <1>3, <1>4
  <2>2. x \in Int /\ y \in Int OBVIOUS
  <2> QED BY <2>1, <2>2
<1> QED BY <1>5

\* Upwards from 0.
LEMMA Upwards ==
  ASSUME NEW T \in SUBSET Nat, 0 \in T, \A n \in T : n + 1 \in T
  PROVE  T = Nat
<1> SUFFICES ASSUME Nat \ T # {} PROVE FALSE OBVIOUS
<1>1. PICK x \in Nat \ T : \A y \in Nat \ T : x <= y BY LeastOf
<1>2. x - 1 \in T BY <1>1
<1> QED BY <1>1, <1>2

-----------------------------------------------------------------------------
(* Sequences without repetitions.                                          *)

Distinct(s) == \A i, j \in 1 .. Len(s) : s[i] = s[j] => i = j

\* What a sequence holds once an element is appended.
LEMMA ContainsAppend ==
  ASSUME NEW S, NEW s \in Seq(S), NEW x \in S
  PROVE  /\ Append(s, x) \in Seq(S)
         /\ \A y : Contains(Append(s, x), y) <=> Contains(s, y) \/ y = x
         /\ Distinct(s) /\ ~Contains(s, x) => Distinct(Append(s, x))
<1>1. /\ Append(s, x) \in Seq(S) /\ Len(Append(s, x)) = Len(s) + 1 /\ Len(s) \in Nat
      /\ \A i \in 1 .. Len(s) : Append(s, x)[i] = s[i]
      /\ Append(s, x)[Len(s) + 1] = x
  BY AppendProperties, LenProperties
<1> DEFINE t == Append(s, x)
<1> HIDE DEF t
<1>2. ASSUME NEW y PROVE Contains(t, y) <=> Contains(s, y) \/ y = x
  BY <1>1 DEF Contains, t
<1>3. ASSUME Distinct(s), ~Contains(s, x) PROVE Distinct(t)
  <2> SUFFICES ASSUME NEW i \in 1 .. Len(t), NEW j \in 1 .. Len(t), t[i] = t[j] PROVE i = j
    BY DEF Distinct
  <2>1. (i \in 1 .. Len(s) \/ i = Len(s) + 1) /\ (j \in 1 .. Len(s) \/ j = Len(s) + 1)
    BY <1>1 DEF t
  <2>2. CASE i \in 1 .. Len(s) /\ j \in 1 .. Len(s) BY <1>1, <1>3, <2>2 DEF Distinct, t
  <2>3. CASE i = Len(s) + 1 /\ j \in 1 .. Len(s) BY <1>1, <1>3, <2>3 DEF Contains, t
  <2>4. CASE j = Len(s) + 1 /\ i \in 1 .. Len(s) BY <1>1, <1>3, <2>4 DEF Contains, t
  <2> QED BY <2>1, <2>2, <2>3, <2>4
<1> QED BY <1>1, <1>2, <1>3 DEF t

\* What two sequences hold together.
LEMMA ContainsConcat ==
  ASSUME NEW S, NEW s \in Seq(S), NEW t \in Seq(S)
  PROVE  /\ s \o t \in Seq(S)
         /\ \A y : Contains(s \o t, y) <=> Contains(s, y) \/ Contains(t, y)
<1>1. /\ s \o t \in Seq(S) /\ Len(s \o t) = Len(s) + Len(t) /\ Len(s) \in Nat /\ Len(t) \in Nat
      /\ \A i \in 1 .. Len(s) + Len(t) : (s \o t)[i] = IF i <= Len(s) THEN s[i] ELSE t[i - Len(s)]
  BY ConcatProperties, LenProperties
<1> DEFINE u == s \o t
<1> HIDE DEF u
<1>2. ASSUME NEW y PROVE Contains(u, y) <=> Contains(s, y) \/ Contains(t, y)
  <2>1. ASSUME Contains(u, y) PROVE Contains(s, y) \/ Contains(t, y)
    <3>1. PICK i \in 1 .. Len(u) : u[i] = y BY <2>1 DEF Contains
    <3>2. CASE i <= Len(s) BY <1>1, <3>1, <3>2 DEF Contains, u
    <3>3. CASE i > Len(s)
      <4>1. i - Len(s) \in 1 .. Len(t) /\ u[i] = t[i - Len(s)] BY <1>1, <3>3 DEF u
      <4> QED BY <3>1, <4>1 DEF Contains
    <3> QED BY <1>1, <3>2, <3>3 DEF u
  <2>2. ASSUME Contains(s, y) PROVE Contains(u, y) BY <1>1, <2>2 DEF Contains, u
  <2>3. ASSUME Contains(t, y) PROVE Contains(u, y)
    <3>1. PICK i \in 1 .. Len(t) : t[i] = y BY <2>3 DEF Contains
    <3>2. i + Len(s) \in 1 .. Len(u) /\ u[i + Len(s)] = t[i] BY <1>1 DEF u
    <3> QED BY <3>1, <3>2 DEF Contains
  <2> QED BY <2>1, <2>2, <2>3
<1> QED BY <1>1, <1>2 DEF u

\* The head, and what is left behind it.
LEMMA ContainsTail ==
  ASSUME NEW S, NEW s \in Seq(S), s # <<>>
  PROVE  /\ Head(s) \in S /\ Tail(s) \in Seq(S) /\ Contains(s, Head(s))
         /\ \A y : Contains(s, y) <=> y = Head(s) \/ Contains(Tail(s), y)
         /\ Distinct(s) => Distinct(Tail(s)) /\ ~Contains(Tail(s), Head(s))
<1>1. /\ Head(s) \in S /\ Tail(s) \in Seq(S) /\ Len(s) \in Nat \ {0} /\ Head(s) = s[1]
      /\ Len(Tail(s)) = Len(s) - 1 /\ \A i \in 1 .. Len(Tail(s)) : Tail(s)[i] = s[i + 1]
  BY HeadTailProperties, LenProperties, EmptySeq
<1> DEFINE t == Tail(s)
<1> HIDE DEF t
<1>2. Contains(s, Head(s)) BY <1>1 DEF Contains
<1>3. ASSUME NEW y PROVE Contains(s, y) <=> y = Head(s) \/ Contains(t, y)
  <2>1. ASSUME Contains(s, y) PROVE y = Head(s) \/ Contains(t, y)
    <3>1. PICK i \in 1 .. Len(s) : s[i] = y BY <2>1 DEF Contains
    <3>2. CASE i = 1 BY <1>1, <3>1, <3>2
    <3>3. CASE i # 1
      <4>1. i - 1 \in 1 .. Len(t) /\ t[i - 1] = s[i] BY <1>1, <3>3 DEF t
      <4> QED BY <3>1, <4>1 DEF Contains
    <3> QED BY <3>2, <3>3
  <2>2. ASSUME Contains(t, y) PROVE Contains(s, y)
    <3>1. PICK i \in 1 .. Len(t) : t[i] = y BY <2>2 DEF Contains
    <3>2. i + 1 \in 1 .. Len(s) BY <1>1 DEF t
    <3> QED BY <1>1, <3>1, <3>2 DEF Contains, t
  <2> QED BY <1>2, <2>1, <2>2
<1>4. ASSUME Distinct(s) PROVE Distinct(t) /\ ~Contains(t, Head(s))
  BY <1>1, <1>4 DEF Distinct, Contains, t
<1> QED BY <1>1, <1>2, <1>3, <1>4 DEF t

\* A set of JavaScript: add.
LEMMA AddFacts ==
  ASSUME NEW S, NEW s \in Seq(S), NEW x \in S
  PROVE  /\ Add(s, x) \in Seq(S)
         /\ \A y : Contains(Add(s, x), y) <=> Contains(s, y) \/ y = x
         /\ Distinct(s) => Distinct(Add(s, x))
BY ContainsAppend DEF Add

\* A set of JavaScript: delete.
LEMMA RemoveFacts ==
  ASSUME NEW S, NEW s \in Seq(S), NEW x, Distinct(s)
  PROVE  /\ RemoveFirst(s, x) \in Seq(S) /\ Distinct(RemoveFirst(s, x))
         /\ \A y : Contains(RemoveFirst(s, x), y) <=> Contains(s, y) /\ y # x
<1>1. CASE ~Contains(s, x)
  <2>1. RemoveFirst(s, x) = s BY <1>1 DEF RemoveFirst, Contains
  <2> QED BY <1>1, <2>1
<1>2. CASE Contains(s, x)
  <2> DEFINE I == {i \in 1 .. Len(s) : s[i] = x}
             p == Min(I)
             t == SubSeq(s, 1, p - 1) \o SubSeq(s, p + 1, Len(s))
  <2>1. SelectInSeq(s, LAMBDA v : v = x) = p BY <1>2 DEF SelectInSeq, Contains
  <2>2. RemoveFirst(s, x) = t BY <1>2, <2>1 DEF RemoveFirst, RemoveAt, Contains
  <2>3. p \in 1 .. Len(s) /\ s[p] = x /\ Len(s) \in Nat
    <3>1. I \in SUBSET Nat /\ I # {} BY <1>2 DEF Contains
    <3>2. \E k \in I : \A y \in I : k <= y BY <3>1, LeastOf
    <3>3. p \in I
      <4> HIDE DEF I
      <4> QED BY <3>2 DEF Min
    <3> QED BY <3>3, LenProperties
  <2> HIDE DEF p, I
  <2>4. /\ SubSeq(s, 1, p - 1) \in Seq(S) /\ Len(SubSeq(s, 1, p - 1)) = p - 1
        /\ \A i \in 1 .. p - 1 : SubSeq(s, 1, p - 1)[i] = s[i]
    BY <2>3, SubSeqProperties
  <2>5. /\ SubSeq(s, p + 1, Len(s)) \in Seq(S) /\ Len(SubSeq(s, p + 1, Len(s))) = Len(s) - p
        /\ \A i \in 1 .. Len(s) - p : SubSeq(s, p + 1, Len(s))[i] = s[i + p]
    BY <2>3, SubSeqProperties
  <2>6. /\ t \in Seq(S) /\ Len(t) = Len(s) - 1
        /\ \A i \in 1 .. Len(s) - 1 : t[i] = IF i < p THEN s[i] ELSE s[i + 1]
    <3> DEFINE a == SubSeq(s, 1, p - 1)
               b == SubSeq(s, p + 1, Len(s))
    <3> HIDE DEF a, b
    <3>1. /\ a \o b \in Seq(S) /\ Len(a \o b) = Len(a) + Len(b)
          /\ \A i \in 1 .. Len(a) + Len(b) : (a \o b)[i] = IF i <= Len(a) THEN a[i] ELSE b[i - Len(a)]
      BY <2>4, <2>5, ConcatProperties DEF a, b
    <3>2. t = a \o b BY DEF a, b
    <3>3. Len(a) = p - 1 /\ Len(b) = Len(s) - p BY <2>4, <2>5 DEF a, b
    <3>4. \A i \in 1 .. p - 1 : a[i] = s[i] BY <2>4 DEF a
    <3>5. \A i \in 1 .. Len(s) - p : b[i] = s[i + p] BY <2>5 DEF b
    <3> HIDE DEF t
    <3>6. ASSUME NEW i \in 1 .. Len(s) - 1 PROVE t[i] = IF i < p THEN s[i] ELSE s[i + 1]
      <4>1. CASE i < p BY <2>3, <3>1, <3>2, <3>3, <3>4, <4>1
      <4>2. CASE i >= p
        <5>1. i - (p - 1) \in 1 .. Len(s) - p BY <2>3, <4>2
        <5>2. t[i] = b[i - (p - 1)] BY <2>3, <3>1, <3>2, <3>3, <4>2
        <5>3. b[i - (p - 1)] = s[i - (p - 1) + p] BY <3>5, <5>1
        <5>4. i - (p - 1) + p = i + 1 BY <2>3
        <5> QED BY <2>3, <4>2, <5>2, <5>3, <5>4
      <4> QED BY <2>3, <4>1, <4>2
    <3>7. t \in Seq(S) /\ Len(t) = p - 1 + (Len(s) - p) BY <3>1, <3>2, <3>3
    <3> QED BY <2>3, <3>6, <3>7
  <2> HIDE DEF t
  <2>7. Distinct(t)
    <3> SUFFICES ASSUME NEW i \in 1 .. Len(t), NEW j \in 1 .. Len(t), t[i] = t[j] PROVE i = j
      BY DEF Distinct
    <3> DEFINE f(k) == IF k < p THEN k ELSE k + 1
    <3>1. f(i) \in 1 .. Len(s) /\ f(j) \in 1 .. Len(s) /\ t[i] = s[f(i)] /\ t[j] = s[f(j)]
      BY <2>3, <2>6
    <3>2. f(i) = f(j) BY <3>1 DEF Distinct
    <3> QED BY <2>3, <2>6, <3>2
  <2>8. ASSUME NEW y PROVE Contains(t, y) <=> Contains(s, y) /\ y # x
    <3>1. ASSUME Contains(t, y) PROVE Contains(s, y) /\ y # x
      <4>1. PICK i \in 1 .. Len(t) : t[i] = y BY <3>1 DEF Contains
      <4>2. PICK k \in 1 .. Len(s) : k # p /\ s[k] = y
        <5>1. CASE i < p
          <6>1. i \in 1 .. Len(s) /\ i # p /\ s[i] = y BY <2>3, <2>6, <4>1, <5>1
          <6> QED BY <6>1
        <5>2. CASE i >= p
          <6>1. i + 1 \in 1 .. Len(s) /\ i + 1 # p /\ s[i + 1] = y BY <2>3, <2>6, <4>1, <5>2
          <6> QED BY <6>1
        <5>3. i < p \/ i >= p BY <2>3, <2>6
        <5> QED BY <5>1, <5>2, <5>3
      <4> QED BY <2>3, <4>2 DEF Contains, Distinct
    <3>2. ASSUME Contains(s, y), y # x PROVE Contains(t, y)
      <4>1. PICK k \in 1 .. Len(s) : s[k] = y BY <3>2 DEF Contains
      <4>2. k # p BY <2>3, <3>2, <4>1
      <4>3. CASE k < p BY <2>3, <2>6, <4>1, <4>3 DEF Contains
      <4>4. CASE k > p
        <5>1. k - 1 \in 1 .. Len(t) /\ t[k - 1] = s[k] BY <2>3, <2>6, <4>1, <4>4
        <5> QED BY <4>1, <5>1 DEF Contains
      <4> QED BY <2>3, <4>2, <4>3, <4>4
    <3> QED BY <3>1, <3>2
  <2> QED BY <2>2, <2>6, <2>7, <2>8
<1> QED BY <1>1, <1>2

-----------------------------------------------------------------------------
(* The stack of calls.                                                     *)

\* The top goes on as f.
LEMMA TopBecomes ==
  ASSUME NEW S, NEW s \in Seq(S), s # <<>>, NEW f \in S
  PROVE  LET t == [s EXCEPT ![Len(s)] = f]
         IN  /\ t \in Seq(S) /\ Len(t) = Len(s) /\ Len(s) \in Nat \ {0} /\ t # <<>>
             /\ Last(t) = f /\ t[Len(s)] = f
             /\ \A i \in 1 .. Len(s) - 1 : t[i] = s[i]
<1>1. Len(s) \in Nat \ {0} /\ Len(s) \in 1 .. Len(s) BY LenProperties, EmptySeq
<1> DEFINE t == [s EXCEPT ![Len(s)] = f]
<1>2. t \in Seq(S) /\ Len(t) = Len(s) /\ \A i \in 1 .. Len(s) : t[i] = IF i = Len(s) THEN f ELSE s[i]
  BY <1>1, ExceptSeq
<1> HIDE DEF t
<1>3. t # <<>> BY <1>1, <1>2, EmptySeq
<1>4. t[Len(s)] = f /\ \A i \in 1 .. Len(s) - 1 : t[i] = s[i] BY <1>1, <1>2
<1>5. Last(t) = f BY <1>2, <1>4 DEF Last
<1> QED BY <1>1, <1>2, <1>3, <1>4, <1>5 DEF t

\* A call f is made.
LEMMA Pushed ==
  ASSUME NEW S, NEW s \in Seq(S), NEW f \in S
  PROVE  LET t == Append(s, f)
         IN  /\ t \in Seq(S) /\ Len(t) = Len(s) + 1 /\ Len(s) \in Nat /\ t # <<>>
             /\ Last(t) = f /\ t[Len(s) + 1] = f
             /\ \A i \in 1 .. Len(s) : t[i] = s[i]
<1> DEFINE t == Append(s, f)
<1>1. t \in Seq(S) /\ Len(t) = Len(s) + 1 /\ Len(s) \in Nat /\ t[Len(s) + 1] = f
      /\ \A i \in 1 .. Len(s) : t[i] = s[i]
  BY AppendProperties, LenProperties
<1> HIDE DEF t
<1>2. t # <<>> BY <1>1, EmptySeq
<1>3. Last(t) = f BY <1>1 DEF Last
<1> QED BY <1>1, <1>2, <1>3 DEF t

\* The top returns.
LEMMA Popped ==
  ASSUME NEW S, NEW s \in Seq(S), s # <<>>
  PROVE  LET t == Front(s)
         IN  /\ t \in Seq(S) /\ Len(t) = Len(s) - 1 /\ Len(s) \in Nat \ {0}
             /\ \A i \in 1 .. Len(s) - 1 : t[i] = s[i]
             /\ t # <<>> => Len(s) > 1 /\ Last(t) = s[Len(s) - 1]
<1>1. Len(s) \in Nat \ {0} BY LenProperties, EmptySeq
<1> DEFINE t == Front(s)
<1>2. t = SubSeq(s, 1, Len(s) - 1) BY DEF Front
<1>3. t \in Seq(S) /\ Len(t) = Len(s) - 1 /\ \A i \in 1 .. Len(s) - 1 : t[i] = s[i]
  <2> HIDE DEF t
  <2>1. /\ SubSeq(s, 1, Len(s) - 1) \in Seq(S) /\ Len(SubSeq(s, 1, Len(s) - 1)) = Len(s) - 1
        /\ \A i \in 1 .. Len(s) - 1 : SubSeq(s, 1, Len(s) - 1)[i] = s[i]
    <3> DEFINE n == Len(s) - 1
    <3>1. n \in Int /\ 1 \in Int /\ \A i \in 1 .. n : s[i] \in S
      BY <1>1, ElementOfSeq
    <3> HIDE DEF n
    <3>2. /\ SubSeq(s, 1, n) \in Seq(S)
          /\ Len(SubSeq(s, 1, n)) = IF 1 <= n THEN n - 1 + 1 ELSE 0
          /\ \A i \in 1 .. n - 1 + 1 : SubSeq(s, 1, n)[i] = s[1 + i - 1]
      BY <3>1, SubSeqProperties
    <3>3. \A i \in 1 .. n : i \in 1 .. n - 1 + 1 /\ 1 + i - 1 = i BY <3>1
    <3>4. \A i \in 1 .. n : SubSeq(s, 1, n)[i] = s[i] BY <3>2, <3>3
    <3>5. n \in Nat BY <1>1 DEF n
    <3>6. Len(SubSeq(s, 1, n)) = n BY <3>2, <3>5
    <3> QED BY <3>2, <3>4, <3>6 DEF n
  <2> QED BY <1>2, <2>1
<1> HIDE DEF t
<1>4. t # <<>> => Len(t) # 0 BY <1>3, EmptySeq
<1>5. t # <<>> => Len(s) > 1 /\ Last(t) = s[Len(s) - 1] BY <1>1, <1>3, <1>4 DEF Last
<1> QED BY <1>1, <1>3, <1>5 DEF t

-----------------------------------------------------------------------------
(* Frames.                                                                 *)

Colours == {CLEAN, CHECK, DIRTY}
Seens == [Readable -> Values \cup {Undefined}]
Frames ==
  [call : {"pull"}, node : Nodes, done : BOOLEAN, left : Seq(Readable)]
    \cup [call : {"run"}, node : Reactions, reading : Readable \cup {Undefined}, wrote : BOOLEAN]
    \cup [call : {"flush"}, left : Seq(Effects)]
    \cup [call : {"mark"}, left : Seq(Reactions \X {CHECK, DIRTY})]

\* What a frame holds, by the kind of call.
LEMMA FrameKinds ==
  ASSUME NEW f \in Frames
  PROVE  /\ f.call \in {"pull", "run", "flush", "mark"}
         /\ f.call = "pull" => f.node \in Nodes /\ f.done \in BOOLEAN /\ f.left \in Seq(Readable)
         /\ f.call = "run" => /\ f.node \in Reactions /\ f.reading \in Readable \cup {Undefined}
                              /\ f.wrote \in BOOLEAN
         /\ f.call = "flush" => f.left \in Seq(Effects)
         /\ f.call = "mark" => f.left \in Seq(Reactions \X {CHECK, DIRTY})
BY DEF Frames

\* A call of updateIfNecessary that goes on to its next source, or has called update.
LEMMA PullFrames ==
  ASSUME NEW f \in Frames, f.call = "pull", NEW l \in Seq(Readable)
  PROVE  /\ LET g == [f EXCEPT !.left = l]
            IN  /\ g \in Frames /\ g.call = "pull" /\ g.node = f.node /\ g.left = l
                /\ g.done = f.done
         /\ LET g == [f EXCEPT !.done = TRUE, !.left = <<>>]
            IN  g \in Frames /\ g.call = "pull" /\ g.node = f.node /\ g.left = <<>> /\ g.done = TRUE
<1>1. f \in [call : {"pull"}, node : Nodes, done : BOOLEAN, left : Seq(Readable)] BY DEF Frames
<1>2. <<>> \in Seq(Readable) BY EmptySeq
<1> QED BY <1>1, <1>2 DEF Frames

\* A running function that reads, has read, or has written.
LEMMA RunFrames ==
  ASSUME NEW f \in Frames, f.call = "run", NEW m \in Readable \cup {Undefined}
  PROVE  /\ LET g == [f EXCEPT !.reading = m]
            IN  /\ g \in Frames /\ g.call = "run" /\ g.node = f.node /\ g.reading = m
                /\ g.wrote = f.wrote
         /\ LET g == [f EXCEPT !.wrote = TRUE]
            IN  /\ g \in Frames /\ g.call = "run" /\ g.node = f.node /\ g.reading = f.reading
                /\ g.wrote = TRUE
<1>1. f \in [call : {"run"}, node : Reactions, reading : Readable \cup {Undefined}, wrote : BOOLEAN]
  BY DEF Frames
<1> QED BY <1>1 DEF Frames

\* A flush that has come to its next effect.
LEMMA FlushFrames ==
  ASSUME NEW f \in Frames, f.call = "flush", NEW l \in Seq(Effects)
  PROVE  LET g == [f EXCEPT !.left = l]
         IN  g \in Frames /\ g.call = "flush" /\ g.left = l
<1>1. f \in [call : {"flush"}, left : Seq(Effects)] BY DEF Frames
<1> QED BY <1>1 DEF Frames

\* A marking that goes on.
LEMMA MarkFrames ==
  ASSUME NEW f \in Frames, f.call = "mark", NEW l \in Seq(Reactions \X {CHECK, DIRTY})
  PROVE  LET g == [f EXCEPT !.left = l]
         IN  g \in Frames /\ g.call = "mark" /\ g.left = l
<1>1. f \in [call : {"mark"}, left : Seq(Reactions \X {CHECK, DIRTY})] BY DEF Frames
<1> QED BY <1>1 DEF Frames

\* The calls that mark the observers.
LEMMA MarksFacts ==
  ASSUME NEW ns \in Seq(Reactions), NEW c \in {CHECK, DIRTY}
  PROVE  /\ Marks(ns, c) \in Seq(Reactions \X {CHECK, DIRTY})
         /\ \A n, d : Contains(Marks(ns, c), <<n, d>>) <=> Contains(ns, n) /\ d = c
<1>1. Len(ns) \in Nat /\ \A i \in 1 .. Len(ns) : ns[i] \in Reactions BY LenProperties, ElementOfSeq
<1> DEFINE T == Reactions \X {CHECK, DIRTY}
           t == Marks(ns, c)
<1>2. t = [i \in 1 .. Len(ns) |-> <<ns[i], c>>] BY DEF Marks
<1>3. \A i \in 1 .. Len(ns) : <<ns[i], c>> \in T BY <1>1
<1> HIDE DEF T, t
<1>4. t \in [1 .. Len(ns) -> T] BY <1>2, <1>3
<1>5. t \in Seq(T) /\ Len(t) = Len(ns)
  <2>1. t \in Seq(T) BY <1>1, <1>4, IsASeq
  <2> QED BY <1>1, <1>4, <2>1, LenProperties
<1>6. ASSUME NEW n, NEW d PROVE Contains(t, <<n, d>>) <=> Contains(ns, n) /\ d = c
  <2>1. ASSUME Contains(t, <<n, d>>) PROVE Contains(ns, n) /\ d = c
    <3>1. PICK i \in 1 .. Len(ns) : t[i] = <<n, d>> BY <1>5, <2>1 DEF Contains
    <3>2. <<ns[i], c>> = <<n, d>> BY <1>2, <3>1
    <3> QED BY <3>2 DEF Contains
  <2>2. ASSUME Contains(ns, n), d = c PROVE Contains(t, <<n, d>>)
    <3>1. PICK i \in 1 .. Len(ns) : ns[i] = n BY <2>2 DEF Contains
    <3>2. t[i] = <<n, d>> BY <1>2, <2>2, <3>1
    <3> QED BY <1>5, <3>2 DEF Contains
  <2> QED BY <2>1, <2>2
<1> QED BY <1>5, <1>6 DEF T, t

-----------------------------------------------------------------------------
(* Types.                                                                  *)

TypeOK ==
  /\ value \in [Nodes -> Values \cup {Undefined}] /\ \A s \in Sigs : value[s] \in Values
  /\ state \in [Nodes -> Colours] /\ \A s \in Sigs : state[s] = CLEAN
  /\ sources \in [Nodes -> Seq(Readable)] /\ observers \in [Nodes -> Seq(Reactions)]
  /\ pendingEffects \in Seq(Effects) /\ batchDepth \in Nat
  /\ stack \in Seq(Frames)
  /\ life \in [Effects -> {"none", "live", "disposed"}]
  /\ saw \in [Reactions -> Seens]
  /\ moved \in SUBSET Reactions /\ lost \in SUBSET Effects

\* The edges are recorded at both ends, once, and lead from computeds downwards.
EdgesInv ==
  /\ \A n, m \in Nodes : Contains(sources[n], m) <=> Contains(observers[m], n)
  /\ \A n \in Nodes : Distinct(observers[n])
  /\ \A n \in Computeds, m \in Readable : Contains(sources[n], m) => Depth(m) < Depth(n)

\* The kinds of nodes, as the assumptions keep them apart.
LEMMA NodeKinds ==
  /\ Nodes = Sigs \cup Computeds \cup Effects /\ Sigs \cap Computeds = {} /\ Sigs \cap Effects = {}
  /\ Computeds \cap Effects = {} /\ Readable \cap Effects = {} /\ Readable \subseteq Nodes
  /\ Reactions \subseteq Nodes /\ Undefined \notin Nodes /\ Undefined \notin Values
  /\ Computeds \subseteq Reactions /\ Effects \subseteq Reactions /\ Reactions \cap Readable = Computeds
  /\ Sigs \subseteq Readable /\ Computeds \subseteq Readable /\ Reactions \cap Sigs = {}
  /\ Reactions = Computeds \cup Effects /\ Readable = Sigs \cup Computeds
  /\ Nodes = Reactions \cup Readable /\ \A n \in Readable : Depth(n) \in Nat
BY NodesAssumption DEF Nodes, Readable, Reactions

\* What the innermost call is.
LEMMA TopFacts ==
  ASSUME TypeOK, ~Idle
  PROVE  /\ stack \in Seq(Frames) /\ stack # <<>> /\ Len(stack) \in Nat \ {0} /\ Top \in Frames
         /\ Top = stack[Len(stack)]
<1>1. stack \in Seq(Frames) /\ stack # <<>> BY DEF TypeOK, Idle
<1>2. Len(stack) \in Nat \ {0} /\ stack[Len(stack)] \in Frames
  BY <1>1, LenProperties, EmptySeq, ElementOfSeq
<1> QED BY <1>1, <1>2 DEF Top, Last

\* The three ways in which the stack changes, most of the time.
LEMMA GoesOnIs ==
  ASSUME TypeOK, ~Idle, NEW f \in Frames, GoesOn(f)
  PROVE  /\ stack' \in Seq(Frames) /\ stack' # <<>> /\ Len(stack') = Len(stack)
         /\ stack'[Len(stack)] = f /\ Top' = f /\ \A i \in 1 .. Len(stack) - 1 : stack'[i] = stack[i]
<1>1. PICK s : s = stack OBVIOUS
<1>2. s \in Seq(Frames) /\ s # <<>> BY <1>1, TopFacts
<1>3. PICK g : g = f OBVIOUS
<1>4. PICK t : t = [s EXCEPT ![Len(s)] = g] OBVIOUS
<1>5. g \in Frames BY <1>3
<1>6. /\ t \in Seq(Frames) /\ Len(t) = Len(s) /\ t # <<>> /\ t[Len(s)] = g
      /\ \A i \in 1 .. Len(s) - 1 : t[i] = s[i]
  BY <1>2, <1>4, <1>5, TopBecomes
<1>7. stack' = t BY <1>1, <1>3, <1>4 DEF GoesOn
<1> QED BY <1>1, <1>3, <1>6, <1>7 DEF Top, Last

\* The innermost call makes another.
LEMMA CallsIs ==
  ASSUME TypeOK, ~Idle, NEW g \in Frames, NEW f \in Frames, Calls(g, f)
  PROVE  /\ stack' \in Seq(Frames) /\ stack' # <<>> /\ Len(stack') = Len(stack) + 1
         /\ stack'[Len(stack)] = g /\ stack'[Len(stack) + 1] = f /\ Top' = f
         /\ \A i \in 1 .. Len(stack) - 1 : stack'[i] = stack[i]
<1>1. PICK s : s = stack OBVIOUS
<1>2. s \in Seq(Frames) /\ s # <<>> BY <1>1, TopFacts
<1>3. PICK h : h = g OBVIOUS
<1>4. PICK k : k = f OBVIOUS
<1>5. PICK t : t = [s EXCEPT ![Len(s)] = h] OBVIOUS
<1>6. PICK u : u = Append(t, k) OBVIOUS
<1>7. h \in Frames /\ k \in Frames BY <1>3, <1>4
<1>8. /\ t \in Seq(Frames) /\ Len(t) = Len(s) /\ Len(s) \in Nat \ {0} /\ t[Len(s)] = h
      /\ \A i \in 1 .. Len(s) - 1 : t[i] = s[i]
  BY <1>2, <1>5, <1>7, TopBecomes
<1>9. /\ u \in Seq(Frames) /\ Len(u) = Len(t) + 1 /\ u # <<>>
      /\ Last(u) = k /\ u[Len(t) + 1] = k
      /\ \A i \in 1 .. Len(t) : u[i] = t[i]
  BY <1>6, <1>7, <1>8, Pushed
<1>10. stack' = u BY <1>1, <1>3, <1>4, <1>5, <1>6 DEF Calls
<1>11. \A i \in 1 .. Len(s) - 1 : u[i] = s[i] BY <1>8, <1>9
<1>12. u[Len(s)] = h BY <1>8, <1>9
<1> QED BY <1>1, <1>3, <1>4, <1>8, <1>9, <1>10, <1>11, <1>12 DEF Top

\* The innermost call returns to the one below it.
LEMMA ReturnsIs ==
  ASSUME TypeOK, ~Idle, Returns
  PROVE  /\ stack' \in Seq(Frames) /\ Len(stack') = Len(stack) - 1
         /\ \A i \in 1 .. Len(stack) - 1 : stack'[i] = stack[i]
         /\ ~Idle' => Len(stack) > 1 /\ Top' = stack[Len(stack) - 1]
<1>1. PICK s : s = stack OBVIOUS
<1>2. s \in Seq(Frames) /\ s # <<>> BY <1>1, TopFacts
<1>3. PICK t : t = Front(s) OBVIOUS
<1>4. /\ t \in Seq(Frames) /\ Len(t) = Len(s) - 1
      /\ \A i \in 1 .. Len(s) - 1 : t[i] = s[i]
      /\ t # <<>> => Len(s) > 1 /\ Last(t) = s[Len(s) - 1]
  BY <1>2, <1>3, Popped
<1>5. stack' = t BY <1>1, <1>3 DEF Returns
<1> QED BY <1>1, <1>4, <1>5 DEF Top, Idle
\* The frames that calls begin with.
LEMMA NewFrames ==
  ASSUME TypeOK
  PROVE  /\ \A n \in Nodes : /\ Pull(n) \in Frames /\ Pull(n).call = "pull" /\ Pull(n).node = n
                             /\ Pull(n).done = FALSE
                             /\ Pull(n).left = IF state[n] = CHECK THEN sources[n] ELSE <<>>
         /\ \A n \in Reactions : /\ Run(n) \in Frames /\ Run(n).call = "run" /\ Run(n).node = n
                                 /\ Run(n).reading = Undefined /\ Run(n).wrote = FALSE
         /\ Flush \in Frames /\ Flush.call = "flush" /\ Flush.left = <<>>
         /\ \A m \in Nodes, c \in {CHECK, DIRTY} :
              /\ Mark(observers[m], c) \in Frames /\ Mark(observers[m], c).call = "mark"
              /\ Mark(observers[m], c).left = Marks(observers[m], c)
              /\ \A n, d : Contains(Marks(observers[m], c), <<n, d>>) <=> Contains(observers[m], n) /\ d = c
<1>1. ASSUME NEW n \in Nodes
      PROVE  /\ Pull(n) \in Frames /\ Pull(n).call = "pull" /\ Pull(n).node = n /\ Pull(n).done = FALSE
             /\ Pull(n).left = IF state[n] = CHECK THEN sources[n] ELSE <<>>
  <2>1. PICK l : l = IF state[n] = CHECK THEN sources[n] ELSE <<>> OBVIOUS
  <2>2. l \in Seq(Readable) BY <2>1, EmptySeq DEF TypeOK
  <2>3. Pull(n) = [call |-> "pull", node |-> n, done |-> FALSE, left |-> l] BY <2>1 DEF Pull
  <2>4. Pull(n) \in [call : {"pull"}, node : Nodes, done : BOOLEAN, left : Seq(Readable)]
    BY <2>2, <2>3
  <2> QED BY <2>1, <2>3, <2>4 DEF Frames
<1>2. ASSUME NEW n \in Reactions
      PROVE  /\ Run(n) \in Frames /\ Run(n).call = "run" /\ Run(n).node = n
             /\ Run(n).reading = Undefined /\ Run(n).wrote = FALSE
  BY DEF Run, Frames
<1>3. Flush \in Frames /\ Flush.call = "flush" /\ Flush.left = <<>> BY EmptySeq DEF Flush, Frames
<1>4. ASSUME NEW m \in Nodes, NEW c \in {CHECK, DIRTY}
      PROVE  /\ Mark(observers[m], c) \in Frames /\ Mark(observers[m], c).call = "mark"
             /\ Mark(observers[m], c).left = Marks(observers[m], c)
             /\ \A n, d : Contains(Marks(observers[m], c), <<n, d>>) <=> Contains(observers[m], n) /\ d = c
  <2>1. PICK ns : ns = observers[m] OBVIOUS
  <2>2. ns \in Seq(Reactions) BY <2>1 DEF TypeOK
  <2>3. /\ Marks(ns, c) \in Seq(Reactions \X {CHECK, DIRTY})
        /\ \A n, d : Contains(Marks(ns, c), <<n, d>>) <=> Contains(ns, n) /\ d = c
    BY <2>2, MarksFacts
  <2>4. Mark(ns, c) \in Frames /\ Mark(ns, c).call = "mark" /\ Mark(ns, c).left = Marks(ns, c)
    BY <2>3 DEF Mark, Frames
  <2> QED BY <2>1, <2>3, <2>4
<1> QED BY <1>1, <1>2, <1>3, <1>4

\* The stack after a first call of the user.
LEMMA FirstCall ==
  ASSUME TypeOK, NEW f \in Frames, stack' = <<f>>
  PROVE  /\ stack' \in Seq(Frames) /\ stack' # <<>> /\ Len(stack') = 1 /\ stack'[1] = f /\ Top' = f
BY DEF Top, Last

\* What set does to the stack.
LEMMA AssignIs ==
  ASSUME TypeOK, NEW s \in Sigs, NEW v \in Values, NEW below \in Seq(Frames), Assign(s, v, below)
  PROVE  LET d == IF batchDepth = 0 THEN Len(below) + 1 ELSE Len(below)
             f == Mark(observers[s], DIRTY)
         IN  /\ stack' \in Seq(Frames) /\ stack' # <<>> /\ Len(stack') = d + 1 /\ Len(below) \in Nat
             /\ stack'[d + 1] = f /\ Top' = f /\ f \in Frames /\ f.call = "mark"
             /\ \A n, c : Contains(f.left, <<n, c>>) <=> Contains(observers[s], n) /\ c = DIRTY
             /\ \A i \in 1 .. Len(below) : stack'[i] = below[i]
             /\ batchDepth = 0 => stack'[d] = Flush
             /\ value' \in [Nodes -> Values \cup {Undefined}] /\ \A t \in Sigs : value'[t] \in Values
             /\ moved' \in SUBSET Reactions
<1>1. PICK b : b = below OBVIOUS
<1>2. PICK f : f = Mark(observers[s], DIRTY) OBVIOUS
<1>3. PICK u : u = Flushing(b, batchDepth) OBVIOUS
<1>4. s \in Nodes /\ Sigs \subseteq Nodes BY NodeKinds
<1>5. f \in Frames /\ f.call = "mark" BY <1>2, <1>4, NewFrames
<1>6. \A n, c : Contains(f.left, <<n, c>>) <=> Contains(observers[s], n) /\ c = DIRTY
  <2>1. DIRTY \in {CHECK, DIRTY} /\ s \in Nodes BY <1>4
  <2>2. \A n, c : Contains(Marks(observers[s], DIRTY), <<n, c>>) <=> Contains(observers[s], n) /\ c = DIRTY
    BY <2>1, NewFrames
  <2>3. f.left = Marks(observers[s], DIRTY) BY <1>2, <2>1, NewFrames
  <2> SUFFICES ASSUME NEW n, NEW c
               PROVE  Contains(f.left, <<n, c>>) <=> Contains(observers[s], n) /\ c = DIRTY
    OBVIOUS
  <2>4. Contains(Marks(observers[s], DIRTY), <<n, c>>) <=> Contains(observers[s], n) /\ c = DIRTY
    BY <2>2
  <2> QED BY <2>3, <2>4
<1>7. b \in Seq(Frames) /\ Len(b) \in Nat BY <1>1, LenProperties
<1>8. PICK d : d = IF batchDepth = 0 THEN Len(b) + 1 ELSE Len(b) OBVIOUS
<1>9. /\ u \in Seq(Frames) /\ Len(u) = d /\ \A i \in 1 .. Len(b) : u[i] = b[i]
      /\ batchDepth = 0 => u[d] = Flush
  <2>1. CASE batchDepth = 0
    <3>1. u = Append(b, Flush) BY <1>3, <2>1 DEF Flushing
    <3>2. Flush \in Frames BY NewFrames
    <3> QED BY <1>7, <1>8, <2>1, <3>1, <3>2, Pushed
  <2>2. CASE batchDepth # 0 BY <1>3, <1>7, <1>8, <2>2 DEF Flushing
  <2> QED BY <2>1, <2>2
<1>10. PICK t : t = Append(u, f) OBVIOUS
<1>11. /\ t \in Seq(Frames) /\ Len(t) = Len(u) + 1 /\ t # <<>>
       /\ Last(t) = f /\ t[Len(u) + 1] = f
       /\ \A i \in 1 .. Len(u) : t[i] = u[i]
  BY <1>5, <1>9, <1>10, Pushed
<1>12. stack' = t BY <1>1, <1>2, <1>3, <1>10 DEF Assign
<1>13. \A i \in 1 .. Len(b) : t[i] = b[i] BY <1>7, <1>8, <1>9, <1>11
<1>14. batchDepth = 0 => t[d] = Flush BY <1>7, <1>8, <1>9, <1>11
<1>15. /\ value' \in [Nodes -> Values \cup {Undefined}] /\ \A x \in Sigs : value'[x] \in Values
       /\ moved' \in SUBSET Reactions
  BY <1>4 DEF Assign, TypeOK, ReadersOf
<1> QED BY <1>1, <1>2, <1>5, <1>6, <1>7, <1>8, <1>9, <1>11, <1>12, <1>13, <1>14, <1>15 DEF Top

\* What the function on top of the stack does next.
LEMMA RunFacts ==
  ASSUME TypeOK, In("run")
  PROVE  /\ ~Idle /\ Top \in Frames /\ Top.call = "run" /\ Top.node \in Reactions /\ Top.wrote \in BOOLEAN
         /\ Top.reading \in Readable \cup {Undefined}
         /\ saw[Top.node] \in Seens
         /\ LET next == NextOp(Top)
            IN  \/ /\ next.op = "read" \/ (next.op = "peek" /\ Top.node \in Effects)
                   /\ next.node \in Readable
                   /\ Top.node \in Computeds => /\ saw[Top.node][next.node] = Undefined
                                                /\ Depth(next.node) < Depth(Top.node)
                \/ Top.node \in Effects /\ next.op = "write" /\ next.node \in Sigs /\ next.to \in Values
                \/ next.op = "return" /\ (Top.node \in Computeds => next.to \in Values)
                \/ next.op = "throw"
<1>1. ~Idle /\ Top.call = "run" BY DEF In
<1>2. Top \in Frames BY <1>1, TopFacts
<1>3. /\ Top.node \in Reactions /\ Top.wrote \in BOOLEAN /\ Top.reading \in Readable \cup {Undefined}
  BY <1>1, <1>2, FrameKinds
<1>4. saw[Top.node] \in Seens BY <1>3 DEF TypeOK
<1>5. PICK n : n = Top.node OBVIOUS
<1>6. PICK seen : seen = saw[n] OBVIOUS
<1>7. PICK wrote : wrote = Top.wrote OBVIOUS
<1>8. n \in Reactions /\ seen \in [Readable -> Values \cup {Undefined}] /\ wrote \in BOOLEAN
  BY <1>3, <1>4, <1>5, <1>6, <1>7 DEF Seens
<1>9. PICK next : next = Body(n, seen, wrote) OBVIOUS
<1>10. \/ /\ next.op \in IF n \in Computeds THEN {"read"} ELSE {"read", "peek"}
          /\ next.node \in Readable
          /\ n \in Computeds => seen[next.node] = Undefined /\ Depth(next.node) < Depth(n)
       \/ n \in Effects /\ next.op = "write" /\ next.node \in Sigs /\ next.to \in Values
       \/ next.op = "return" /\ (n \in Computeds => next.to \in Values)
       \/ next.op = "throw"
  BY <1>8, <1>9, BodyAssumption
<1>11. next = NextOp(Top) BY <1>5, <1>6, <1>7, <1>9 DEF NextOp
<1>12. n \notin Computeds => n \in Effects BY <1>8, NodeKinds
<1> QED BY <1>1, <1>2, <1>3, <1>4, <1>5, <1>6, <1>10, <1>11, <1>12
\* update and dispose take a node off its sources.
LEMMA DetachedIs ==
  ASSUME TypeOK, EdgesInv, NEW n \in Reactions
  PROVE  /\ Detached(n) \in [Nodes -> Seq(Reactions)]
         /\ \A m \in Nodes : Distinct(Detached(n)[m])
         /\ \A m \in Nodes : \A k : Contains(Detached(n)[m], k) <=> Contains(observers[m], k) /\ k # n
<1> SUFFICES ASSUME NEW m \in Nodes
             PROVE  /\ Detached(n)[m] \in Seq(Reactions) /\ Distinct(Detached(n)[m])
                    /\ \A k : Contains(Detached(n)[m], k) <=> Contains(observers[m], k) /\ k # n
  BY DEF Detached
<1>1. PICK s : s = observers[m] OBVIOUS
<1>2. s \in Seq(Reactions) /\ Distinct(s) BY <1>1 DEF TypeOK, EdgesInv
<1>3. Contains(sources[n], m) <=> Contains(s, n) BY <1>1, NodeKinds DEF EdgesInv
<1>4. Detached(n)[m] = IF Contains(sources[n], m) THEN RemoveFirst(s, n) ELSE s BY <1>1 DEF Detached
<1>5. CASE Contains(s, n)
  <2>1. /\ RemoveFirst(s, n) \in Seq(Reactions) /\ Distinct(RemoveFirst(s, n))
        /\ \A k : Contains(RemoveFirst(s, n), k) <=> Contains(s, k) /\ k # n
    BY <1>2, RemoveFacts
  <2> QED BY <1>1, <1>3, <1>4, <1>5, <2>1
<1>6. CASE ~Contains(s, n) BY <1>1, <1>2, <1>3, <1>4, <1>6
<1> QED BY <1>5, <1>6

\* The empty sequence holds nothing.
LEMMA Empty == \A x : ~Contains(<<>>, x)
BY DEF Contains

\* update() and dispose() leave no edge at the node, and every other edge in both directions.
LEMMA EdgesCut ==
  ASSUME TypeOK, EdgesInv, NEW n \in Reactions, sources' = [sources EXCEPT ![n] = <<>>],
         observers' = Detached(n) \/ (n \in Effects /\ observers' = [Detached(n) EXCEPT ![n] = <<>>])
  PROVE  /\ sources' \in [Nodes -> Seq(Readable)] /\ observers' \in [Nodes -> Seq(Reactions)]
         /\ EdgesInv'
         /\ sources'[n] = <<>> /\ \A m \in Nodes \ {n} : sources'[m] = sources[m]
         /\ \A m \in Readable : \A k : Contains(observers'[m], k) <=> Contains(observers[m], k) /\ k # n
<1>1. n \in Nodes BY NodeKinds
<1>2. /\ sources' \in [Nodes -> Seq(Readable)]
      /\ sources'[n] = <<>> /\ \A m \in Nodes \ {n} : sources'[m] = sources[m]
  BY <1>1, EmptySeq DEF TypeOK
<1>3. /\ Detached(n) \in [Nodes -> Seq(Reactions)]
      /\ \A m \in Nodes : Distinct(Detached(n)[m])
      /\ \A m \in Nodes : \A k : Contains(Detached(n)[m], k) <=> Contains(observers[m], k) /\ k # n
  BY DetachedIs
<1>4. ASSUME n \in Effects, NEW k \in Nodes PROVE ~Contains(observers[n], k)
  <2>1. sources[k] \in Seq(Readable) BY DEF TypeOK
  <2>2. \A i \in 1 .. Len(sources[k]) : sources[k][i] \in Readable BY <2>1, ElementOfSeq
  <2>3. ~Contains(sources[k], n) BY <1>4, <2>2, NodeKinds DEF Contains
  <2> QED BY <1>1, <2>3 DEF EdgesInv
<1>5. /\ observers' \in [Nodes -> Seq(Reactions)]
      /\ \A m \in Nodes : Distinct(observers'[m])
      /\ \A m \in Nodes, k \in Nodes : Contains(observers'[m], k) <=> Contains(observers[m], k) /\ k # n
      /\ \A m \in Readable : \A k : Contains(observers'[m], k) <=> Contains(observers[m], k) /\ k # n
  <2>1. CASE observers' = Detached(n) BY <1>3, <2>1, NodeKinds
  <2>2. CASE n \in Effects /\ observers' = [Detached(n) EXCEPT ![n] = <<>>]
    <3>1. observers'[n] = <<>> /\ \A m \in Nodes \ {n} : observers'[m] = Detached(n)[m]
      BY <1>1, <1>3, <2>2
    <3>2. observers' \in [Nodes -> Seq(Reactions)] BY <1>1, <1>3, <2>2, EmptySeq
    <3>3. Distinct(<<>>) BY DEF Distinct
    <3>4. ASSUME NEW m \in Nodes, NEW k \in Nodes
          PROVE  Contains(observers'[m], k) <=> Contains(observers[m], k) /\ k # n
      <4>1. CASE m = n BY <1>4, <2>2, <3>1, <4>1, Empty
      <4>2. CASE m # n BY <1>3, <3>1, <4>2
      <4> QED BY <4>1, <4>2
    <3>5. \A m \in Readable : m \in Nodes \ {n} BY <2>2, NodeKinds
    <3>6. \A m \in Readable : \A k : Contains(observers'[m], k) <=> Contains(observers[m], k) /\ k # n
      BY <1>3, <3>1, <3>5
    <3>7. \A m \in Nodes : Distinct(observers'[m]) BY <1>3, <3>1, <3>3
    <3> QED BY <3>2, <3>4, <3>6, <3>7
  <2> QED BY <2>1, <2>2
<1>6. EdgesInv'
  <2>1. ASSUME NEW k \in Nodes, NEW m \in Nodes
        PROVE  Contains(sources'[k], m) <=> Contains(observers'[m], k)
    <3>1. CASE k = n BY <1>2, <1>5, <3>1, Empty
    <3>2. CASE k # n BY <1>2, <1>5, <3>2 DEF EdgesInv
    <3> QED BY <3>1, <3>2
  <2>2. ASSUME NEW k \in Computeds, NEW m \in Readable, Contains(sources'[k], m)
        PROVE  Depth(m) < Depth(k)
    <3>1. k # n BY <1>2, <2>2, Empty
    <3>2. sources'[k] = sources[k] BY <1>2, <3>1, NodeKinds
    <3> QED BY <2>2, <3>2 DEF EdgesInv
  <2> QED BY <1>5, <2>1, <2>2 DEF EdgesInv
<1> QED BY <1>2, <1>5, <1>6

\* get adds an edge.
LEMMA EdgesAdded ==
  ASSUME TypeOK, EdgesInv, NEW n \in Reactions, NEW m \in Readable,
         n \in Computeds => Depth(m) < Depth(n),
         sources' = [sources EXCEPT ![n] = Add(@, m)],
         observers' = [observers EXCEPT ![m] = Add(@, n)]
  PROVE  /\ sources' \in [Nodes -> Seq(Readable)] /\ observers' \in [Nodes -> Seq(Reactions)]
         /\ EdgesInv'
         /\ \A k \in Nodes \ {n} : sources'[k] = sources[k]
         /\ \A k : Contains(sources'[n], k) <=> Contains(sources[n], k) \/ k = m
<1>1. n \in Nodes /\ m \in Nodes BY NodeKinds
<1>2. PICK s : s = sources[n] OBVIOUS
<1>3. PICK o : o = observers[m] OBVIOUS
<1>4. s \in Seq(Readable) /\ o \in Seq(Reactions) BY <1>1, <1>2, <1>3 DEF TypeOK
<1>5. /\ Add(s, m) \in Seq(Readable) /\ \A y : Contains(Add(s, m), y) <=> Contains(s, y) \/ y = m
  BY <1>4, AddFacts
<1>6. /\ Add(o, n) \in Seq(Reactions) /\ \A y : Contains(Add(o, n), y) <=> Contains(o, y) \/ y = n
      /\ Distinct(o) => Distinct(Add(o, n))
  BY <1>4, AddFacts
<1>7. /\ sources'[n] = Add(s, m) /\ \A k \in Nodes \ {n} : sources'[k] = sources[k]
      /\ sources' \in [Nodes -> Seq(Readable)]
  BY <1>1, <1>2, <1>5 DEF TypeOK
<1>8. /\ observers'[m] = Add(o, n) /\ \A k \in Nodes \ {m} : observers'[k] = observers[k]
      /\ observers' \in [Nodes -> Seq(Reactions)]
  BY <1>1, <1>3, <1>6 DEF TypeOK
<1>9. \A k : Contains(sources'[n], k) <=> Contains(sources[n], k) \/ k = m BY <1>2, <1>5, <1>7
<1>10. \A k : Contains(observers'[m], k) <=> Contains(observers[m], k) \/ k = n BY <1>3, <1>6, <1>8
<1>11. \A k \in Nodes : Distinct(observers'[k]) BY <1>3, <1>6, <1>8 DEF EdgesInv
<1>12. ASSUME NEW k \in Nodes, NEW x \in Nodes
       PROVE  Contains(sources'[k], x) <=> Contains(observers'[x], k)
  <2>1. Contains(sources[k], x) <=> Contains(observers[x], k) BY DEF EdgesInv
  <2>2. CASE k = n /\ x = m BY <1>9, <1>10, <2>2
  <2>3. CASE k = n /\ x # m BY <1>8, <1>9, <2>1, <2>3
  <2>4. CASE k # n /\ x = m BY <1>7, <1>10, <2>1, <2>4
  <2>5. CASE k # n /\ x # m BY <1>7, <1>8, <2>1, <2>5
  <2> QED BY <2>2, <2>3, <2>4, <2>5
<1>13. ASSUME NEW k \in Computeds, NEW x \in Readable, Contains(sources'[k], x)
       PROVE  Depth(x) < Depth(k)
  <2>1. k \in Nodes BY NodeKinds
  <2>2. CASE k = n /\ x = m BY <2>2
  <2>3. CASE k = n /\ x # m BY <1>9, <1>13, <2>3 DEF EdgesInv
  <2>4. CASE k # n BY <1>7, <1>13, <2>1, <2>4 DEF EdgesInv
  <2> QED BY <2>2, <2>3, <2>4
<1> QED BY <1>7, <1>8, <1>9, <1>11, <1>12, <1>13 DEF EdgesInv
\* Types and edges are kept.
LEMMA SameEdges ==
  ASSUME EdgesInv, UNCHANGED graph
  PROVE  EdgesInv'
BY DEF EdgesInv, graph

\* The call of markStale that comes next.
LEMMA MarkHead ==
  ASSUME TypeOK, In("mark"), Top.left # <<>>
  PROVE  LET n == Head(Top.left)[1]
             c == Head(Top.left)[2]
         IN  /\ n \in Reactions /\ c \in {CHECK, DIRTY} /\ Head(Top.left) = <<n, c>>
             /\ Tail(Top.left) \in Seq(Reactions \X {CHECK, DIRTY})
             /\ \A x : Contains(Top.left, x) <=> x = <<n, c>> \/ Contains(Tail(Top.left), x)
<1>1. ~Idle /\ Top.call = "mark" BY DEF In
<1>2. Top \in Frames BY <1>1, TopFacts
<1>3. Top.left \in Seq(Reactions \X {CHECK, DIRTY}) BY <1>1, <1>2, FrameKinds
<1>4. PICK l : l = Top.left OBVIOUS
<1>5. l \in Seq(Reactions \X {CHECK, DIRTY}) /\ l # <<>> BY <1>3, <1>4
<1>6. /\ Head(l) \in Reactions \X {CHECK, DIRTY} /\ Tail(l) \in Seq(Reactions \X {CHECK, DIRTY})
      /\ \A x : Contains(l, x) <=> x = Head(l) \/ Contains(Tail(l), x)
  BY <1>5, ContainsTail
<1>7. Head(l) = <<Head(l)[1], Head(l)[2]>> /\ Head(l)[1] \in Reactions /\ Head(l)[2] \in {CHECK, DIRTY}
  BY <1>6
<1> QED BY <1>4, <1>6, <1>7

\* A step of marking: either the node is as stale already, or it is marked and its
\* observers are to be marked.
LEMMA MarkStaleIs ==
  ASSUME TypeOK, MarkStale
  PROVE  LET n == Head(Top.left)[1]
             c == Head(Top.left)[2]
         IN  /\ In("mark") /\ Top.left # <<>> /\ n \in Reactions /\ c \in {CHECK, DIRTY}
             /\ \A x : Contains(Top.left, x) <=> x = <<n, c>> \/ Contains(Tail(Top.left), x)
             /\ stack' \in Seq(Frames) /\ stack' # <<>> /\ Len(stack') = Len(stack)
             /\ Len(stack) \in Nat \ {0}
             /\ stack'[Len(stack)] = Top' /\ Top'.call = "mark"
             /\ \A i \in 1 .. Len(stack) - 1 : stack'[i] = stack[i]
             /\ \/ /\ state[n] >= c /\ Top'.left = Tail(Top.left)
                   /\ UNCHANGED <<state, pendingEffects>>
                \/ /\ ~(state[n] >= c) /\ state' = [state EXCEPT ![n] = c] /\ Queue(n, c)
                   /\ \A x : Contains(Top'.left, x) <=>
                        (\E k \in Reactions : x = <<k, CHECK>> /\ Contains(observers[n], k))
                          \/ Contains(Tail(Top.left), x)
             /\ UNCHANGED <<calls, value, graph, batchDepth, life, saw, history>>
<1>1. In("mark") /\ Top.left # <<>> BY DEF MarkStale
<1> DEFINE n == Head(Top.left)[1]
           c == Head(Top.left)[2]
           rest == Tail(Top.left)
<1>2. /\ n \in Reactions /\ c \in {CHECK, DIRTY}
      /\ rest \in Seq(Reactions \X {CHECK, DIRTY})
      /\ \A x : Contains(Top.left, x) <=> x = <<n, c>> \/ Contains(rest, x)
  BY <1>1, MarkHead
<1>3. ~Idle /\ Top.call = "mark" BY <1>1 DEF In
<1>4. Top \in Frames /\ Len(stack) \in Nat \ {0} BY <1>3, TopFacts
<1>5. /\ \/ /\ state[n] >= c /\ GoesOn([Top EXCEPT !.left = rest]) /\ UNCHANGED <<state, pendingEffects>>
         \/ /\ ~(state[n] >= c) /\ state' = [state EXCEPT ![n] = c] /\ Queue(n, c)
            /\ GoesOn([Top EXCEPT !.left = Marks(observers[n], CHECK) \o rest])
      /\ UNCHANGED <<calls, value, graph, batchDepth, life, saw, history>>
  BY DEF MarkStale
<1> HIDE DEF n, c, rest
<1>6. CASE state[n] >= c /\ GoesOn([Top EXCEPT !.left = rest]) /\ UNCHANGED <<state, pendingEffects>>
  <2>1. PICK f : f = [Top EXCEPT !.left = rest] OBVIOUS
  <2>2. f \in Frames /\ f.call = "mark" /\ f.left = rest BY <1>2, <1>3, <1>4, <2>1, MarkFrames
  <2>3. /\ stack' \in Seq(Frames) /\ stack' # <<>> /\ Len(stack') = Len(stack)
        /\ stack'[Len(stack)] = f /\ Top' = f /\ \A i \in 1 .. Len(stack) - 1 : stack'[i] = stack[i]
    BY <1>3, <1>6, <2>1, <2>2, GoesOnIs
  <2> QED BY <1>1, <1>2, <1>4, <1>5, <1>6, <2>2, <2>3 DEF n, c, rest
<1>7. CASE /\ ~(state[n] >= c) /\ state' = [state EXCEPT ![n] = c] /\ Queue(n, c)
           /\ GoesOn([Top EXCEPT !.left = Marks(observers[n], CHECK) \o rest])
  <2>1. PICK o : o = observers[n] OBVIOUS
  <2>2. o \in Seq(Reactions) BY <1>2, <2>1, NodeKinds DEF TypeOK
  <2>3. /\ Marks(o, CHECK) \in Seq(Reactions \X {CHECK, DIRTY})
        /\ \A k, d : Contains(Marks(o, CHECK), <<k, d>>) <=> Contains(o, k) /\ d = CHECK
    BY <2>2, MarksFacts
  <2>4. PICK l : l = Marks(o, CHECK) \o rest OBVIOUS
  <2>5. PICK a : a = Marks(o, CHECK) OBVIOUS
  <2>6. PICK b : b = rest OBVIOUS
  <2>7. a \in Seq(Reactions \X {CHECK, DIRTY}) /\ b \in Seq(Reactions \X {CHECK, DIRTY})
    BY <1>2, <2>3, <2>5, <2>6
  <2>8. /\ a \o b \in Seq(Reactions \X {CHECK, DIRTY})
        /\ \A y : Contains(a \o b, y) <=> Contains(a, y) \/ Contains(b, y)
    BY <2>7, ContainsConcat
  <2>9. /\ l \in Seq(Reactions \X {CHECK, DIRTY})
        /\ \A x : Contains(l, x) <=> Contains(a, x) \/ Contains(rest, x)
    BY <2>4, <2>5, <2>6, <2>8
  <2>10. PICK f : f = [Top EXCEPT !.left = l] OBVIOUS
  <2>11. f \in Frames /\ f.call = "mark" /\ f.left = l BY <1>3, <1>4, <2>9, <2>10, MarkFrames
  <2>12. /\ stack' \in Seq(Frames) /\ stack' # <<>> /\ Len(stack') = Len(stack)
         /\ stack'[Len(stack)] = f /\ Top' = f /\ \A i \in 1 .. Len(stack) - 1 : stack'[i] = stack[i]
    BY <1>3, <1>7, <2>1, <2>4, <2>10, <2>11, GoesOnIs
  <2>13. ASSUME NEW x
         PROVE  Contains(a, x) <=> \E k \in Reactions : x = <<k, CHECK>> /\ Contains(o, k)
    <3>1. ASSUME Contains(a, x) PROVE \E k \in Reactions : x = <<k, CHECK>> /\ Contains(o, k)
      <4>1. x \in Reactions \X {CHECK, DIRTY} BY <2>7, <3>1, ElementOfSeq DEF Contains
      <4>2. PICK k \in Reactions, d \in {CHECK, DIRTY} : x = <<k, d>> BY <4>1
      <4>3. Contains(o, k) /\ d = CHECK BY <2>3, <2>5, <3>1, <4>2
      <4> QED BY <4>2, <4>3
    <3>2. ASSUME NEW k \in Reactions, x = <<k, CHECK>>, Contains(o, k) PROVE Contains(a, x)
      BY <2>3, <2>5, <3>2
    <3> QED BY <3>1, <3>2
  <2>14. \A x : Contains(Top'.left, x) <=>
           (\E k \in Reactions : x = <<k, CHECK>> /\ Contains(observers[n], k)) \/ Contains(rest, x)
    BY <2>1, <2>9, <2>11, <2>12, <2>13
  <2> QED BY <1>1, <1>2, <1>4, <1>5, <1>7, <2>11, <2>12, <2>14 DEF n, c, rest
<1> QED BY <1>5, <1>6, <1>7

\* Every step keeps the types and the edges.
LEMMA TypeKeeps ==
  ASSUME TypeOK, EdgesInv, Next
  PROVE  TypeOK' /\ EdgesInv'
<1> USE NodeKinds
<1>1. ASSUME NEW s \in Sigs, NEW v \in Domain(s), Set(s, v) PROVE TypeOK' /\ EdgesInv'
  <2>1. v \in Values BY NodesAssumption
  <2>2. stack \in Seq(Frames) /\ Assign(s, v, stack) BY <1>1 DEF Set, TypeOK
  <2>3. /\ stack' \in Seq(Frames) /\ value' \in [Nodes -> Values \cup {Undefined}]
        /\ \A t \in Sigs : value'[t] \in Values
        /\ moved' \in SUBSET Reactions
    BY <2>1, <2>2, AssignIs
  <2> QED BY <1>1, <2>3, SameEdges DEF Set, TypeOK, graph
<1>2. ASSUME NEW n \in Computeds, Read(n) PROVE TypeOK' /\ EdgesInv'
  <2>1. Pull(n) \in Frames /\ stack' = <<Pull(n)>> BY <1>2, NewFrames DEF Read
  <2>2. stack' \in Seq(Frames) BY <2>1, FirstCall
  <2> QED BY <1>2, <2>2, SameEdges DEF Read, TypeOK, graph, history
<1>3. ASSUME NEW e \in Effects, CreateEffect(e) PROVE TypeOK' /\ EdgesInv'
  <2>1. Pull(e) \in Frames BY NewFrames
  <2>2. stack' \in Seq(Frames) BY <1>3, <2>1, FirstCall DEF CreateEffect, TypeOK
  <2>3. pendingEffects' \in Seq(Effects)
    <3>1. PICK p : p = pendingEffects OBVIOUS
    <3>2. p \in Seq(Effects) BY <3>1 DEF TypeOK
    <3>3. Append(p, e) \in Seq(Effects) BY <3>2, ContainsAppend
    <3> QED BY <1>3, <3>1, <3>2, <3>3 DEF CreateEffect
  <2> QED BY <1>3, <2>2, <2>3, SameEdges DEF CreateEffect, TypeOK, graph, history
<1>4. ASSUME NEW e \in Effects, Dispose(e) PROVE TypeOK' /\ EdgesInv'
  <2>1. /\ sources' \in [Nodes -> Seq(Readable)] /\ observers' \in [Nodes -> Seq(Reactions)]
        /\ EdgesInv'
    BY <1>4, EdgesCut DEF Dispose
  <2>2. state' \in [Nodes -> Colours] /\ \A s \in Sigs : state'[s] = CLEAN
    BY <1>4 DEF Dispose, TypeOK, Colours
  <2> QED BY <1>4, <2>1, <2>2 DEF Dispose, TypeOK, history
<1>5. CASE BatchBegin BY <1>5, SameEdges DEF BatchBegin, TypeOK, graph, history
<1>6. CASE BatchEnd
  <2>1. Append(stack, Flush) \in Seq(Frames) BY NewFrames, Pushed DEF TypeOK
  <2>2. stack' \in Seq(Frames) BY <1>6, <2>1 DEF BatchEnd, Flushing, TypeOK
  <2>3. batchDepth' \in Nat BY <1>6 DEF BatchEnd, TypeOK
  <2> QED BY <1>6, <2>2, <2>3, SameEdges DEF BatchEnd, TypeOK, graph, history
<1>7. CASE MarkStale
  <2> DEFINE n == Head(Top.left)[1]
             c == Head(Top.left)[2]
  <2>1. /\ n \in Reactions /\ c \in {CHECK, DIRTY} /\ stack' \in Seq(Frames)
        /\ \/ UNCHANGED <<state, pendingEffects>>
           \/ state' = [state EXCEPT ![n] = c] /\ Queue(n, c)
        /\ UNCHANGED <<calls, value, graph, batchDepth, life, saw, history>>
    BY <1>7, MarkStaleIs
  <2> HIDE DEF n, c
  <2>2. state' \in [Nodes -> Colours] /\ \A s \in Sigs : state'[s] = CLEAN
    BY <2>1 DEF TypeOK, Colours
  <2>3. pendingEffects' \in Seq(Effects)
    <3>1. PICK p : p = pendingEffects OBVIOUS
    <3>2. p \in Seq(Effects) BY <3>1 DEF TypeOK
    <3>3. n \in Effects => Append(p, n) \in Seq(Effects) BY <3>2, ContainsAppend
    <3>4. \/ pendingEffects' = p
          \/ n \in Effects /\ pendingEffects' = Append(p, n)
      BY <2>1, <3>1 DEF Queue
    <3> QED BY <3>2, <3>3, <3>4
  <2> QED BY <2>1, <2>2, <2>3, SameEdges DEF TypeOK, graph, history
<1>8. ASSUME Returns, ~Idle, UNCHANGED <<value, graph, pendingEffects, batchDepth, life, saw, history>>,
             state' = state \/ \E n \in Nodes : state' = [state EXCEPT ![n] = CLEAN]
      PROVE  TypeOK' /\ EdgesInv'
  <2>1. stack' \in Seq(Frames) BY <1>8, ReturnsIs
  <2>2. state' \in [Nodes -> Colours] /\ \A s \in Sigs : state'[s] = CLEAN
    BY <1>8 DEF TypeOK, Colours
  <2> QED BY <1>8, <2>1, <2>2, SameEdges DEF TypeOK, graph, history
<1>9. CASE MarkDone BY <1>8, <1>9 DEF MarkDone, In
<1>10. CASE FlushTake
  <2>1. ~Idle /\ Top \in Frames /\ Top.call = "flush" BY <1>10, TopFacts DEF FlushTake, In
  <2>2. [Top EXCEPT !.left = pendingEffects] \in Frames BY <2>1, FlushFrames DEF TypeOK
  <2>3. stack' \in Seq(Frames) BY <1>10, <2>1, <2>2, GoesOnIs DEF FlushTake
  <2>4. pendingEffects' \in Seq(Effects) BY <1>10, EmptySeq DEF FlushTake
  <2> QED BY <1>10, <2>3, <2>4, SameEdges DEF FlushTake, TypeOK, graph, history
<1>11. CASE FlushNext
  <2>1. ~Idle /\ Top \in Frames /\ Top.call = "flush" /\ Top.left # <<>>
    BY <1>11, TopFacts DEF FlushNext, In
  <2>2. Top.left \in Seq(Effects) BY <2>1, FrameKinds
  <2>3. Head(Top.left) \in Effects /\ Tail(Top.left) \in Seq(Effects) BY <2>1, <2>2, ContainsTail
  <2>4. [Top EXCEPT !.left = Tail(@)] \in Frames BY <2>1, <2>3, FlushFrames
  <2>5. Pull(Head(Top.left)) \in Frames BY <2>3, NewFrames
  <2>6. stack' \in Seq(Frames) BY <1>11, <2>1, <2>4, <2>5, GoesOnIs, CallsIs DEF FlushNext
  <2> QED BY <1>11, <2>6, SameEdges DEF FlushNext, TypeOK, graph, history
<1>12. CASE FlushDone BY <1>8, <1>12 DEF FlushDone, In
<1>13. CASE PullSource
  <2>1. ~Idle /\ Top \in Frames /\ Top.call = "pull" /\ Top.left # <<>>
    BY <1>13, TopFacts DEF PullSource, In
  <2>2. Top.left \in Seq(Readable) BY <2>1, FrameKinds
  <2>3. Head(Top.left) \in Readable /\ Tail(Top.left) \in Seq(Readable) BY <2>1, <2>2, ContainsTail
  <2>4. [Top EXCEPT !.left = Tail(@)] \in Frames BY <2>1, <2>3, PullFrames
  <2>5. Pull(Head(Top.left)) \in Frames BY <2>3, NewFrames
  <2>6. stack' \in Seq(Frames) BY <1>13, <2>1, <2>4, <2>5, CallsIs DEF PullSource
  <2> QED BY <1>13, <2>6, SameEdges DEF PullSource, TypeOK, graph, history
<1>14. CASE PullUpdate
  <2>1. ~Idle /\ Top \in Frames /\ Top.call = "pull" /\ state[Top.node] = DIRTY
    BY <1>14, TopFacts DEF PullUpdate, In
  <2> DEFINE n == Top.node
  <2>2. n \in Reactions
    <3>1. n \in Nodes BY <2>1, FrameKinds
    <3>2. n \notin Sigs BY <2>1 DEF TypeOK, CLEAN, DIRTY
    <3> QED BY <3>1, <3>2
  <2>3. [Top EXCEPT !.done = TRUE, !.left = <<>>] \in Frames BY <2>1, PullFrames, EmptySeq
  <2>4. Run(n) \in Frames BY <2>2, NewFrames
  <2>5. stack' \in Seq(Frames) BY <1>14, <2>1, <2>3, <2>4, CallsIs DEF PullUpdate
  <2>6. /\ sources' \in [Nodes -> Seq(Readable)] /\ observers' \in [Nodes -> Seq(Reactions)]
        /\ EdgesInv'
    BY <1>14, <2>2, EdgesCut DEF PullUpdate
  <2>7. saw' \in [Reactions -> Seens] BY <1>14, <2>2 DEF PullUpdate, TypeOK, Seens, Unread
  <2> QED BY <1>14, <2>5, <2>6, <2>7 DEF PullUpdate, TypeOK, history
<1>15. CASE PullDone
  <2>1. ~Idle /\ Top \in Frames /\ Top.call = "pull" BY <1>15, TopFacts DEF PullDone, In
  <2>2. Top.node \in Nodes BY <2>1, FrameKinds
  <2> QED BY <1>8, <1>15, <2>1, <2>2 DEF PullDone
<1>16. ASSUME NEW tracked \in BOOLEAN, In("run"), NextOp(Top).op = IF tracked THEN "read" ELSE "peek",
              Reads(NextOp(Top).node, tracked)
       PROVE  TypeOK' /\ EdgesInv'
  <2>1. PICK n : n = Top.node OBVIOUS
  <2>2. PICK m : m = NextOp(Top).node OBVIOUS
  <2>3. /\ ~Idle /\ Top \in Frames /\ Top.call = "run" /\ n \in Reactions /\ m \in Readable
        /\ n \in Computeds => Depth(m) < Depth(n) /\ tracked
        /\ saw[n] \in Seens
    BY <1>16, <2>1, <2>2, RunFacts
  <2>4. [Top EXCEPT !.reading = m] \in Frames BY <2>3, RunFrames
  <2>5. Pull(m) \in Frames BY <2>3, NewFrames
  <2>6. stack' \in Seq(Frames) BY <1>16, <2>2, <2>3, <2>4, <2>5, GoesOnIs, CallsIs DEF Reads
  <2>7. /\ sources' \in [Nodes -> Seq(Readable)] /\ observers' \in [Nodes -> Seq(Reactions)]
        /\ EdgesInv'
    <3>1. CASE tracked
      <4>1. /\ sources' = [sources EXCEPT ![n] = Add(@, m)]
            /\ observers' = [observers EXCEPT ![m] = Add(@, n)]
        BY <1>16, <2>1, <2>2, <3>1 DEF Reads
      <4> QED BY <2>3, <4>1, EdgesAdded
    <3>2. CASE ~tracked BY <1>16, <3>2, SameEdges DEF Reads, TypeOK, graph
    <3> QED BY <3>1, <3>2
  <2>8. saw' \in [Reactions -> Seens]
    <3>1. saw' = [saw EXCEPT ![n][m] = Undefined] BY <1>16, <2>1, <2>2 DEF Reads
    <3>2. [saw[n] EXCEPT ![m] = Undefined] \in Seens BY <2>3 DEF Seens
    <3> QED BY <2>3, <3>1, <3>2 DEF TypeOK
  <2> QED BY <1>16, <2>6, <2>7, <2>8 DEF Reads, TypeOK, history
<1>17. CASE RunRead BY <1>16, <1>17 DEF RunRead, Running
<1>18. CASE RunPeek BY <1>16, <1>18 DEF RunPeek, Running
<1>19. CASE RunGets
  <2>1. PICK n : n = Top.node OBVIOUS
  <2>2. PICK m : m = Top.reading OBVIOUS
  <2>3. /\ ~Idle /\ Top \in Frames /\ Top.call = "run" /\ n \in Reactions /\ m \in Readable
        /\ saw[n] \in Seens
    BY <1>19, <2>1, <2>2, RunFacts DEF RunGets
  <2>4. [Top EXCEPT !.reading = Undefined] \in Frames BY <2>3, RunFrames
  <2>5. stack' \in Seq(Frames) BY <1>19, <2>3, <2>4, GoesOnIs DEF RunGets
  <2>6. saw' \in [Reactions -> Seens]
    <3>1. saw' = [saw EXCEPT ![n][m] = value[m]] BY <1>19, <2>1, <2>2 DEF RunGets
    <3>2. value[m] \in Values \cup {Undefined} BY <2>3 DEF TypeOK
    <3>3. [saw[n] EXCEPT ![m] = value[m]] \in Seens BY <2>3, <3>2 DEF Seens
    <3> QED BY <2>3, <3>1, <3>3 DEF TypeOK
  <2> QED BY <1>19, <2>5, <2>6, SameEdges DEF RunGets, TypeOK, graph, history
<1>20. CASE RunWrite
  <2>1. In("run") /\ NextOp(Top).op = "write" BY <1>20 DEF RunWrite, Running
  <2>2. /\ ~Idle /\ Top \in Frames /\ Top.call = "run" /\ NextOp(Top).node \in Sigs
        /\ NextOp(Top).to \in Values
    BY <2>1, RunFacts
  <2> DEFINE s == NextOp(Top).node
             v == NextOp(Top).to
             here == [stack EXCEPT ![Len(stack)].wrote = TRUE]
  <2>3. here \in Seq(Frames)
    <3>1. PICK f : f = [Top EXCEPT !.wrote = TRUE] OBVIOUS
    <3>2. f \in Frames BY <2>2, <3>1, RunFrames
    <3>3. here = [stack EXCEPT ![Len(stack)] = f] BY <3>1 DEF Top, Last
    <3>4. PICK t : t = stack OBVIOUS
    <3>5. t \in Seq(Frames) /\ t # <<>> BY <2>2, <3>4, TopFacts
    <3>6. [t EXCEPT ![Len(t)] = f] \in Seq(Frames) BY <3>2, <3>5, TopBecomes
    <3> QED BY <3>3, <3>4, <3>6
  <2>4. CASE v = value[s] BY <1>20, <2>3, <2>4, SameEdges DEF RunWrite, TypeOK, graph
  <2>5. CASE v # value[s]
    <3>1. Assign(s, v, here) BY <1>20, <2>5 DEF RunWrite
    <3> HIDE DEF here, s, v
    <3>2. s \in Sigs /\ v \in Values BY <2>2 DEF s, v
    <3>3. /\ stack' \in Seq(Frames) /\ value' \in [Nodes -> Values \cup {Undefined}]
          /\ \A t \in Sigs : value'[t] \in Values
          /\ moved' \in SUBSET Reactions
      BY <2>3, <3>1, <3>2, AssignIs
    <3> QED BY <1>20, <3>3, SameEdges DEF RunWrite, TypeOK, graph
  <2> QED BY <2>4, <2>5
<1>21. CASE RunReturn
  <2>1. In("run") /\ NextOp(Top).op = "return" BY <1>21 DEF RunReturn, Running
  <2> DEFINE n == Top.node
             v == NextOp(Top).to
  <2>2. ~Idle /\ n \in Reactions /\ (n \in Computeds => v \in Values) BY <2>1, RunFacts
  <2>3. stack' \in Seq(Frames) BY <1>21, <2>2, ReturnsIs DEF RunReturn
  <2>4. IF n \in Computeds /\ v # value[n] THEN Changed(n, v) ELSE Kept BY <1>21 DEF RunReturn
  <2> HIDE DEF n, v
  <2>5. CASE n \in Computeds /\ v # value[n]
    <3>1. value' = [value EXCEPT ![n] = v] /\ moved' \in SUBSET Reactions
      BY <2>4, <2>5 DEF Changed, ReadersOf, TypeOK
    <3>2. value' \in [Nodes -> Values \cup {Undefined}] /\ \A t \in Sigs : value'[t] \in Values
      BY <2>2, <2>5, <3>1 DEF TypeOK
    <3>3. \A s \in Sigs : ~Contains(observers[n], s)
      <4>1. observers[n] \in Seq(Reactions) BY <2>2 DEF TypeOK
      <4> QED BY <4>1, ElementOfSeq DEF Contains
    <3>4. state' = [m \in Nodes |-> IF Contains(observers[n], m) THEN DIRTY ELSE state[m]]
      BY <2>4, <2>5 DEF Changed
    <3>5. state' \in [Nodes -> Colours] /\ \A s \in Sigs : state'[s] = CLEAN
      BY <3>3, <3>4 DEF TypeOK, Colours
    <3> QED BY <1>21, <2>3, <3>1, <3>2, <3>5, SameEdges DEF RunReturn, TypeOK, graph
  <2>6. CASE ~(n \in Computeds /\ v # value[n])
    BY <1>21, <2>3, <2>4, <2>6, SameEdges DEF RunReturn, Kept, TypeOK, graph
  <2> QED BY <2>5, <2>6
<1>22. CASE RunThrow
  <2>1. stack' = <<>> /\ stack' \in Seq(Frames) BY <1>22, EmptySeq DEF RunThrow
  <2>2. moved' \in SUBSET Reactions
    <3>1. PICK ran : /\ ran = {stack[i].node : i \in {j \in DOMAIN stack : stack[j].call = "run"}}
                     /\ moved' = moved \cup ran
      BY <1>22 DEF RunThrow
    <3>2. stack \in Seq(Frames) /\ DOMAIN stack = 1 .. Len(stack) BY LenProperties DEF TypeOK
    <3>3. ASSUME NEW i \in DOMAIN stack, stack[i].call = "run" PROVE stack[i].node \in Reactions
      BY <3>2, <3>3, FrameKinds, ElementOfSeq
    <3> QED BY <3>1, <3>3 DEF TypeOK
  <2>3. lost' \in SUBSET Effects BY <1>22 DEF RunThrow, TypeOK
  <2> QED BY <1>22, <2>1, <2>2, <2>3, SameEdges DEF RunThrow, TypeOK, graph
<1> QED BY <1>1, <1>2, <1>3, <1>4, <1>5, <1>6, <1>7, <1>9, <1>10, <1>11, <1>12, <1>13, <1>14,
           <1>15, <1>17, <1>18, <1>19, <1>20, <1>21, <1>22 DEF Next, UserStep

-----------------------------------------------------------------------------
(* What each action does, frame by frame.                                  *)

\* updateIfNecessary pulls the next source of a node in CHECK.
LEMMA PullSourceIs ==
  ASSUME TypeOK, PullSource
  PROVE  /\ In("pull") /\ ~Idle /\ Top = stack[Len(stack)] /\ Len(stack) \in Nat \ {0}
         /\ Top \in Frames /\ ~Top.done
         /\ Top.node \in Reactions /\ state[Top.node] = CHECK
         /\ Head(Top.left) \in Readable
         /\ \A x : Contains(Top.left, x) <=> x = Head(Top.left) \/ Contains(Tail(Top.left), x)
         /\ stack' \in Seq(Frames) /\ Len(stack') = Len(stack) + 1 /\ Top' = stack'[Len(stack) + 1]
         /\ stack'[Len(stack)].call = "pull" /\ stack'[Len(stack)].node = Top.node
         /\ stack'[Len(stack)].done = FALSE /\ stack'[Len(stack)].left = Tail(Top.left)
         /\ stack'[Len(stack) + 1] = Pull(Head(Top.left))
         /\ \A i \in 1 .. Len(stack) - 1 : stack'[i] = stack[i]
         /\ UNCHANGED <<calls, value, state, graph, pendingEffects, batchDepth, life, saw, history>>
<1>1. In("pull") /\ ~Idle /\ Top.call = "pull" /\ ~Top.done /\ state[Top.node] = CHECK /\ Top.left # <<>>
  BY DEF PullSource, In
<1>2. Top \in Frames /\ Len(stack) \in Nat \ {0} /\ Top = stack[Len(stack)] BY <1>1, TopFacts
<1>3. Top.left \in Seq(Readable) /\ Top.done \in BOOLEAN /\ Top.node \in Nodes BY <1>1, <1>2, FrameKinds
<1>4. PICK l : l = Top.left OBVIOUS
<1>5. /\ Head(l) \in Readable /\ Tail(l) \in Seq(Readable)
      /\ \A x : Contains(l, x) <=> x = Head(l) \/ Contains(Tail(l), x)
  BY <1>1, <1>3, <1>4, ContainsTail
<1>6. PICK g : g = [Top EXCEPT !.left = Tail(@)] OBVIOUS
<1>7. g \in Frames /\ g.call = "pull" /\ g.node = Top.node /\ g.left = Tail(l) /\ g.done = FALSE
  <2>1. PICK t : t = Tail(l) OBVIOUS
  <2>2. g = [Top EXCEPT !.left = t] BY <1>4, <1>6, <2>1
  <2>3. PICK top : top = Top OBVIOUS
  <2>4. top \in Frames /\ top.call = "pull" /\ t \in Seq(Readable) BY <1>1, <1>2, <1>5, <2>1, <2>3
  <2>5. LET h == [top EXCEPT !.left = t]
        IN  h \in Frames /\ h.call = "pull" /\ h.node = top.node /\ h.left = t /\ h.done = top.done
    BY <2>4, PullFrames
  <2>6. g = [top EXCEPT !.left = t] BY <2>2, <2>3
  <2> QED BY <1>1, <1>3, <2>1, <2>3, <2>5, <2>6
<1>8. PICK f : f = Pull(Head(l)) OBVIOUS
<1>9. f \in Frames BY <1>5, <1>8, NewFrames, NodeKinds
<1>10. Calls(g, f) BY <1>4, <1>6, <1>8 DEF PullSource
<1>11. /\ stack' \in Seq(Frames) /\ stack' # <<>> /\ Len(stack') = Len(stack) + 1
       /\ stack'[Len(stack)] = g /\ stack'[Len(stack) + 1] = f /\ Top' = f
       /\ \A i \in 1 .. Len(stack) - 1 : stack'[i] = stack[i]
  BY <1>1, <1>7, <1>9, <1>10, CallsIs
<1>12. Top.node \in Reactions BY <1>1, <1>3, NodeKinds DEF TypeOK, CHECK, CLEAN
<1>13. UNCHANGED <<calls, value, state, graph, pendingEffects, batchDepth, life, saw, history>>
  BY DEF PullSource
<1> QED BY <1>1, <1>2, <1>4, <1>5, <1>7, <1>8, <1>11, <1>12, <1>13

\* updateIfNecessary calls update on a DIRTY node.
LEMMA PullUpdateIs ==
  ASSUME TypeOK, EdgesInv, PullUpdate
  PROVE  /\ In("pull") /\ ~Idle /\ Top = stack[Len(stack)] /\ Len(stack) \in Nat \ {0}
         /\ Top \in Frames /\ ~Top.done
         /\ Top.node \in Reactions /\ state[Top.node] = DIRTY
         /\ stack' \in Seq(Frames) /\ Len(stack') = Len(stack) + 1 /\ Top' = stack'[Len(stack) + 1]
         /\ stack'[Len(stack)].call = "pull" /\ stack'[Len(stack)].node = Top.node
         /\ stack'[Len(stack)].done = TRUE /\ stack'[Len(stack)].left = <<>>
         /\ stack'[Len(stack) + 1].call = "run" /\ stack'[Len(stack) + 1].node = Top.node
         /\ stack'[Len(stack) + 1].reading = Undefined /\ stack'[Len(stack) + 1].wrote = FALSE
         /\ \A i \in 1 .. Len(stack) - 1 : stack'[i] = stack[i]
         /\ sources'[Top.node] = <<>> /\ \A m \in Nodes \ {Top.node} : sources'[m] = sources[m]
         /\ \A m \in Readable : \A k : Contains(observers'[m], k) <=> Contains(observers[m], k) /\ k # Top.node
         /\ saw'[Top.node] = Unread /\ \A n \in Reactions \ {Top.node} : saw'[n] = saw[n]
         /\ moved' = moved \ {Top.node}
         /\ UNCHANGED <<calls, value, state, pendingEffects, batchDepth, life, lost>>
<1>1. In("pull") /\ ~Idle /\ Top.call = "pull" /\ ~Top.done /\ state[Top.node] = DIRTY
  BY DEF PullUpdate, In
<1>2. Top \in Frames /\ Len(stack) \in Nat \ {0} /\ Top = stack[Len(stack)] BY <1>1, TopFacts
<1>3. Top.node \in Nodes BY <1>1, <1>2, FrameKinds
<1>4. Top.node \in Reactions BY <1>1, <1>3, NodeKinds DEF TypeOK, DIRTY, CLEAN
<1>5. PICK g : g = [Top EXCEPT !.done = TRUE, !.left = <<>>] OBVIOUS
<1>6. g \in Frames /\ g.call = "pull" /\ g.node = Top.node /\ g.left = <<>> /\ g.done = TRUE
  BY <1>1, <1>2, <1>5, PullFrames, EmptySeq
<1>7. PICK f : f = Run(Top.node) OBVIOUS
<1>8. f \in Frames /\ f.call = "run" /\ f.node = Top.node /\ f.reading = Undefined /\ f.wrote = FALSE
  BY <1>4, <1>7, NewFrames
<1>9. Calls(g, f) BY <1>5, <1>7 DEF PullUpdate
<1>10. /\ stack' \in Seq(Frames) /\ stack' # <<>> /\ Len(stack') = Len(stack) + 1
       /\ stack'[Len(stack)] = g /\ stack'[Len(stack) + 1] = f /\ Top' = f
       /\ \A i \in 1 .. Len(stack) - 1 : stack'[i] = stack[i]
  BY <1>1, <1>6, <1>8, <1>9, CallsIs
<1>11. /\ observers' = Detached(Top.node) /\ sources' = [sources EXCEPT ![Top.node] = <<>>]
       /\ saw' = [saw EXCEPT ![Top.node] = Unread] /\ moved' = moved \ {Top.node}
       /\ UNCHANGED <<calls, value, state, pendingEffects, batchDepth, life, lost>>
  BY DEF PullUpdate
<1>12. /\ sources'[Top.node] = <<>> /\ \A m \in Nodes \ {Top.node} : sources'[m] = sources[m]
       /\ \A m \in Readable : \A k : Contains(observers'[m], k) <=> Contains(observers[m], k) /\ k # Top.node
  BY <1>4, <1>11, EdgesCut
<1>13. saw'[Top.node] = Unread /\ \A n \in Reactions \ {Top.node} : saw'[n] = saw[n]
  BY <1>4, <1>11 DEF TypeOK
<1> QED BY <1>1, <1>2, <1>4, <1>6, <1>8, <1>10, <1>11, <1>12, <1>13

\* updateIfNecessary returns, and leaves its node CLEAN.
LEMMA PullDoneIs ==
  ASSUME TypeOK, PullDone
  PROVE  /\ In("pull") /\ ~Idle /\ Top = stack[Len(stack)] /\ Len(stack) \in Nat \ {0}
         /\ Top \in Frames /\ Top.done \in BOOLEAN /\ Top.node \in Nodes
         /\ Top.done \/ (state[Top.node] # DIRTY /\ Top.left = <<>>)
         /\ stack' \in Seq(Frames) /\ Len(stack') = Len(stack) - 1
         /\ \A i \in 1 .. Len(stack) - 1 : stack'[i] = stack[i]
         /\ ~Idle' => Len(stack) > 1 /\ Top' = stack[Len(stack) - 1]
         /\ state'[Top.node] = CLEAN /\ \A n \in Nodes \ {Top.node} : state'[n] = state[n]
         /\ UNCHANGED <<calls, value, graph, pendingEffects, batchDepth, life, saw, history>>
<1>1. In("pull") /\ ~Idle /\ Top.call = "pull" BY DEF PullDone, In
<1>2. Top \in Frames /\ Len(stack) \in Nat \ {0} /\ Top = stack[Len(stack)] BY <1>1, TopFacts
<1>3. Top.node \in Nodes /\ Top.done \in BOOLEAN BY <1>1, <1>2, FrameKinds
<1>4. /\ stack' \in Seq(Frames) /\ Len(stack') = Len(stack) - 1
      /\ \A i \in 1 .. Len(stack) - 1 : stack'[i] = stack[i]
      /\ ~Idle' => Len(stack) > 1 /\ Top' = stack[Len(stack) - 1]
  BY <1>1, ReturnsIs DEF PullDone
<1>5. state'[Top.node] = CLEAN /\ \A n \in Nodes \ {Top.node} : state'[n] = state[n]
  BY <1>3 DEF PullDone, TypeOK
<1> QED BY <1>1, <1>2, <1>3, <1>4, <1>5 DEF PullDone

\* get, tracked or not.
LEMMA ReadsIs ==
  ASSUME TypeOK, EdgesInv, NEW tracked \in BOOLEAN,
         Running(IF tracked THEN "read" ELSE "peek"), Reads(NextOp(Top).node, tracked)
  PROVE  /\ In("run") /\ ~Idle /\ Top = stack[Len(stack)] /\ Len(stack) \in Nat \ {0}
         /\ Top \in Frames /\ Top.reading = Undefined /\ Top.node \in Reactions
         /\ NextOp(Top).op = IF tracked THEN "read" ELSE "peek"
         /\ NextOp(Top).node \in Readable
         /\ Top.node \in Computeds => /\ tracked /\ Depth(NextOp(Top).node) < Depth(Top.node)
                                      /\ saw[Top.node][NextOp(Top).node] = Undefined
         /\ stack' \in Seq(Frames)
         /\ stack'[Len(stack)].call = "run" /\ stack'[Len(stack)].node = Top.node
         /\ stack'[Len(stack)].reading = NextOp(Top).node /\ stack'[Len(stack)].wrote = Top.wrote
         /\ \A i \in 1 .. Len(stack) - 1 : stack'[i] = stack[i]
         /\ NextOp(Top).node \in Sigs => Len(stack') = Len(stack) /\ Top' = stack'[Len(stack)]
         /\ NextOp(Top).node \notin Sigs =>
              /\ Len(stack') = Len(stack) + 1 /\ Top' = stack'[Len(stack) + 1]
              /\ stack'[Len(stack) + 1] = Pull(NextOp(Top).node)
         /\ \A k \in Nodes \ {Top.node} : sources'[k] = sources[k]
         /\ \A k : Contains(sources'[Top.node], k) <=>
              Contains(sources[Top.node], k) \/ (tracked /\ k = NextOp(Top).node)
         /\ saw'[Top.node][NextOp(Top).node] = Undefined
         /\ \A k \in Readable \ {NextOp(Top).node} : saw'[Top.node][k] = saw[Top.node][k]
         /\ \A n \in Reactions \ {Top.node} : saw'[n] = saw[n]
         /\ UNCHANGED <<calls, value, state, pendingEffects, batchDepth, life, history>>
<1>1. In("run") /\ Top.reading = Undefined /\ NextOp(Top).op = IF tracked THEN "read" ELSE "peek"
  BY DEF Running
<1>2. PICK n : n = Top.node OBVIOUS
<1>3. PICK m : m = NextOp(Top).node OBVIOUS
<1>4. /\ ~Idle /\ Top \in Frames /\ Top.call = "run" /\ n \in Reactions /\ m \in Readable
      /\ Top.wrote \in BOOLEAN /\ saw[n] \in Seens
      /\ n \in Computeds => tracked /\ Depth(m) < Depth(n) /\ saw[n][m] = Undefined
  BY <1>1, <1>2, <1>3, RunFacts, NodeKinds
<1>5. Len(stack) \in Nat \ {0} /\ Top = stack[Len(stack)] BY <1>4, TopFacts
<1>6. PICK g : g = [Top EXCEPT !.reading = m] OBVIOUS
<1>7. g \in Frames /\ g.call = "run" /\ g.node = n /\ g.reading = m /\ g.wrote = Top.wrote
  BY <1>2, <1>4, <1>6, RunFrames
<1>8. PICK f : f = Pull(m) OBVIOUS
<1>9. f \in Frames BY <1>4, <1>8, NewFrames, NodeKinds
<1>10. IF m \in Sigs THEN GoesOn(g) ELSE Calls(g, f) BY <1>3, <1>6, <1>8 DEF Reads
<1>11. /\ stack' \in Seq(Frames) /\ stack'[Len(stack)] = g
       /\ \A i \in 1 .. Len(stack) - 1 : stack'[i] = stack[i]
       /\ m \in Sigs => Len(stack') = Len(stack) /\ Top' = stack'[Len(stack)]
       /\ m \notin Sigs => /\ Len(stack') = Len(stack) + 1 /\ Top' = stack'[Len(stack) + 1]
                           /\ stack'[Len(stack) + 1] = f
  <2>1. CASE m \in Sigs
    <3>1. GoesOn(g) BY <1>10, <2>1
    <3> QED BY <1>4, <1>7, <2>1, <3>1, GoesOnIs
  <2>2. CASE m \notin Sigs
    <3>1. Calls(g, f) BY <1>10, <2>2
    <3> QED BY <1>4, <1>7, <1>9, <2>2, <3>1, CallsIs
  <2> QED BY <2>1, <2>2
<1>12. /\ \A k \in Nodes \ {n} : sources'[k] = sources[k]
       /\ \A k : Contains(sources'[n], k) <=> Contains(sources[n], k) \/ (tracked /\ k = m)
  <2>1. CASE tracked
    <3>1. /\ sources' = [sources EXCEPT ![n] = Add(@, m)]
          /\ observers' = [observers EXCEPT ![m] = Add(@, n)]
      BY <1>2, <1>3, <2>1 DEF Reads
    <3>2. /\ \A k \in Nodes \ {n} : sources'[k] = sources[k]
          /\ \A k : Contains(sources'[n], k) <=> Contains(sources[n], k) \/ k = m
      BY <1>4, <3>1, EdgesAdded
    <3> QED BY <2>1, <3>2, Zenon
  <2>2. CASE ~tracked
    <3>1. UNCHANGED graph BY <2>2 DEF Reads
    <3>2. sources' = sources BY <3>1 DEF graph
    <3>3. \A k : Contains(sources'[n], k) <=> Contains(sources[n], k) BY <3>2
    <3>4. ASSUME NEW k
          PROVE  Contains(sources'[n], k) <=> Contains(sources[n], k) \/ (tracked /\ k = m)
      BY <2>2, <3>3, Zenon
    <3>5. \A k \in Nodes \ {n} : sources'[k] = sources[k] BY <3>2
    <3> QED BY <3>4, <3>5, Zenon
  <2> QED BY <2>1, <2>2
<1>13. /\ saw'[n][m] = Undefined /\ \A k \in Readable \ {m} : saw'[n][k] = saw[n][k]
       /\ \A k \in Reactions \ {n} : saw'[k] = saw[k]
  <2>1. saw' = [saw EXCEPT ![n][m] = Undefined] BY <1>2, <1>3 DEF Reads
  <2> QED BY <1>4, <2>1 DEF TypeOK, Seens
<1>14. UNCHANGED <<calls, value, state, pendingEffects, batchDepth, life, history>> BY DEF Reads
<1> QED BY <1>1, <1>2, <1>3, <1>4, <1>5, <1>7, <1>8, <1>11, <1>12, <1>13, <1>14

\* get() returns to the function that reads.
LEMMA RunGetsIs ==
  ASSUME TypeOK, RunGets
  PROVE  /\ In("run") /\ ~Idle /\ Top = stack[Len(stack)] /\ Len(stack) \in Nat \ {0}
         /\ Top \in Frames /\ Top.reading \in Readable /\ Top.node \in Reactions
         /\ Len(stack') = Len(stack) /\ Top' = stack'[Len(stack)]
         /\ stack' \in Seq(Frames)
         /\ stack'[Len(stack)].call = "run" /\ stack'[Len(stack)].node = Top.node
         /\ stack'[Len(stack)].reading = Undefined /\ stack'[Len(stack)].wrote = Top.wrote
         /\ \A i \in 1 .. Len(stack) - 1 : stack'[i] = stack[i]
         /\ saw'[Top.node] = [saw[Top.node] EXCEPT ![Top.reading] = value[Top.reading]]
         /\ saw'[Top.node][Top.reading] = value[Top.reading]
         /\ \A k \in Readable \ {Top.reading} : saw'[Top.node][k] = saw[Top.node][k]
         /\ \A n \in Reactions \ {Top.node} : saw'[n] = saw[n]
         /\ UNCHANGED <<calls, value, state, graph, pendingEffects, batchDepth, life, history>>
<1>1. In("run") /\ Top.reading # Undefined BY DEF RunGets
<1>2. PICK n : n = Top.node OBVIOUS
<1>3. PICK m : m = Top.reading OBVIOUS
<1>4. /\ ~Idle /\ Top \in Frames /\ Top.call = "run" /\ n \in Reactions /\ m \in Readable
      /\ saw[n] \in Seens /\ Top.wrote \in BOOLEAN
  BY <1>1, <1>2, <1>3, RunFacts
<1>5. Len(stack) \in Nat \ {0} /\ Top = stack[Len(stack)] BY <1>4, TopFacts
<1>6. PICK g : g = [Top EXCEPT !.reading = Undefined] OBVIOUS
<1>7. g \in Frames /\ g.call = "run" /\ g.node = n /\ g.reading = Undefined /\ g.wrote = Top.wrote
  BY <1>2, <1>4, <1>6, RunFrames
<1>8. GoesOn(g) BY <1>6 DEF RunGets
<1>9. /\ stack' \in Seq(Frames) /\ Len(stack') = Len(stack) /\ Top' = g
      /\ stack'[Len(stack)] = g /\ \A i \in 1 .. Len(stack) - 1 : stack'[i] = stack[i]
  BY <1>4, <1>7, <1>8, GoesOnIs
<1>10. /\ saw'[n] = [saw[n] EXCEPT ![m] = value[m]]
       /\ saw'[n][m] = value[m] /\ \A k \in Readable \ {m} : saw'[n][k] = saw[n][k]
       /\ \A k \in Reactions \ {n} : saw'[k] = saw[k]
  <2>1. saw' = [saw EXCEPT ![n][m] = value[m]] BY <1>2, <1>3 DEF RunGets
  <2> QED BY <1>4, <2>1 DEF TypeOK, Seens
<1>11. UNCHANGED <<calls, value, state, graph, pendingEffects, batchDepth, life, history>>
  BY DEF RunGets
<1> QED BY <1>1, <1>2, <1>3, <1>4, <1>5, <1>7, <1>9, <1>10, <1>11

\* An effect calls set: nothing changes but the frame, or the value is assigned.
LEMMA RunWriteIs ==
  ASSUME TypeOK, RunWrite
  PROVE  /\ In("run") /\ ~Idle /\ Top = stack[Len(stack)] /\ Len(stack) \in Nat \ {0}
         /\ Top \in Frames /\ Top.reading = Undefined /\ Top.node \in Effects
         /\ NextOp(Top).node \in Sigs /\ NextOp(Top).to \in Values
         /\ stack' \in Seq(Frames)
         /\ stack'[Len(stack)].call = "run" /\ stack'[Len(stack)].node = Top.node
         /\ stack'[Len(stack)].reading = Undefined
         /\ \A i \in 1 .. Len(stack) - 1 : stack'[i] = stack[i]
         /\ \/ /\ Len(stack') = Len(stack) /\ Top' = stack'[Len(stack)]
               /\ UNCHANGED <<value, moved>>
            \/ /\ batchDepth = 0 =>
                    /\ Len(stack') = Len(stack) + 2 /\ Top' = stack'[Len(stack) + 2]
                    /\ stack'[Len(stack) + 1] = Flush
               /\ batchDepth # 0 => Len(stack') = Len(stack) + 1 /\ Top' = stack'[Len(stack) + 1]
               /\ Top'.call = "mark"
               /\ \A n, c : Contains(Top'.left, <<n, c>>) <=>
                              Contains(observers[NextOp(Top).node], n) /\ c = DIRTY
               /\ value' = [value EXCEPT ![NextOp(Top).node] = NextOp(Top).to]
               /\ moved' = moved \cup ReadersOf(NextOp(Top).node)
         /\ UNCHANGED <<calls, state, graph, pendingEffects, batchDepth, life, saw, lost>>
<1>1. In("run") /\ Top.reading = Undefined /\ NextOp(Top).op = "write"
  BY DEF RunWrite, Running
<1>2. PICK s : s = NextOp(Top).node OBVIOUS
<1>3. PICK v : v = NextOp(Top).to OBVIOUS
<1>4. /\ ~Idle /\ Top \in Frames /\ Top.call = "run" /\ s \in Sigs /\ v \in Values /\ Top.node \in Effects
  BY <1>1, <1>2, <1>3, RunFacts
<1>5. Len(stack) \in Nat \ {0} /\ Top = stack[Len(stack)] BY <1>4, TopFacts
<1>6. PICK here : here = [stack EXCEPT ![Len(stack)].wrote = TRUE] OBVIOUS
<1>7. /\ here \in Seq(Frames) /\ Len(here) = Len(stack) /\ Last(here) = here[Len(stack)]
      /\ here[Len(stack)].call = "run" /\ here[Len(stack)].node = Top.node
      /\ here[Len(stack)].reading = Top.reading
      /\ \A i \in 1 .. Len(stack) - 1 : here[i] = stack[i]
  <2>1. PICK f : f = [Top EXCEPT !.wrote = TRUE] OBVIOUS
  <2>2. f \in Frames /\ f.call = "run" /\ f.node = Top.node /\ f.reading = Top.reading
    <3>1. PICK top : top = Top OBVIOUS
    <3>2. top \in Frames /\ top.call = "run" BY <1>4, <3>1
    <3>3. Undefined \in Readable \cup {Undefined} OBVIOUS
    <3>4. LET h == [top EXCEPT !.wrote = TRUE]
          IN  h \in Frames /\ h.call = "run" /\ h.node = top.node /\ h.reading = top.reading
      BY <3>2, <3>3, RunFrames
    <3> QED BY <2>1, <3>1, <3>4
  <2>3. PICK t : t = stack OBVIOUS
  <2>4. t \in Seq(Frames) /\ t # <<>> BY <1>4, <2>3, TopFacts
  <2>5. PICK u : u = [t EXCEPT ![Len(t)] = f] OBVIOUS
  <2>6. /\ u \in Seq(Frames) /\ Len(u) = Len(t)
        /\ Last(u) = f /\ u[Len(t)] = f
        /\ \A i \in 1 .. Len(t) - 1 : u[i] = t[i]
    <3>1. f \in Frames BY <2>2
    <3>2. LET w == [t EXCEPT ![Len(t)] = f]
          IN  /\ w \in Seq(Frames) /\ Len(w) = Len(t) /\ Last(w) = f /\ w[Len(t)] = f
              /\ \A i \in 1 .. Len(t) - 1 : w[i] = t[i]
      BY <2>4, <3>1, TopBecomes
    <3> QED BY <2>5, <3>2
  <2>7. here = u BY <1>6, <2>1, <2>3, <2>5 DEF Top, Last
  <2> QED BY <2>2, <2>3, <2>6, <2>7
<1>8. /\ IF v = value[s] THEN stack' = here /\ UNCHANGED <<value, moved>> ELSE Assign(s, v, here)
      /\ UNCHANGED <<calls, state, graph, pendingEffects, batchDepth, life, saw, lost>>
  BY <1>2, <1>3, <1>6 DEF RunWrite
<1>9. CASE v = value[s]
  <2>1. stack' = here /\ UNCHANGED <<value, moved>> BY <1>8, <1>9
  <2>2. Top' = stack'[Len(stack)] BY <1>7, <2>1 DEF Top
  <2> QED BY <1>1, <1>2, <1>3, <1>4, <1>5, <1>7, <1>8, <2>1, <2>2
<1>10. CASE v # value[s]
  <2>1. Assign(s, v, here) BY <1>8, <1>10
  <2>2. PICK f : f = Mark(observers[s], DIRTY) OBVIOUS
  <2>3. PICK d : d = IF batchDepth = 0 THEN Len(here) + 1 ELSE Len(here) OBVIOUS
  <2>4. /\ stack' \in Seq(Frames) /\ Len(stack') = d + 1
        /\ stack'[d + 1] = f /\ Top' = f /\ f.call = "mark"
        /\ \A n, c : Contains(f.left, <<n, c>>) <=> Contains(observers[s], n) /\ c = DIRTY
        /\ \A i \in 1 .. Len(here) : stack'[i] = here[i]
        /\ batchDepth = 0 => stack'[d] = Flush
    BY <1>4, <1>7, <2>1, <2>2, <2>3, AssignIs
  <2>5. value' = [value EXCEPT ![s] = v] /\ moved' = moved \cup ReadersOf(s) BY <2>1 DEF Assign
  <2>6. stack'[Len(stack)] = here[Len(stack)] /\ \A i \in 1 .. Len(stack) - 1 : stack'[i] = stack[i]
    BY <1>5, <1>7, <2>4
  <2>7. /\ batchDepth = 0 => d = Len(stack) + 1 /\ d + 1 = Len(stack) + 2
        /\ batchDepth # 0 => d = Len(stack)
    BY <1>5, <1>7, <2>3
  <2>8. /\ batchDepth = 0 =>
             /\ Len(stack') = Len(stack) + 2 /\ Top' = stack'[Len(stack) + 2]
             /\ stack'[Len(stack) + 1] = Flush
        /\ batchDepth # 0 => Len(stack') = Len(stack) + 1 /\ Top' = stack'[Len(stack) + 1]
    BY <2>4, <2>7
  <2>9. ASSUME NEW n, NEW c
        PROVE  Contains(Top'.left, <<n, c>>) <=> Contains(observers[NextOp(Top).node], n) /\ c = DIRTY
    BY <1>2, <2>4
  <2>10. Top'.call = "mark" /\ stack' \in Seq(Frames) BY <2>4
  <2> QED BY <1>1, <1>2, <1>3, <1>4, <1>5, <1>7, <1>8, <2>5, <2>6, <2>8, <2>9, <2>10
<1> QED BY <1>9, <1>10

\* set by the user.
LEMMA SetIs ==
  ASSUME TypeOK, NEW s \in Sigs, NEW v \in Domain(s), Set(s, v)
  PROVE  /\ Idle /\ Len(stack) = 0 /\ v \in Values /\ stack' \in Seq(Frames)
         /\ batchDepth = 0 => Len(stack') = 2 /\ Top' = stack'[2] /\ stack'[1] = Flush
         /\ batchDepth # 0 => Len(stack') = 1 /\ Top' = stack'[1]
         /\ Top'.call = "mark"
         /\ \A n, c : Contains(Top'.left, <<n, c>>) <=> Contains(observers[s], n) /\ c = DIRTY
         /\ value' = [value EXCEPT ![s] = v]
         /\ moved' = moved \cup ReadersOf(s)
         /\ UNCHANGED <<state, graph, pendingEffects, batchDepth, life, saw, lost>>
<1>1. Idle /\ Assign(s, v, stack) /\ UNCHANGED <<state, graph, pendingEffects, batchDepth, life, saw, lost>>
  BY DEF Set, Called
<1>2. v \in Values BY NodesAssumption
<1>3. PICK b : b = stack OBVIOUS
<1>4. b \in Seq(Frames) /\ Len(b) = 0 BY <1>1, <1>3, EmptySeq DEF Idle, TypeOK
<1>5. PICK f : f = Mark(observers[s], DIRTY) OBVIOUS
<1>6. PICK d : d = IF batchDepth = 0 THEN Len(b) + 1 ELSE Len(b) OBVIOUS
<1>7. Assign(s, v, b) BY <1>1, <1>3
<1>11. b \in Seq(Frames) BY <1>4
<1>8. /\ stack' \in Seq(Frames) /\ Len(stack') = d + 1
      /\ stack'[d + 1] = f /\ Top' = f /\ f.call = "mark"
      /\ \A n, c : Contains(f.left, <<n, c>>) <=> Contains(observers[s], n) /\ c = DIRTY
      /\ batchDepth = 0 => stack'[d] = Flush
  BY <1>2, <1>5, <1>6, <1>7, <1>11, AssignIs
<1>9. value' = [value EXCEPT ![s] = v] /\ moved' = moved \cup ReadersOf(s) BY <1>1 DEF Assign
<1>10. /\ batchDepth = 0 => d = 1 /\ d + 1 = 2
       /\ batchDepth # 0 => d = 0
  BY <1>4, <1>6
<1>12. /\ batchDepth = 0 => Len(stack') = 2 /\ Top' = stack'[2] /\ stack'[1] = Flush
       /\ batchDepth # 0 => Len(stack') = 1 /\ Top' = stack'[1]
  BY <1>8, <1>10
<1>13. ASSUME NEW n, NEW c
       PROVE  Contains(Top'.left, <<n, c>>) <=> Contains(observers[s], n) /\ c = DIRTY
  BY <1>8
<1>14. Top'.call = "mark" /\ stack' \in Seq(Frames) BY <1>8
<1> QED BY <1>1, <1>2, <1>3, <1>4, <1>9, <1>12, <1>13, <1>14

\* A function returns.
LEMMA RunReturnIs ==
  ASSUME TypeOK, RunReturn
  PROVE  /\ In("run") /\ ~Idle /\ Top = stack[Len(stack)] /\ Len(stack) \in Nat \ {0}
         /\ Top \in Frames /\ Top.reading = Undefined /\ Top.node \in Reactions /\ Top.wrote \in BOOLEAN
         /\ NextOp(Top).op = "return" /\ (Top.node \in Computeds => NextOp(Top).to \in Values)
         /\ stack' \in Seq(Frames) /\ Len(stack') = Len(stack) - 1
         /\ \A i \in 1 .. Len(stack) - 1 : stack'[i] = stack[i]
         /\ ~Idle' => Len(stack) > 1 /\ Top' = stack[Len(stack) - 1]
         /\ Top.node \in Computeds => value'[Top.node] = NextOp(Top).to
         /\ \A n \in Nodes \ {Top.node} : value'[n] = value[n]
         /\ Top.node \in Effects => value' = value
         /\ \/ UNCHANGED <<value, state, moved>>
            \/ /\ Top.node \in Computeds
               /\ \A n \in Nodes : Contains(observers[Top.node], n) => state'[n] = DIRTY
               /\ \A n \in Nodes : ~Contains(observers[Top.node], n) => state'[n] = state[n]
               /\ moved' = moved \cup ReadersOf(Top.node)
         /\ UNCHANGED <<calls, graph, pendingEffects, batchDepth, life, saw, lost>>
<1>1. In("run") /\ Top.reading = Undefined /\ NextOp(Top).op = "return"
  BY DEF RunReturn, Running
<1>2. PICK n : n = Top.node OBVIOUS
<1>3. PICK v : v = NextOp(Top).to OBVIOUS
<1>4. /\ ~Idle /\ Top \in Frames /\ Top.call = "run" /\ n \in Reactions /\ Top.wrote \in BOOLEAN
      /\ n \in Computeds => v \in Values
  BY <1>1, <1>2, <1>3, RunFacts
<1>5. Len(stack) \in Nat \ {0} /\ Top = stack[Len(stack)] BY <1>4, TopFacts
<1>6. /\ IF n \in Computeds /\ v # value[n] THEN Changed(n, v) ELSE Kept
      /\ UNCHANGED <<calls, graph, pendingEffects, batchDepth, life, saw, lost>>
  BY <1>2, <1>3 DEF RunReturn
<1>7. /\ stack' \in Seq(Frames) /\ Len(stack') = Len(stack) - 1
      /\ \A i \in 1 .. Len(stack) - 1 : stack'[i] = stack[i]
      /\ ~Idle' => Len(stack) > 1 /\ Top' = stack[Len(stack) - 1]
  BY <1>4, ReturnsIs DEF RunReturn
<1>8. CASE n \in Computeds /\ v # value[n]
  <2>1. /\ value' = [value EXCEPT ![n] = v] /\ moved' = moved \cup ReadersOf(n)
        /\ state' = [m \in Nodes |-> IF Contains(observers[n], m) THEN DIRTY ELSE state[m]]
    BY <1>6, <1>8 DEF Changed
  <2>2. value'[n] = v /\ \A m \in Nodes \ {n} : value'[m] = value[m]
    BY <1>8, <2>1, NodeKinds DEF TypeOK
  <2>3. n \notin Effects BY <1>8, NodeKinds
  <2> QED BY <1>1, <1>2, <1>3, <1>4, <1>5, <1>6, <1>7, <1>8, <2>1, <2>2, <2>3
<1>9. CASE ~(n \in Computeds /\ v # value[n])
  <2>1. UNCHANGED <<value, state, moved>> BY <1>6, <1>9 DEF Kept
  <2> QED BY <1>1, <1>2, <1>3, <1>4, <1>5, <1>6, <1>7, <1>9, <2>1
<1> QED BY <1>8, <1>9

\* A flush takes the queue.
LEMMA FlushTakeIs ==
  ASSUME TypeOK, FlushTake
  PROVE  /\ In("flush") /\ ~Idle /\ Top = stack[Len(stack)] /\ Len(stack) \in Nat \ {0}
         /\ Top \in Frames /\ Top.left = <<>> /\ pendingEffects' = <<>>
         /\ stack' \in Seq(Frames) /\ Len(stack') = Len(stack) /\ Top' = stack'[Len(stack)]
         /\ stack'[Len(stack)].call = "flush" /\ stack'[Len(stack)].left = pendingEffects
         /\ \A i \in 1 .. Len(stack) - 1 : stack'[i] = stack[i]
         /\ UNCHANGED <<calls, value, state, graph, batchDepth, life, saw, history>>
<1>1. In("flush") /\ ~Idle /\ Top.call = "flush" /\ Top.left = <<>> BY DEF FlushTake, In
<1>2. Top \in Frames /\ Len(stack) \in Nat \ {0} /\ Top = stack[Len(stack)] BY <1>1, TopFacts
<1>3. PICK top : top = Top OBVIOUS
<1>4. PICK l : l = pendingEffects OBVIOUS
<1>5. PICK g : g = [top EXCEPT !.left = l] OBVIOUS
<1>6. g \in Frames /\ g.call = "flush" /\ g.left = l
  BY <1>1, <1>2, <1>3, <1>4, <1>5, FlushFrames DEF TypeOK
<1>7. GoesOn(g) BY <1>3, <1>4, <1>5 DEF FlushTake
<1>8. /\ stack' \in Seq(Frames) /\ Len(stack') = Len(stack) /\ stack'[Len(stack)] = g /\ Top' = g
      /\ \A i \in 1 .. Len(stack) - 1 : stack'[i] = stack[i]
  BY <1>1, <1>6, <1>7, GoesOnIs
<1> QED BY <1>1, <1>2, <1>4, <1>6, <1>8 DEF FlushTake

\* A flush comes to its next effect.
LEMMA FlushNextIs ==
  ASSUME TypeOK, FlushNext
  PROVE  /\ In("flush") /\ ~Idle /\ Top = stack[Len(stack)] /\ Len(stack) \in Nat \ {0}
         /\ Top \in Frames /\ Top.left \in Seq(Effects) /\ Top.left # <<>>
         /\ Head(Top.left) \in Effects
         /\ \A x : Contains(Top.left, x) <=> x = Head(Top.left) \/ Contains(Tail(Top.left), x)
         /\ Distinct(Top.left) => Distinct(Tail(Top.left)) /\ ~Contains(Tail(Top.left), Head(Top.left))
         /\ stack' \in Seq(Frames)
         /\ stack'[Len(stack)].call = "flush" /\ stack'[Len(stack)].left = Tail(Top.left)
         /\ \A i \in 1 .. Len(stack) - 1 : stack'[i] = stack[i]
         /\ state[Head(Top.left)] = CLEAN => Len(stack') = Len(stack) /\ Top' = stack'[Len(stack)]
         /\ state[Head(Top.left)] # CLEAN =>
              /\ Len(stack') = Len(stack) + 1 /\ Top' = stack'[Len(stack) + 1]
              /\ stack'[Len(stack) + 1] = Pull(Head(Top.left))
         /\ UNCHANGED <<calls, value, state, graph, pendingEffects, batchDepth, life, saw, history>>
<1>1. In("flush") /\ ~Idle /\ Top.call = "flush" /\ Top.left # <<>> BY DEF FlushNext, In
<1>2. Top \in Frames /\ Len(stack) \in Nat \ {0} /\ Top = stack[Len(stack)] BY <1>1, TopFacts
<1>3. PICK top : top = Top OBVIOUS
<1>4. PICK l : l = Top.left OBVIOUS
<1>5. l \in Seq(Effects) /\ l # <<>> BY <1>1, <1>2, <1>4, FrameKinds
<1>6. /\ Head(l) \in Effects /\ Tail(l) \in Seq(Effects)
      /\ \A x : Contains(l, x) <=> x = Head(l) \/ Contains(Tail(l), x)
      /\ Distinct(l) => Distinct(Tail(l)) /\ ~Contains(Tail(l), Head(l))
  BY <1>5, ContainsTail
<1>7. PICK t : t = Tail(l) OBVIOUS
<1>8. PICK g : g = [top EXCEPT !.left = t] OBVIOUS
<1>9. g \in Frames /\ g.call = "flush" /\ g.left = t
  <2>1. top \in Frames /\ top.call = "flush" /\ t \in Seq(Effects) BY <1>1, <1>2, <1>3, <1>6, <1>7
  <2>2. LET h == [top EXCEPT !.left = t] IN h \in Frames /\ h.call = "flush" /\ h.left = t
    BY <2>1, FlushFrames
  <2> QED BY <1>8, <2>2
<1>10. PICK f : f = Pull(Head(l)) OBVIOUS
<1>11. f \in Frames BY <1>6, <1>10, NewFrames, NodeKinds
<1>12. /\ IF state[Head(l)] # CLEAN THEN Calls(g, f) ELSE GoesOn(g)
       /\ UNCHANGED <<calls, value, state, graph, pendingEffects, batchDepth, life, saw, history>>
  BY <1>3, <1>4, <1>7, <1>8, <1>10 DEF FlushNext
<1>13. CASE state[Head(l)] # CLEAN
  <2>1. Calls(g, f) BY <1>12, <1>13
  <2>2. /\ stack' \in Seq(Frames) /\ stack' # <<>> /\ Len(stack') = Len(stack) + 1
        /\ stack'[Len(stack)] = g /\ stack'[Len(stack) + 1] = f /\ Top' = f
        /\ \A i \in 1 .. Len(stack) - 1 : stack'[i] = stack[i]
    BY <1>1, <1>9, <1>11, <2>1, CallsIs
  <2> QED BY <1>1, <1>2, <1>4, <1>5, <1>6, <1>7, <1>9, <1>10, <1>12, <1>13, <2>2
<1>14. CASE state[Head(l)] = CLEAN
  <2>1. GoesOn(g) BY <1>12, <1>14
  <2>2. /\ stack' \in Seq(Frames) /\ Len(stack') = Len(stack) /\ stack'[Len(stack)] = g /\ Top' = g
        /\ \A i \in 1 .. Len(stack) - 1 : stack'[i] = stack[i]
    BY <1>1, <1>9, <2>1, GoesOnIs
  <2> QED BY <1>1, <1>2, <1>4, <1>5, <1>6, <1>7, <1>9, <1>12, <1>14, <2>2
<1> QED BY <1>13, <1>14

\* MarkDone and FlushDone only return.
LEMMA DoneIs ==
  ASSUME TypeOK, MarkDone \/ FlushDone
  PROVE  /\ ~Idle /\ Top = stack[Len(stack)] /\ Len(stack) \in Nat \ {0} /\ Top \in Frames
         /\ \/ In("mark")
            \/ In("flush") /\ pendingEffects = <<>>
         /\ Top.left = <<>>
         /\ stack' \in Seq(Frames) /\ Len(stack') = Len(stack) - 1
         /\ \A i \in 1 .. Len(stack) - 1 : stack'[i] = stack[i]
         /\ ~Idle' => Len(stack) > 1 /\ Top' = stack[Len(stack) - 1]
         /\ UNCHANGED <<calls, value, state, graph, pendingEffects, batchDepth, life, saw, history>>
<1>1. /\ ~Idle /\ Returns /\ Top.left = <<>>
      /\ \/ In("mark")
         \/ In("flush") /\ pendingEffects = <<>>
      /\ UNCHANGED <<calls, value, state, graph, pendingEffects, batchDepth, life, saw, history>>
  BY DEF MarkDone, FlushDone, In
<1>2. Top \in Frames /\ Len(stack) \in Nat \ {0} /\ Top = stack[Len(stack)] BY <1>1, TopFacts
<1>3. /\ stack' \in Seq(Frames) /\ Len(stack') = Len(stack) - 1
      /\ \A i \in 1 .. Len(stack) - 1 : stack'[i] = stack[i]
      /\ ~Idle' => Len(stack) > 1 /\ Top' = stack[Len(stack) - 1]
  BY <1>1, ReturnsIs
<1> QED BY <1>1, <1>2, <1>3

-----------------------------------------------------------------------------
(* The shape of the stack: who calls whom.  Below a call on behalf of a    *)
(* computed nothing but the flush or the effect that wanted it; above it   *)
(* only calls on nodes further down.                                       *)

\* f is called from g.
Over(f, g) ==
  \/ g.call = "pull" /\ ~g.done /\ f.call = "pull" /\ f.node \in Readable
  \/ g.call = "pull" /\ g.done /\ f.call = "run" /\ f.node = g.node
  \/ g.call = "run" /\ g.reading # Undefined /\ f.call = "pull" /\ f.node = g.reading
  \/ g.call = "run" /\ g.reading = Undefined /\ g.node \in Effects /\ f.call \in {"mark", "flush"}
  \/ g.call = "flush" /\ (f.call = "mark" \/ (f.call = "pull" /\ f.node \in Effects))

Pure(f) == f.call \in {"pull", "run"} /\ f.node \in Readable

\* Further down, or the function of the node being pulled.
Beneath(f, g) ==
  \/ Depth(f.node) < Depth(g.node)
  \/ f.call = "run" /\ g.call = "pull" /\ f.node = g.node

\* The sources still to be checked are further down.
Down(f) ==
  (f.call = "pull" /\ f.node \in Computeds) =>
    \A k \in Readable : Contains(f.left, k) => Depth(k) < Depth(f.node)

StackInv ==
  /\ \A i \in 1 .. Len(stack) - 1 : Over(stack[i + 1], stack[i])
  /\ ~Idle => stack[1].call # "run"
  /\ \A i, j \in 1 .. Len(stack) :
       (j < i /\ Pure(stack[j])) => Pure(stack[i]) /\ Beneath(stack[i], stack[j])
  /\ \A i \in 1 .. Len(stack) : Down(stack[i])

\* The fields of a frame of the stack.
LEMMA FrameTypes ==
  ASSUME TypeOK, NEW i \in 1 .. Len(stack)
  PROVE  /\ stack[i] \in Frames
         /\ stack[i].call \in {"pull", "run", "flush", "mark"}
         /\ stack[i].call = "pull" => /\ stack[i].node \in Nodes /\ stack[i].done \in BOOLEAN
                                      /\ stack[i].left \in Seq(Readable)
         /\ stack[i].call = "run" => /\ stack[i].node \in Reactions
                                     /\ stack[i].reading \in Readable \cup {Undefined}
                                     /\ stack[i].wrote \in BOOLEAN
         /\ stack[i].call = "flush" => stack[i].left \in Seq(Effects)
         /\ stack[i].call = "mark" => stack[i].left \in Seq(Reactions \X {CHECK, DIRTY})
<1>1. stack \in Seq(Frames) BY DEF TypeOK
<1>2. PICK f : f = stack[i] OBVIOUS
<1>3. f \in Frames BY <1>1, <1>2, ElementOfSeq
<1> QED BY <1>2, <1>3, FrameKinds

\* Marking and flushing happen on behalf of no computed.
LEMMA NothingPure ==
  ASSUME TypeOK, StackInv, ~Idle, ~Pure(Top)
  PROVE  \A i \in 1 .. Len(stack) : ~Pure(stack[i])
<1>1. Top = stack[Len(stack)] /\ Len(stack) \in Nat \ {0} BY TopFacts
<1> SUFFICES ASSUME NEW i \in 1 .. Len(stack), Pure(stack[i]) PROVE FALSE
  OBVIOUS
<1>2. i # Len(stack) BY <1>1
<1>3. i < Len(stack) /\ Len(stack) \in 1 .. Len(stack) BY <1>1, <1>2
<1>4. Pure(stack[Len(stack)]) BY <1>3 DEF StackInv
<1> QED BY <1>1, <1>4

\* The stack is empty when it has no frames.
LEMMA IndexFacts ==
  ASSUME TypeOK
  PROVE  /\ Len(stack) \in Nat /\ (Idle <=> Len(stack) = 0)
         /\ \A i \in 1 .. Len(stack) : i \in Nat /\ 1 <= i /\ i <= Len(stack)
<1>1. stack \in Seq(Frames) BY DEF TypeOK
<1>2. Len(stack) \in Nat /\ (stack = <<>> <=> Len(stack) = 0) BY <1>1, LenProperties, EmptySeq
<1> QED BY <1>2 DEF Idle

\* The innermost call goes on.
LEMMA StackGoesOn ==
  ASSUME TypeOK, StackInv, ~Idle, Len(stack') = Len(stack),
         \A i \in 1 .. Len(stack) - 1 : stack'[i] = stack[i],
         stack'[Len(stack)].call = Top.call, Top.call # "pull",
         Top.call = "run" => stack'[Len(stack)].node = Top.node
  PROVE  StackInv'
<1>1. Top = stack[Len(stack)] /\ Len(stack) \in Nat \ {0} BY TopFacts
<1>2. ASSUME NEW i \in 1 .. Len(stack')
      PROVE  /\ i \in 1 .. Len(stack) /\ stack'[i].call = stack[i].call
             /\ stack[i].call = "run" => stack'[i].node = stack[i].node
             /\ i # Len(stack) => stack'[i] = stack[i]
             /\ stack[i].call = "pull" => stack'[i] = stack[i]
  <2>1. CASE i = Len(stack) BY <1>1, <2>1
  <2>2. CASE i # Len(stack)
    <3>1. i \in 1 .. Len(stack) - 1 BY <1>1, <2>2
    <3> QED BY <1>1, <2>2, <3>1
  <2> QED BY <2>1, <2>2
<1>3. ASSUME NEW i \in 1 .. Len(stack') - 1 PROVE Over(stack'[i + 1], stack'[i])
  <2>1. i \in 1 .. Len(stack) - 1 /\ i \in 1 .. Len(stack') /\ i + 1 \in 1 .. Len(stack') /\ i # Len(stack)
    BY <1>1
  <2>2. Over(stack[i + 1], stack[i]) BY <2>1 DEF StackInv
  <2>3. stack'[i] = stack[i] /\ stack'[i + 1].call = stack[i + 1].call BY <1>2, <2>1
  <2>4. stack[i + 1].call \in {"pull", "run"} => stack'[i + 1].node = stack[i + 1].node BY <1>2, <2>1
  <2> QED BY <2>2, <2>3, <2>4 DEF Over
<1>4. ~Idle' => stack'[1].call # "run"
  <2>1. 1 \in 1 .. Len(stack') BY <1>1
  <2>2. stack'[1].call = stack[1].call BY <1>2, <2>1
  <2> QED BY <2>2 DEF StackInv
<1>5. ASSUME NEW i \in 1 .. Len(stack') PROVE Pure(stack'[i]) <=> Pure(stack[i])
  BY <1>2 DEF Pure
<1>6. ASSUME NEW i \in 1 .. Len(stack'), NEW j \in 1 .. Len(stack'), j < i, Pure(stack'[j])
      PROVE  Pure(stack'[i]) /\ Beneath(stack'[i], stack'[j])
  <2>1. i \in 1 .. Len(stack) /\ j \in 1 .. Len(stack) BY <1>2
  <2>2. Pure(stack[j]) BY <1>5, <1>6
  <2>3. Pure(stack[i]) /\ Beneath(stack[i], stack[j]) BY <1>6, <2>1, <2>2 DEF StackInv
  <2>4. stack'[i].call = stack[i].call /\ stack'[i].node = stack[i].node BY <1>2, <2>3 DEF Pure
  <2>5. stack'[j].call = stack[j].call /\ stack'[j].node = stack[j].node BY <1>2, <2>2 DEF Pure
  <2> QED BY <1>5, <2>3, <2>4, <2>5 DEF Beneath
<1>7. ASSUME NEW i \in 1 .. Len(stack') PROVE Down(stack'[i])
  <2>1. i \in 1 .. Len(stack) BY <1>2
  <2>2. Down(stack[i]) BY <2>1 DEF StackInv
  <2> QED BY <1>2, <2>2 DEF Down
<1> QED BY <1>3, <1>4, <1>6, <1>7 DEF StackInv

\* It returns.
LEMMA StackReturns ==
  ASSUME TypeOK, StackInv, stack' \in Seq(Frames), Len(stack') \in Nat, Len(stack') <= Len(stack),
         \A i \in 1 .. Len(stack') : stack'[i] = stack[i]
  PROVE  StackInv'
<1>1. Len(stack) \in Nat BY IndexFacts
<1>2. ASSUME NEW i \in 1 .. Len(stack') - 1 PROVE Over(stack'[i + 1], stack'[i])
  <2>1. i \in 1 .. Len(stack) - 1 /\ i \in 1 .. Len(stack') /\ i + 1 \in 1 .. Len(stack') BY <1>1
  <2> QED BY <2>1 DEF StackInv
<1>3. ~Idle' => stack'[1].call # "run"
  <2>1. CASE Len(stack') = 0
    <3>1. stack' = <<>> BY <2>1, EmptySeq
    <3> QED BY <3>1 DEF Idle
  <2>2. CASE Len(stack') # 0
    <3>1. 1 \in 1 .. Len(stack') /\ ~Idle BY <1>1, <2>2, IndexFacts
    <3> QED BY <3>1 DEF StackInv
  <2> QED BY <2>1, <2>2
<1>4. ASSUME NEW i \in 1 .. Len(stack'), NEW j \in 1 .. Len(stack'), j < i, Pure(stack'[j])
      PROVE  Pure(stack'[i]) /\ Beneath(stack'[i], stack'[j])
  <2>1. i \in 1 .. Len(stack) /\ j \in 1 .. Len(stack) BY <1>1
  <2> QED BY <1>4, <2>1 DEF StackInv
<1>5. ASSUME NEW i \in 1 .. Len(stack') PROVE Down(stack'[i])
  <2>1. i \in 1 .. Len(stack) BY <1>1
  <2> QED BY <2>1 DEF StackInv
<1> QED BY <1>2, <1>3, <1>4, <1>5 DEF StackInv

\* It makes a call.
LEMMA StackCalls ==
  ASSUME TypeOK, StackInv, ~Idle, Len(stack') = Len(stack) + 1,
         \A i \in 1 .. Len(stack) - 1 : stack'[i] = stack[i],
         stack'[Len(stack)].call = Top.call,
         Top.call \in {"pull", "run"} => stack'[Len(stack)].node = Top.node,
         Top.call = "pull" => \A k : Contains(stack'[Len(stack)].left, k) => Contains(Top.left, k),
         Over(stack'[Len(stack) + 1], stack'[Len(stack)]),
         Pure(Top) => Pure(stack'[Len(stack) + 1]) /\ Beneath(stack'[Len(stack) + 1], Top),
         Down(stack'[Len(stack) + 1])
  PROVE  StackInv'
<1>1. Top = stack[Len(stack)] /\ Len(stack) \in Nat \ {0} BY TopFacts
<1>2. ASSUME NEW i \in 1 .. Len(stack)
      PROVE  /\ stack'[i].call = stack[i].call
             /\ stack[i].call \in {"pull", "run"} => stack'[i].node = stack[i].node
             /\ i # Len(stack) => stack'[i] = stack[i]
             /\ stack[i].call = "pull" => \A k : Contains(stack'[i].left, k) => Contains(stack[i].left, k)
  <2>1. CASE i = Len(stack) BY <1>1, <2>1
  <2>2. CASE i # Len(stack)
    <3>1. i \in 1 .. Len(stack) - 1 BY <1>1, <2>2
    <3> QED BY <1>1, <2>2, <3>1
  <2> QED BY <2>1, <2>2
<1>3. ASSUME NEW i \in 1 .. Len(stack') - 1 PROVE Over(stack'[i + 1], stack'[i])
  <2>1. CASE i = Len(stack) BY <2>1
  <2>2. CASE i # Len(stack)
    <3>1. i \in 1 .. Len(stack) - 1 /\ i \in 1 .. Len(stack) /\ i + 1 \in 1 .. Len(stack) BY <1>1, <2>2
    <3>2. Over(stack[i + 1], stack[i]) BY <3>1 DEF StackInv
    <3>3. stack'[i] = stack[i] /\ stack'[i + 1].call = stack[i + 1].call BY <1>2, <2>2, <3>1
    <3>4. stack[i + 1].call \in {"pull", "run"} => stack'[i + 1].node = stack[i + 1].node BY <1>2, <3>1
    <3> QED BY <3>2, <3>3, <3>4 DEF Over
  <2> QED BY <2>1, <2>2
<1>4. ~Idle' => stack'[1].call # "run"
  <2>1. 1 \in 1 .. Len(stack) BY <1>1
  <2>2. stack'[1].call = stack[1].call BY <1>2, <2>1
  <2> QED BY <2>2 DEF StackInv
<1>5. ASSUME NEW i \in 1 .. Len(stack) PROVE Pure(stack'[i]) <=> Pure(stack[i])
  BY <1>2 DEF Pure
<1>6. ASSUME NEW i \in 1 .. Len(stack'), NEW j \in 1 .. Len(stack'), j < i, Pure(stack'[j])
      PROVE  Pure(stack'[i]) /\ Beneath(stack'[i], stack'[j])
  <2>1. j \in 1 .. Len(stack) BY <1>1, <1>6
  <2>2. Pure(stack[j]) BY <1>5, <1>6, <2>1
  <2>3. stack'[j].call = stack[j].call /\ stack'[j].node = stack[j].node BY <1>2, <2>1, <2>2 DEF Pure
  <2>4. CASE i \in 1 .. Len(stack)
    <3>1. Pure(stack[i]) /\ Beneath(stack[i], stack[j]) BY <1>6, <2>1, <2>2, <2>4 DEF StackInv
    <3>2. stack'[i].call = stack[i].call /\ stack'[i].node = stack[i].node BY <1>2, <2>4, <3>1 DEF Pure
    <3> QED BY <1>5, <2>3, <2>4, <3>1, <3>2 DEF Beneath
  <2>5. CASE i = Len(stack) + 1
    <3>1. CASE j = Len(stack)
      <4>1. Pure(stack'[i]) /\ Beneath(stack'[i], Top) BY <1>1, <2>2, <2>5, <3>1
      <4> QED BY <1>1, <2>3, <3>1, <4>1 DEF Beneath
    <3>2. CASE j # Len(stack)
      <4>1. j < Len(stack) /\ Len(stack) \in 1 .. Len(stack) BY <1>1, <2>1, <3>2
      <4>2. Pure(Top) /\ Beneath(Top, stack[j]) BY <1>1, <2>1, <2>2, <4>1 DEF StackInv
      <4>3. Pure(stack'[i]) /\ Beneath(stack'[i], Top) BY <2>5, <4>2
      <4>4. Depth(Top.node) \in Nat /\ Depth(stack[j].node) \in Nat /\ Depth(stack'[i].node) \in Nat
        BY <2>2, <4>2, <4>3, NodeKinds DEF Pure
      <4>5. Beneath(stack'[i], stack[j])
        <5>1. CASE Depth(stack'[i].node) < Depth(Top.node)
          <6>1. Depth(Top.node) <= Depth(stack[j].node) BY <4>2, <4>4 DEF Beneath
          <6> QED BY <4>4, <5>1, <6>1 DEF Beneath
        <5>2. CASE stack'[i].call = "run" /\ Top.call = "pull" /\ stack'[i].node = Top.node
          <6>1. Depth(Top.node) < Depth(stack[j].node) BY <4>2, <5>2 DEF Beneath
          <6> QED BY <5>2, <6>1 DEF Beneath
        <5> QED BY <4>3, <5>1, <5>2 DEF Beneath
      <4> QED BY <2>3, <4>3, <4>5 DEF Beneath
    <3> QED BY <3>1, <3>2
  <2> QED BY <1>1, <2>4, <2>5
<1>7. ASSUME NEW i \in 1 .. Len(stack') PROVE Down(stack'[i])
  <2>1. CASE i \in 1 .. Len(stack)
    <3>1. Down(stack[i]) BY <2>1 DEF StackInv
    <3> QED BY <1>2, <2>1, <3>1 DEF Down
  <2>2. CASE i = Len(stack) + 1 BY <2>2
  <2> QED BY <1>1, <2>1, <2>2
<1> QED BY <1>3, <1>4, <1>6, <1>7 DEF StackInv

\* The same after a step.
LEMMA NewIndexFacts ==
  ASSUME stack' \in Seq(Frames)
  PROVE  Len(stack') \in Nat /\ (Idle' <=> Len(stack') = 0)
<1>1. Len(stack') \in Nat /\ (stack' = <<>> <=> Len(stack') = 0) BY LenProperties, EmptySeq
<1> QED BY <1>1 DEF Idle

\* A call of updateIfNecessary begins with sources below its node.
LEMMA PullDown ==
  ASSUME TypeOK, EdgesInv, NEW n \in Nodes
  PROVE  Down(Pull(n)) /\ Pull(n).call = "pull" /\ Pull(n).node = n /\ Pull(n).done = FALSE
<1>1. /\ Pull(n).call = "pull" /\ Pull(n).node = n /\ Pull(n).done = FALSE
      /\ Pull(n).left = IF state[n] = CHECK THEN sources[n] ELSE <<>>
  BY NewFrames
<1>2. ASSUME n \in Computeds, NEW k \in Readable, Contains(Pull(n).left, k) PROVE Depth(k) < Depth(n)
  <2>1. Contains(sources[n], k) BY <1>1, <1>2, Empty
  <2> QED BY <1>2, <2>1 DEF EdgesInv
<1> QED BY <1>1, <1>2 DEF Down

\* The stack of one call.
LEMMA StackOfOne ==
  ASSUME stack' \in Seq(Frames), Len(stack') = 1, stack'[1].call # "run", Down(stack'[1])
  PROVE  StackInv'
<1>1. \A i \in 1 .. Len(stack') - 1 : FALSE OBVIOUS
<1>2. \A i \in 1 .. Len(stack') : i = 1 OBVIOUS
<1>3. \A i \in 1 .. Len(stack') : Down(stack'[i]) BY <1>2
<1>4. \A i, j \in 1 .. Len(stack') : ~(j < i)
  <2> SUFFICES ASSUME NEW i \in 1 .. Len(stack'), NEW j \in 1 .. Len(stack') PROVE ~(j < i)
    OBVIOUS
  <2> QED BY <1>2
<1> QED BY <1>1, <1>3, <1>4 DEF StackInv

\* User calls.
LEMMA UserCallIs ==
  ASSUME TypeOK, NEW n \in Nodes, stack' = <<Pull(n)>>
  PROVE  /\ stack' \in Seq(Frames) /\ Len(stack') = 1 /\ stack'[1] = Pull(n) /\ Top' = Pull(n)
<1>1. PICK f : f = Pull(n) OBVIOUS
<1>2. f \in Frames /\ stack' = <<f>> BY <1>1, NewFrames
<1> QED BY <1>1, <1>2, FirstCall

\* The end of the outermost batch calls flush.
LEMMA BatchEndIs ==
  ASSUME TypeOK, BatchEnd
  PROVE  /\ Idle /\ Len(stack) = 0 /\ batchDepth > 0 /\ batchDepth' = batchDepth - 1
         /\ \/ batchDepth' = 0 /\ stack' = <<Flush>> /\ stack' \in Seq(Frames) /\ Len(stack') = 1
               /\ stack'[1] = Flush /\ Top' = Flush /\ Flush.call = "flush" /\ Flush.left = <<>>
            \/ batchDepth' # 0 /\ stack' = stack
         /\ UNCHANGED <<value, state, graph, pendingEffects, life, saw, history>>
<1>1. /\ stack = <<>> /\ batchDepth > 0 /\ batchDepth' = batchDepth - 1
      /\ stack' = IF batchDepth' = 0 THEN Append(stack, Flush) ELSE stack
      /\ UNCHANGED <<value, state, graph, pendingEffects, life, saw, history>>
  BY DEF BatchEnd, Called, Idle, Flushing
<1>2. PICK f : f = Flush OBVIOUS
<1>3. f \in Frames /\ f.call = "flush" /\ f.left = <<>> BY <1>2, NewFrames
<1>4. Append(stack, f) = <<f>> BY <1>1
<1>5. CASE batchDepth' = 0
  <2>1. stack' = <<f>> BY <1>1, <1>2, <1>4, <1>5
  <2>2. stack' \in Seq(Frames) /\ Len(stack') = 1 /\ stack'[1] = f /\ Top' = f BY <1>3, <2>1, FirstCall
  <2> QED BY <1>1, <1>2, <1>3, <1>5, <2>1, <2>2 DEF Idle
<1>6. CASE batchDepth' # 0 BY <1>1, <1>6 DEF Idle
<1> QED BY <1>5, <1>6

\* One, or more than one.
LEMMA OneOrMore ==
  ASSUME NEW n \in Nat \ {0}
  PROVE  n = 1 \/ n > 1
OBVIOUS

\* Every step keeps the order of the calls.
LEMMA StackKeeps ==
  ASSUME TypeOK, EdgesInv, StackInv, Next
  PROVE  StackInv'
<1> USE NodeKinds
<1>0. ASSUME stack' = stack PROVE StackInv'
  BY <1>0 DEF StackInv, Idle
<1>1. ASSUME NEW s \in Sigs, NEW v \in Domain(s), Set(s, v) PROVE StackInv'
  <2>1. /\ stack' \in Seq(Frames) /\ Top'.call = "mark"
        /\ batchDepth = 0 => Len(stack') = 2 /\ Top' = stack'[2] /\ stack'[1] = Flush
        /\ batchDepth # 0 => Len(stack') = 1 /\ Top' = stack'[1]
    BY <1>1, SetIs
  <2>2. Flush.call = "flush" BY NewFrames
  <2>3. CASE batchDepth # 0
    <3>1. stack'[1].call = "mark" /\ Len(stack') = 1 BY <2>1, <2>3
    <3>2. Down(stack'[1]) BY <3>1 DEF Down
    <3> QED BY <2>1, <3>1, <3>2, StackOfOne
  <2>4. CASE batchDepth = 0
    <3>1. Len(stack') = 2 /\ stack'[2].call = "mark" /\ stack'[1].call = "flush" BY <2>1, <2>2, <2>4
    <3>2. \A i \in 1 .. Len(stack') : stack'[i].call \in {"mark", "flush"}
      <4>1. \A i \in 1 .. Len(stack') : i = 1 \/ i = 2 BY <3>1
      <4> QED BY <3>1, <4>1
    <3>3. \A i \in 1 .. Len(stack') - 1 : i = 1 BY <3>1
    <3>4. \A i \in 1 .. Len(stack') : Down(stack'[i]) /\ ~Pure(stack'[i]) BY <3>2 DEF Down, Pure
    <3>5. Over(stack'[1 + 1], stack'[1]) /\ stack'[1].call # "run" BY <3>1 DEF Over
    <3> QED BY <3>3, <3>4, <3>5 DEF StackInv
  <2> QED BY <2>3, <2>4
<1>2. ASSUME NEW n \in Nodes, stack' = <<Pull(n)>> PROVE StackInv'
  <2>1. stack' \in Seq(Frames) /\ Len(stack') = 1 /\ stack'[1] = Pull(n) BY <1>2, UserCallIs
  <2>2. Down(Pull(n)) /\ Pull(n).call = "pull" BY PullDown
  <2> QED BY <2>1, <2>2, StackOfOne
<1>3. ASSUME NEW n \in Computeds, Read(n) PROVE StackInv' BY <1>2, <1>3 DEF Read
<1>4. ASSUME NEW e \in Effects, CreateEffect(e) PROVE StackInv' BY <1>0, <1>2, <1>4 DEF CreateEffect
<1>5. ASSUME NEW e \in Effects, Dispose(e) PROVE StackInv' BY <1>0, <1>5 DEF Dispose
<1>6. CASE BatchBegin BY <1>0, <1>6 DEF BatchBegin
<1>7. CASE BatchEnd
  <2>1. \/ /\ stack' \in Seq(Frames) /\ Len(stack') = 1 /\ stack'[1] = Flush
           /\ Flush.call = "flush"
        \/ stack' = stack
    BY <1>7, BatchEndIs
  <2> QED BY <1>0, <2>1, StackOfOne DEF Down
<1>8. CASE MarkStale
  <2>1. /\ ~Idle /\ Top.call = "mark" /\ Len(stack') = Len(stack)
        /\ stack'[Len(stack)].call = "mark"
        /\ \A i \in 1 .. Len(stack) - 1 : stack'[i] = stack[i]
    <3>1. /\ In("mark") /\ Len(stack') = Len(stack) /\ stack'[Len(stack)] = Top' /\ Top'.call = "mark"
          /\ \A i \in 1 .. Len(stack) - 1 : stack'[i] = stack[i]
      BY <1>8, MarkStaleIs
    <3> QED BY <3>1 DEF In
  <2> QED BY <2>1, StackGoesOn
<1>9. ASSUME stack' \in Seq(Frames), Len(stack') = Len(stack) - 1, Len(stack) \in Nat \ {0},
             \A i \in 1 .. Len(stack) - 1 : stack'[i] = stack[i]
      PROVE  StackInv'
  <2>1. Len(stack') \in Nat /\ Len(stack') <= Len(stack) BY <1>9
  <2> QED BY <1>9, <2>1, StackReturns
<1>10. CASE MarkDone \/ FlushDone
  <2>1. /\ stack' \in Seq(Frames) /\ Len(stack') = Len(stack) - 1 /\ Len(stack) \in Nat \ {0}
        /\ \A i \in 1 .. Len(stack) - 1 : stack'[i] = stack[i]
    BY <1>10, DoneIs
  <2> QED BY <1>9, <2>1
<1>11. CASE FlushTake
  <2>1. /\ In("flush") /\ Len(stack') = Len(stack) /\ stack'[Len(stack)].call = "flush"
        /\ \A i \in 1 .. Len(stack) - 1 : stack'[i] = stack[i]
    BY <1>11, FlushTakeIs
  <2> QED BY <2>1, StackGoesOn DEF In
<1>12. CASE FlushNext
  <2>1. /\ In("flush") /\ stack'[Len(stack)].call = "flush" /\ Head(Top.left) \in Effects
        /\ \A i \in 1 .. Len(stack) - 1 : stack'[i] = stack[i]
        /\ state[Head(Top.left)] = CLEAN => Len(stack') = Len(stack)
        /\ state[Head(Top.left)] # CLEAN =>
             Len(stack') = Len(stack) + 1 /\ stack'[Len(stack) + 1] = Pull(Head(Top.left))
    BY <1>12, FlushNextIs
  <2>2. ~Idle /\ Top.call = "flush" BY <2>1 DEF In
  <2>3. CASE state[Head(Top.left)] = CLEAN BY <2>1, <2>2, <2>3, StackGoesOn
  <2>4. CASE state[Head(Top.left)] # CLEAN
    <3>1. PICK e : e = Head(Top.left) OBVIOUS
    <3>2. e \in Effects /\ stack'[Len(stack) + 1] = Pull(e) /\ Len(stack') = Len(stack) + 1
      BY <2>1, <2>4, <3>1
    <3>3. Down(Pull(e)) /\ Pull(e).call = "pull" /\ Pull(e).node = e BY <3>2, PullDown
    <3>4. Over(stack'[Len(stack) + 1], stack'[Len(stack)]) BY <2>1, <3>2, <3>3 DEF Over
    <3>5. ~Pure(Top) BY <2>2 DEF Pure
    <3> QED BY <2>1, <2>2, <3>2, <3>3, <3>4, <3>5, StackCalls
  <2> QED BY <2>3, <2>4
<1>13. CASE PullSource
  <2>1. PICK m : m = Head(Top.left) OBVIOUS
  <2>2. /\ In("pull") /\ ~Idle /\ Top = stack[Len(stack)] /\ Len(stack) \in Nat \ {0}
        /\ ~Top.done /\ Top.node \in Reactions
        /\ m \in Readable /\ Contains(Top.left, m)
        /\ \A x : Contains(Top.left, x) <=> x = m \/ Contains(Tail(Top.left), x)
        /\ Len(stack') = Len(stack) + 1
        /\ stack'[Len(stack)].call = "pull" /\ stack'[Len(stack)].node = Top.node
        /\ stack'[Len(stack)].done = FALSE /\ stack'[Len(stack)].left = Tail(Top.left)
        /\ stack'[Len(stack) + 1] = Pull(m)
        /\ \A i \in 1 .. Len(stack) - 1 : stack'[i] = stack[i]
    BY <1>13, <2>1, PullSourceIs
  <2>3. Top.call = "pull" BY <2>2 DEF In
  <2>4. Down(Pull(m)) /\ Pull(m).call = "pull" /\ Pull(m).node = m BY <2>2, PullDown
  <2>5. Over(stack'[Len(stack) + 1], stack'[Len(stack)]) BY <2>2, <2>4 DEF Over
  <2>6. Pure(Top) => Pure(Pull(m)) /\ Beneath(Pull(m), Top)
    <3>1. Down(Top) BY <2>2 DEF StackInv
    <3> QED BY <2>2, <2>3, <2>4, <3>1 DEF Pure, Beneath, Down
  <2>7. \A k : Contains(stack'[Len(stack)].left, k) => Contains(Top.left, k) BY <2>2
  <2> QED BY <2>2, <2>3, <2>4, <2>5, <2>6, <2>7, StackCalls
<1>14. CASE PullUpdate
  <2>1. /\ In("pull") /\ ~Idle
        /\ Len(stack') = Len(stack) + 1
        /\ stack'[Len(stack)].call = "pull" /\ stack'[Len(stack)].node = Top.node
        /\ stack'[Len(stack)].done = TRUE /\ stack'[Len(stack)].left = <<>>
        /\ stack'[Len(stack) + 1].call = "run" /\ stack'[Len(stack) + 1].node = Top.node
        /\ \A i \in 1 .. Len(stack) - 1 : stack'[i] = stack[i]
    BY <1>14, PullUpdateIs
  <2>2. Top.call = "pull" BY <2>1 DEF In
  <2>3. Over(stack'[Len(stack) + 1], stack'[Len(stack)]) BY <2>1 DEF Over
  <2>4. Pure(Top) => Pure(stack'[Len(stack) + 1]) /\ Beneath(stack'[Len(stack) + 1], Top)
    BY <2>1, <2>2 DEF Pure, Beneath
  <2>5. Down(stack'[Len(stack) + 1]) BY <2>1 DEF Down
  <2>6. \A k : Contains(stack'[Len(stack)].left, k) => Contains(Top.left, k) BY <2>1, Empty
  <2> QED BY <2>1, <2>2, <2>3, <2>4, <2>5, <2>6, StackCalls
<1>15. CASE PullDone
  <2>1. /\ stack' \in Seq(Frames) /\ Len(stack') = Len(stack) - 1 /\ Len(stack) \in Nat \ {0}
        /\ \A i \in 1 .. Len(stack) - 1 : stack'[i] = stack[i]
    BY <1>15, PullDoneIs
  <2> QED BY <1>9, <2>1
<1>16. ASSUME NEW tracked \in BOOLEAN, Running(IF tracked THEN "read" ELSE "peek"),
              Reads(NextOp(Top).node, tracked)
       PROVE  StackInv'
  <2>1. PICK m : m = NextOp(Top).node OBVIOUS
  <2>2. /\ In("run") /\ ~Idle /\ Top.node \in Reactions
        /\ m \in Readable
        /\ Top.node \in Computeds => Depth(m) < Depth(Top.node)
        /\ stack'[Len(stack)].call = "run" /\ stack'[Len(stack)].node = Top.node
        /\ stack'[Len(stack)].reading = m
        /\ \A i \in 1 .. Len(stack) - 1 : stack'[i] = stack[i]
        /\ m \in Sigs => Len(stack') = Len(stack)
        /\ m \notin Sigs => Len(stack') = Len(stack) + 1 /\ stack'[Len(stack) + 1] = Pull(m)
    BY <1>16, <2>1, ReadsIs
  <2>3. Top.call = "run" BY <2>2 DEF In
  <2>4. CASE m \in Sigs BY <2>2, <2>3, <2>4, StackGoesOn
  <2>5. CASE m \notin Sigs
    <3>1. stack'[Len(stack) + 1] = Pull(m) /\ Len(stack') = Len(stack) + 1 BY <2>2, <2>5
    <3>2. Down(Pull(m)) /\ Pull(m).call = "pull" /\ Pull(m).node = m BY <2>2, PullDown
    <3>3. Over(stack'[Len(stack) + 1], stack'[Len(stack)]) BY <2>2, <3>1, <3>2 DEF Over
    <3>4. Pure(Top) => Pure(Pull(m)) /\ Beneath(Pull(m), Top) BY <2>2, <3>2 DEF Pure, Beneath
    <3> QED BY <2>2, <2>3, <3>1, <3>2, <3>3, <3>4, StackCalls
  <2> QED BY <2>4, <2>5
<1>17. CASE RunRead
  <2>1. Running(IF TRUE THEN "read" ELSE "peek") /\ Reads(NextOp(Top).node, TRUE) BY <1>17 DEF RunRead
  <2> QED BY <1>16, <2>1
<1>18. CASE RunPeek
  <2>1. Running(IF FALSE THEN "read" ELSE "peek") /\ Reads(NextOp(Top).node, FALSE) BY <1>18 DEF RunPeek
  <2> QED BY <1>16, <2>1
<1>19. CASE RunGets
  <2>1. /\ In("run") /\ ~Idle /\ Len(stack') = Len(stack)
        /\ stack'[Len(stack)].call = "run" /\ stack'[Len(stack)].node = Top.node
        /\ \A i \in 1 .. Len(stack) - 1 : stack'[i] = stack[i]
    BY <1>19, RunGetsIs
  <2> QED BY <2>1, StackGoesOn DEF In
<1>20. CASE RunWrite
  <2>1. /\ In("run") /\ ~Idle /\ Top = stack[Len(stack)] /\ Len(stack) \in Nat \ {0}
        /\ Top.node \in Effects /\ stack' \in Seq(Frames)
        /\ stack'[Len(stack)].call = "run" /\ stack'[Len(stack)].node = Top.node
        /\ stack'[Len(stack)].reading = Undefined
        /\ \A i \in 1 .. Len(stack) - 1 : stack'[i] = stack[i]
        /\ \/ Len(stack') = Len(stack)
           \/ /\ Top'.call = "mark"
              /\ batchDepth = 0 =>
                   /\ Len(stack') = Len(stack) + 2 /\ Top' = stack'[Len(stack) + 2]
                   /\ stack'[Len(stack) + 1] = Flush
              /\ batchDepth # 0 => Len(stack') = Len(stack) + 1 /\ Top' = stack'[Len(stack) + 1]
    BY <1>20, RunWriteIs
  <2>2. Top.call = "run" BY <2>1 DEF In
  <2>3. ~Pure(Top) BY <2>1, <2>2 DEF Pure
  <2>4. CASE Len(stack') = Len(stack) BY <2>1, <2>2, <2>4, StackGoesOn
  <2>5. CASE Top'.call = "mark" /\ batchDepth # 0 /\ Len(stack') = Len(stack) + 1
             /\ Top' = stack'[Len(stack) + 1]
    <3>1. Over(stack'[Len(stack) + 1], stack'[Len(stack)]) BY <2>1, <2>5 DEF Over
    <3>2. Down(stack'[Len(stack) + 1]) BY <2>5 DEF Down
    <3> QED BY <2>1, <2>2, <2>3, <2>5, <3>1, <3>2, StackCalls
  <2>6. CASE Top'.call = "mark" /\ Len(stack') = Len(stack) + 2 /\ Top' = stack'[Len(stack) + 2]
             /\ stack'[Len(stack) + 1] = Flush
    <3>1. Flush.call = "flush" BY NewFrames
    <3>2. \A i \in 1 .. Len(stack) : ~Pure(stack[i]) BY <2>1, <2>3, NothingPure
    <3>3. ASSUME NEW i \in 1 .. Len(stack')
          PROVE  \/ i \in 1 .. Len(stack) - 1 /\ stack'[i] = stack[i]
                 \/ i = Len(stack)
                 \/ i = Len(stack) + 1 /\ stack'[i].call = "flush"
                 \/ i = Len(stack) + 2 /\ stack'[i].call = "mark"
      BY <2>1, <2>6, <3>1
    <3>4. ASSUME NEW i \in 1 .. Len(stack') PROVE ~Pure(stack'[i]) /\ Down(stack'[i])
      <4>1. CASE i \in 1 .. Len(stack) - 1 /\ stack'[i] = stack[i]
        <5>1. i \in 1 .. Len(stack) BY <2>1, <4>1
        <5> QED BY <3>2, <4>1, <5>1 DEF StackInv
      <4>2. CASE i = Len(stack) BY <2>1, <4>2 DEF Pure, Down
      <4>3. CASE stack'[i].call \in {"flush", "mark"} BY <4>3 DEF Pure, Down
      <4> QED BY <3>3, <4>1, <4>2, <4>3
    <3>5. ASSUME NEW i \in 1 .. Len(stack') - 1 PROVE Over(stack'[i + 1], stack'[i])
      <4>1. CASE i \in 1 .. Len(stack) - 1
        <5>1. Over(stack[i + 1], stack[i]) /\ stack'[i] = stack[i] BY <2>1, <4>1 DEF StackInv
        <5>2. CASE i + 1 = Len(stack) BY <2>1, <2>2, <5>1, <5>2 DEF Over
        <5>3. CASE i + 1 # Len(stack)
          <6>1. i + 1 \in 1 .. Len(stack) - 1 BY <2>1, <4>1, <5>3
          <6> QED BY <2>1, <5>1, <6>1
        <5> QED BY <5>2, <5>3
      <4>2. CASE i = Len(stack) BY <2>1, <2>6, <3>1, <4>2 DEF Over
      <4>3. CASE i = Len(stack) + 1
        <5>1. i + 1 = Len(stack) + 2 BY <2>1, <4>3
        <5> QED BY <2>6, <3>1, <4>3, <5>1 DEF Over
      <4> QED BY <2>1, <2>6, <4>1, <4>2, <4>3
    <3>6. ~Idle' => stack'[1].call # "run"
      <4>1. CASE Len(stack) = 1
        <5>1. stack[1].call = "run" /\ ~Idle BY <2>1, <2>2, <4>1
        <5> QED BY <5>1 DEF StackInv
      <4>2. CASE Len(stack) > 1
        <5>1. 1 \in 1 .. Len(stack) - 1 BY <2>1, <4>2
        <5> QED BY <2>1, <5>1 DEF StackInv
      <4>3. Len(stack) \in Nat \ {0} BY <2>1
      <4>4. Len(stack) = 1 \/ Len(stack) > 1 BY <4>3, OneOrMore
      <4> QED BY <4>1, <4>2, <4>4
    <3> QED BY <3>4, <3>5, <3>6 DEF StackInv
  <2> QED BY <2>1, <2>4, <2>5, <2>6
<1>21. CASE RunReturn
  <2>1. /\ stack' \in Seq(Frames) /\ Len(stack') = Len(stack) - 1 /\ Len(stack) \in Nat \ {0}
        /\ \A i \in 1 .. Len(stack) - 1 : stack'[i] = stack[i]
    BY <1>21, RunReturnIs
  <2> QED BY <1>9, <2>1
<1>22. CASE RunThrow
  <2>1. stack' = <<>> /\ stack' \in Seq(Frames) /\ Len(stack') = 0 BY <1>22, EmptySeq DEF RunThrow
  <2>2. Len(stack') \in Nat /\ Len(stack') <= Len(stack) BY <2>1, IndexFacts
  <2>3. \A i \in 1 .. Len(stack') : stack'[i] = stack[i] BY <2>1
  <2> QED BY <2>1, <2>2, <2>3, StackReturns
<1> QED BY <1>1, <1>3, <1>4, <1>5, <1>6, <1>7, <1>8, <1>10, <1>11, <1>12, <1>13, <1>14,
           <1>15, <1>17, <1>18, <1>19, <1>20, <1>21, <1>22 DEF Next, UserStep

-----------------------------------------------------------------------------
(* The queue of effects: an effect waits at one place, and not while it is *)
(* being pulled.                                                           *)

Taken(e, i) == stack[i].call = "flush" /\ Contains(stack[i].left, e)
Waits(e) == Contains(pendingEffects, e) \/ \E i \in 1 .. Len(stack) : Taken(e, i)
IsPull(n, i) == stack[i].call = "pull" /\ stack[i].node = n
Pulled(n) == \E i \in 1 .. Len(stack) : IsPull(n, i)
Updating(n) == \E i \in 1 .. Len(stack) : IsPull(n, i) /\ stack[i].done

PlacesInv ==
  /\ Distinct(pendingEffects)
  /\ \A i \in 1 .. Len(stack) : stack[i].call = "flush" => Distinct(stack[i].left)
  /\ \A e \in Effects : \A i \in 1 .. Len(stack) : Taken(e, i) => ~Contains(pendingEffects, e)
  /\ \A e \in Effects : \A i, j \in 1 .. Len(stack) : Taken(e, i) /\ Taken(e, j) => i = j
  /\ \A e \in Effects : \A i, j \in 1 .. Len(stack) : IsPull(e, i) /\ IsPull(e, j) => i = j
  /\ \A e \in Effects : Pulled(e) => ~Waits(e) /\ state[e] # CLEAN

LifeInv ==
  /\ \A e \in Effects : Waits(e) => state[e] # CLEAN \/ life[e] = "disposed"
  /\ \A e \in Effects : life[e] = "disposed" => sources[e] = <<>> /\ state[e] = CLEAN
  /\ \A e \in Effects :
       life[e] = "none" => sources[e] = <<>> /\ state[e] = DIRTY /\ ~Waits(e) /\ ~Pulled(e)
  /\ \A e \in Effects, c \in Colours :
       In("mark") /\ Contains(Top.left, <<e, c>>) => life[e] = "live"

\* update leaves the node DIRTY until its function has returned.
RunsDirty ==
  \A i \in 1 .. Len(stack) : stack[i].call = "pull" /\ stack[i].done => state[stack[i].node] = DIRTY

QueueInv == PlacesInv /\ LifeInv /\ RunsDirty

\* A node is pulled by one call at a time.
LEMMA Alone ==
  ASSUME TypeOK, StackInv, QueueInv, NEW i \in 1 .. Len(stack), NEW j \in 1 .. Len(stack),
         stack[i].call = "pull", stack[j].call = "pull", stack[i].node = stack[j].node
  PROVE  i = j
<1>1. stack[i].node \in Nodes BY FrameTypes
<1>2. CASE stack[i].node \in Effects
  <2>1. IsPull(stack[i].node, i) /\ IsPull(stack[i].node, j) BY DEF IsPull
  <2> QED BY <1>2, <2>1 DEF QueueInv, PlacesInv
<1>3. CASE stack[i].node \in Readable
  <2>1. Pure(stack[i]) /\ Pure(stack[j]) BY <1>3 DEF Pure
  <2>2. Depth(stack[i].node) \in Nat BY <1>3, NodeKinds
  <2>3. ~(j < i)
    <3> SUFFICES ASSUME j < i PROVE FALSE OBVIOUS
    <3>1. Beneath(stack[i], stack[j]) BY <2>1 DEF StackInv
    <3> QED BY <2>2, <3>1 DEF Beneath
  <2>4. ~(i < j)
    <3> SUFFICES ASSUME i < j PROVE FALSE OBVIOUS
    <3>1. Beneath(stack[j], stack[i]) BY <2>1 DEF StackInv
    <3> QED BY <2>2, <3>1 DEF Beneath
  <2>5. i \in Nat /\ j \in Nat BY IndexFacts
  <2> QED BY <2>3, <2>4, <2>5
<1> QED BY <1>1, <1>2, <1>3, NodeKinds

\* A function runs on behalf of the update of its node.
LEMMA RunUnder ==
  ASSUME TypeOK, StackInv, QueueInv, NEW i \in 1 .. Len(stack), stack[i].call = "run"
  PROVE  /\ i - 1 \in 1 .. Len(stack) /\ i - 1 \in 1 .. Len(stack) - 1 /\ i \in Nat
         /\ stack[i - 1].call = "pull" /\ stack[i - 1].done
         /\ stack[i - 1].node = stack[i].node /\ stack[i].node \in Reactions
         /\ state[stack[i].node] = DIRTY
<1>1. Len(stack) \in Nat /\ i \in Nat /\ 1 <= i /\ i <= Len(stack) BY IndexFacts
<1>2. i # 1
  <2>1. ~Idle BY <1>1, IndexFacts
  <2>2. stack[1].call # "run" BY <2>1 DEF StackInv
  <2> QED BY <2>2
<1>3. i - 1 \in 1 .. Len(stack) - 1 /\ i - 1 \in 1 .. Len(stack) /\ (i - 1) + 1 = i BY <1>1, <1>2
<1>4. Over(stack[i], stack[i - 1])
  <2>1. Over(stack[(i - 1) + 1], stack[i - 1]) BY <1>3 DEF StackInv
  <2> QED BY <1>3, <2>1
<1>5. stack[i - 1].call = "pull" /\ stack[i - 1].done /\ stack[i - 1].node = stack[i].node
  BY <1>4 DEF Over
<1>6. state[stack[i].node] = DIRTY BY <1>3, <1>5 DEF QueueInv, RunsDirty
<1>7. stack[i].node \in Reactions BY FrameTypes
<1> QED BY <1>1, <1>3, <1>5, <1>6, <1>7

\* No function runs twice at once.
LEMMA AloneRun ==
  ASSUME TypeOK, StackInv, QueueInv, NEW i \in 1 .. Len(stack), NEW j \in 1 .. Len(stack),
         stack[i].call = "run", stack[j].call = "run", stack[i].node = stack[j].node
  PROVE  i = j
<1>1. /\ i - 1 \in 1 .. Len(stack) /\ stack[i - 1].call = "pull" /\ stack[i - 1].node = stack[i].node
      /\ i \in Nat
  BY RunUnder
<1>2. /\ j - 1 \in 1 .. Len(stack) /\ stack[j - 1].call = "pull" /\ stack[j - 1].node = stack[j].node
      /\ j \in Nat
  BY RunUnder
<1>3. i - 1 = j - 1 BY <1>1, <1>2, Alone
<1> QED BY <1>1, <1>2, <1>3

\* An effect that is pulled, or has sources, is live.
LEMMA Lives ==
  ASSUME TypeOK, QueueInv, NEW e \in Effects, Pulled(e) \/ sources[e] # <<>>
  PROVE  life[e] = "live"
<1>1. life[e] \in {"none", "live", "disposed"} BY DEF TypeOK
<1>2. life[e] # "none" BY DEF QueueInv, LifeInv
<1>3. life[e] # "disposed" BY DEF QueueInv, LifeInv, PlacesInv
<1> QED BY <1>1, <1>2, <1>3

\* A frame that holds no effect.
Inert(f) == (f.call = "flush" => f.left = <<>>) /\ (f.call = "pull" => f.node \notin Effects)

\* No effect is put into the queue or taken from it, and none is pulled that was not.
LEMMA PlacesKept ==
  ASSUME TypeOK, QueueInv, stack' \in Seq(Frames), pendingEffects' = pendingEffects, life' = life,
         \A i \in 1 .. Len(stack') :
           \/ i \in 1 .. Len(stack) /\ stack'[i] = stack[i]
           \/ /\ i \in 1 .. Len(stack) /\ stack'[i].call = stack[i].call
              /\ stack[i].call \in {"pull", "run"} /\ stack'[i].node = stack[i].node
           \/ /\ i \in 1 .. Len(stack) /\ stack'[i].call = "flush" /\ stack[i].call = "flush"
              /\ Distinct(stack[i].left) => Distinct(stack'[i].left)
              /\ \A x : Contains(stack'[i].left, x) => Contains(stack[i].left, x)
           \/ Inert(stack'[i]),
         \A e \in Effects :
           \/ state'[e] = state[e]
           \/ life[e] = "live" /\ state'[e] # CLEAN
           \/ life[e] = "live" /\ ~Waits(e) /\ ~Pulled(e)',
         \A e \in Effects : sources'[e] = <<>> \/ sources'[e] = sources[e] \/ life[e] = "live",
         \A e \in Effects, c \in Colours :
           In("mark")' /\ Contains(Top'.left, <<e, c>>) => life[e] = "live"
  PROVE  PlacesInv' /\ LifeInv'
<1>1. ASSUME NEW i \in 1 .. Len(stack'), NEW e \in Effects
      PROVE  /\ Taken(e, i)' => i \in 1 .. Len(stack) /\ Taken(e, i)
             /\ IsPull(e, i)' => i \in 1 .. Len(stack) /\ IsPull(e, i)
  <2>1. CASE Inert(stack'[i])
    <3>1. ~Taken(e, i)' BY <2>1, Empty DEF Taken, Inert
    <3>2. ~IsPull(e, i)' BY <2>1 DEF IsPull, Inert
    <3> QED BY <3>1, <3>2
  <2>2. CASE i \in 1 .. Len(stack) /\ stack'[i] = stack[i] BY <2>2 DEF Taken, IsPull
  <2>3. CASE /\ i \in 1 .. Len(stack) /\ stack'[i].call = stack[i].call
             /\ stack[i].call \in {"pull", "run"} /\ stack'[i].node = stack[i].node
    BY <2>3 DEF Taken, IsPull
  <2>4. CASE /\ i \in 1 .. Len(stack) /\ stack'[i].call = "flush" /\ stack[i].call = "flush"
             /\ \A x : Contains(stack'[i].left, x) => Contains(stack[i].left, x)
    BY <2>4 DEF Taken, IsPull
  <2> QED BY <2>1, <2>2, <2>3, <2>4
<1>2. ASSUME NEW e \in Effects
      PROVE  (Waits(e)' => Waits(e)) /\ (Pulled(e)' => Pulled(e))
  BY <1>1 DEF Waits, Pulled
<1>3. ASSUME NEW i \in 1 .. Len(stack'), stack'[i].call = "flush" PROVE Distinct(stack'[i].left)
  <2>1. Distinct(<<>>) BY DEF Distinct
  <2>2. CASE Inert(stack'[i])
    <3>1. stack'[i].left = <<>> BY <1>3, <2>2 DEF Inert
    <3> QED BY <2>1, <3>1
  <2>3. CASE i \in 1 .. Len(stack) /\ stack'[i] = stack[i]
    BY <1>3, <2>3 DEF QueueInv, PlacesInv
  <2>4. CASE /\ i \in 1 .. Len(stack) /\ stack[i].call = "flush"
             /\ Distinct(stack[i].left) => Distinct(stack'[i].left)
    BY <2>4 DEF QueueInv, PlacesInv
  <2> QED BY <1>3, <2>2, <2>3, <2>4
<1>4. PlacesInv'
  <2>1. Distinct(pendingEffects)' BY DEF QueueInv, PlacesInv
  <2>2. ASSUME NEW e \in Effects, NEW i \in 1 .. Len(stack'), Taken(e, i)'
        PROVE  ~Contains(pendingEffects', e)
    BY <1>1, <2>2 DEF QueueInv, PlacesInv
  <2>3. ASSUME NEW e \in Effects, NEW i \in 1 .. Len(stack'), NEW j \in 1 .. Len(stack'),
               Taken(e, i)', Taken(e, j)'
        PROVE  i = j
    BY <1>1, <2>3 DEF QueueInv, PlacesInv
  <2>4. ASSUME NEW e \in Effects, NEW i \in 1 .. Len(stack'), NEW j \in 1 .. Len(stack'),
               IsPull(e, i)', IsPull(e, j)'
        PROVE  i = j
    BY <1>1, <2>4 DEF QueueInv, PlacesInv
  <2>5. ASSUME NEW e \in Effects, Pulled(e)' PROVE ~Waits(e)' /\ state'[e] # CLEAN
    <3>1. Pulled(e) /\ ~Waits(e) /\ state[e] # CLEAN BY <1>2, <2>5 DEF QueueInv, PlacesInv
    <3> QED BY <1>2, <2>5, <3>1
  <2> QED BY <1>3, <2>1, <2>2, <2>3, <2>4, <2>5 DEF PlacesInv
<1>5. LifeInv'
  <2>1. ASSUME NEW e \in Effects, Waits(e)' PROVE state'[e] # CLEAN \/ life'[e] = "disposed"
    <3>1. Waits(e) BY <1>2, <2>1
    <3>2. state[e] # CLEAN \/ life[e] = "disposed" BY <3>1 DEF QueueInv, LifeInv
    <3> QED BY <3>1, <3>2
  <2>2. ASSUME NEW e \in Effects, life'[e] = "disposed" PROVE sources'[e] = <<>> /\ state'[e] = CLEAN
    <3>1. sources[e] = <<>> /\ state[e] = CLEAN BY <2>2 DEF QueueInv, LifeInv
    <3> QED BY <2>2, <3>1
  <2>3. ASSUME NEW e \in Effects, life'[e] = "none"
        PROVE  sources'[e] = <<>> /\ state'[e] = DIRTY /\ ~Waits(e)' /\ ~Pulled(e)'
    <3>1. sources[e] = <<>> /\ state[e] = DIRTY /\ ~Waits(e) /\ ~Pulled(e)
      BY <2>3 DEF QueueInv, LifeInv
    <3> QED BY <1>2, <2>3, <3>1
  <2>4. ASSUME NEW e \in Effects, NEW c \in Colours, In("mark")', Contains(Top'.left, <<e, c>>)
        PROVE  life'[e] = "live"
    BY <2>4
  <2> QED BY <2>1, <2>2, <2>3, <2>4 DEF LifeInv
<1> QED BY <1>4, <1>5

\* When no node that update() is at is made other than DIRTY, all stay so.
LEMMA DirtyKept ==
  ASSUME QueueInv,
         \A i \in 1 .. Len(stack') :
           (stack'[i].call = "pull" /\ stack'[i].done) =>
             \/ state'[stack'[i].node] = DIRTY
             \/ /\ i \in 1 .. Len(stack) /\ stack'[i] = stack[i]
                /\ state[stack[i].node] = DIRTY => state'[stack[i].node] = DIRTY
  PROVE  RunsDirty'
BY DEF QueueInv, RunsDirty

\* An effect among the observers of a node is live.
LEMMA ObserverLives ==
  ASSUME TypeOK, EdgesInv, QueueInv, NEW m \in Nodes, NEW e \in Effects, Contains(observers[m], e)
  PROVE  life[e] = "live" /\ Contains(sources[e], m)
<1>1. Contains(sources[e], m) BY NodeKinds DEF EdgesInv
<1>2. sources[e] # <<>> BY <1>1, Empty
<1> QED BY <1>1, <1>2, Lives

\* The calls that change the queue.
LEMMA CreateEffectQueue ==
  ASSUME TypeOK, EdgesInv, QueueInv, NEW e \in Effects, CreateEffect(e)
  PROVE  QueueInv'
<1>1. /\ Idle /\ life[e] = "none" /\ life' = [life EXCEPT ![e] = "live"]
      /\ UNCHANGED <<value, state, graph, batchDepth, saw, history>>
  BY DEF CreateEffect, Called
<1>2. /\ life'[e] = "live" /\ \A x \in Effects \ {e} : life'[x] = life[x]
      /\ sources' = sources
  BY <1>1 DEF TypeOK, graph
<1>3. Len(stack) = 0 /\ state[e] = DIRTY /\ ~Waits(e)
  BY <1>1, IndexFacts DEF QueueInv, LifeInv
<1>4. \A i \in 1 .. Len(stack) : FALSE BY <1>3
<1>5. ~Contains(pendingEffects, e) BY <1>3 DEF Waits
<1>6. \A x : Waits(x) <=> Contains(pendingEffects, x) BY <1>4 DEF Waits
<1>7. CASE batchDepth > 0
  <2>1. pendingEffects' = Append(pendingEffects, e) /\ stack' = stack BY <1>7 DEF CreateEffect
  <2>2. PICK p : p = pendingEffects OBVIOUS
  <2>3. p \in Seq(Effects) BY <2>2 DEF TypeOK
  <2>4. /\ \A y : Contains(pendingEffects', y) <=> Contains(pendingEffects, y) \/ y = e
        /\ Distinct(pendingEffects')
    <3>1. /\ \A y : Contains(Append(p, e), y) <=> Contains(p, y) \/ y = e
          /\ Distinct(p) /\ ~Contains(p, e) => Distinct(Append(p, e))
      BY <2>3, ContainsAppend
    <3>2. Distinct(p) BY <2>2 DEF QueueInv, PlacesInv
    <3> QED BY <1>5, <2>1, <2>2, <3>1, <3>2
  <2>5. \A i \in 1 .. Len(stack') : FALSE BY <1>4, <2>1
  <2>6. \A x : (Waits(x)' <=> Contains(pendingEffects', x)) /\ ~Pulled(x)'
    BY <2>5 DEF Waits, Pulled
  <2>7. ~In("mark")' BY <1>1, <2>1 DEF In, Idle
  <2>8. PlacesInv' BY <2>4, <2>5, <2>6 DEF PlacesInv
  <2>9. LifeInv'
    <3>1. ASSUME NEW x \in Effects
          PROVE  /\ Waits(x)' => state'[x] # CLEAN \/ life'[x] = "disposed"
                 /\ life'[x] = "disposed" => sources'[x] = <<>> /\ state'[x] = CLEAN
                 /\ life'[x] = "none" => sources'[x] = <<>> /\ state'[x] = DIRTY /\ ~Waits(x)' /\ ~Pulled(x)'
      <4>1. CASE x = e BY <1>1, <1>2, <1>3, <4>1 DEF DIRTY, CLEAN
      <4>2. CASE x # e
        <5>1. Waits(x)' <=> Waits(x) BY <1>6, <2>4, <2>6, <4>2
        <5> QED BY <1>1, <1>2, <2>6, <4>2, <5>1 DEF QueueInv, LifeInv
      <4> QED BY <4>1, <4>2
    <3> QED BY <2>7, <3>1 DEF LifeInv
  <2>10. RunsDirty' BY <2>5 DEF RunsDirty
  <2> QED BY <2>8, <2>9, <2>10 DEF QueueInv
<1>8. CASE ~(batchDepth > 0)
  <2>1. pendingEffects' = pendingEffects /\ stack' = <<Pull(e)>> BY <1>8 DEF CreateEffect
  <2>2. e \in Nodes BY NodeKinds
  <2>3. stack' \in Seq(Frames) /\ Len(stack') = 1 /\ stack'[1] = Pull(e) /\ Top' = Pull(e)
    BY <2>1, <2>2, UserCallIs
  <2>4. Pull(e).call = "pull" /\ Pull(e).node = e /\ Pull(e).done = FALSE BY <2>2, PullDown
  <2>5. \A i \in 1 .. Len(stack') : i = 1 /\ stack'[i].call = "pull" /\ stack'[i].node = e
                                    /\ stack'[i].done = FALSE
    BY <2>3, <2>4
  <2>6. \A x : /\ Waits(x)' <=> Contains(pendingEffects, x)
               /\ Pulled(x)' => x = e
    BY <2>1, <2>5 DEF Waits, Pulled, Taken, IsPull
  <2>7. \A x : \A i \in 1 .. Len(stack') : ~Taken(x, i)' BY <2>5 DEF Taken
  <2>8. ~In("mark")' BY <2>3, <2>4 DEF In
  <2>9. PlacesInv'
    <3>1. Distinct(pendingEffects)' BY <2>1 DEF QueueInv, PlacesInv
    <3>2. \A x \in Effects : Pulled(x)' => ~Waits(x)' /\ state'[x] # CLEAN
      BY <1>1, <1>3, <1>6, <2>6 DEF DIRTY, CLEAN
    <3>3. \A i, j \in 1 .. Len(stack') : i = j BY <2>5
    <3> QED BY <2>5, <2>7, <3>1, <3>2, <3>3 DEF PlacesInv
  <2>10. LifeInv'
    <3>1. ASSUME NEW x \in Effects
          PROVE  /\ Waits(x)' => state'[x] # CLEAN \/ life'[x] = "disposed"
                 /\ life'[x] = "disposed" => sources'[x] = <<>> /\ state'[x] = CLEAN
                 /\ life'[x] = "none" => sources'[x] = <<>> /\ state'[x] = DIRTY /\ ~Waits(x)' /\ ~Pulled(x)'
      <4>1. CASE x = e BY <1>1, <1>2, <1>3, <4>1 DEF DIRTY, CLEAN
      <4>2. CASE x # e
        <5>1. (Waits(x)' <=> Waits(x)) /\ ~Pulled(x)' BY <1>6, <2>6, <4>2
        <5> QED BY <1>1, <1>2, <4>2, <5>1 DEF QueueInv, LifeInv
      <4> QED BY <4>1, <4>2
    <3> QED BY <2>8, <3>1 DEF LifeInv
  <2>11. RunsDirty' BY <2>5 DEF RunsDirty
  <2> QED BY <2>9, <2>10, <2>11 DEF QueueInv
<1> QED BY <1>7, <1>8

\* dispose(): a disposed effect stays in the queue, CLEAN, and the flush passes it by.
LEMMA DisposeQueue ==
  ASSUME TypeOK, EdgesInv, QueueInv, NEW e \in Effects, Dispose(e)
  PROVE  QueueInv'
<1>1. /\ Idle /\ life[e] = "live" /\ life' = [life EXCEPT ![e] = "disposed"]
      /\ sources' = [sources EXCEPT ![e] = <<>>] /\ state' = [state EXCEPT ![e] = CLEAN]
      /\ UNCHANGED <<value, pendingEffects, batchDepth, stack, saw, history>>
  BY DEF Dispose, Called
<1>2. e \in Nodes /\ Effects \subseteq Nodes BY NodeKinds
<1>3. /\ life'[e] = "disposed" /\ \A x \in Effects \ {e} : life'[x] = life[x]
      /\ sources'[e] = <<>> /\ \A x \in Effects \ {e} : sources'[x] = sources[x]
      /\ state'[e] = CLEAN /\ \A x \in Effects \ {e} : state'[x] = state[x]
  BY <1>1, <1>2 DEF TypeOK
<1>4. \A i \in 1 .. Len(stack) : FALSE BY <1>1, IndexFacts
<1>5. \A i \in 1 .. Len(stack') : FALSE BY <1>1, <1>4
<1>6. \A x : (Waits(x)' <=> Waits(x)) /\ ~Pulled(x)' BY <1>1, <1>4, <1>5 DEF Waits, Pulled
<1>7. ~In("mark")' BY <1>1 DEF In, Idle
<1>8. PlacesInv' BY <1>1, <1>5, <1>6 DEF QueueInv, PlacesInv
<1>9. LifeInv'
  <2>1. ASSUME NEW x \in Effects
        PROVE  /\ Waits(x)' => state'[x] # CLEAN \/ life'[x] = "disposed"
               /\ life'[x] = "disposed" => sources'[x] = <<>> /\ state'[x] = CLEAN
               /\ life'[x] = "none" => sources'[x] = <<>> /\ state'[x] = DIRTY /\ ~Waits(x)' /\ ~Pulled(x)'
    <3>1. CASE x = e BY <1>3, <3>1
    <3>2. CASE x # e BY <1>3, <1>6, <3>2 DEF QueueInv, LifeInv
    <3> QED BY <3>1, <3>2
  <2> QED BY <1>7, <2>1 DEF LifeInv
<1>10. RunsDirty' BY <1>5 DEF RunsDirty
<1> QED BY <1>8, <1>9, <1>10 DEF QueueInv

\* markStale queues an effect only when it finds it CLEAN, so once.
LEMMA MarkStaleQueue ==
  ASSUME TypeOK, EdgesInv, QueueInv, MarkStale
  PROVE  QueueInv'
<1>1. PICK n : n = Head(Top.left)[1] OBVIOUS
<1>2. PICK c : c = Head(Top.left)[2] OBVIOUS
<1>3. /\ In("mark") /\ n \in Reactions /\ c \in {CHECK, DIRTY}
      /\ \A x : Contains(Top.left, x) <=> x = <<n, c>> \/ Contains(Tail(Top.left), x)
      /\ stack' \in Seq(Frames) /\ Len(stack') = Len(stack) /\ Len(stack) \in Nat \ {0}
      /\ stack'[Len(stack)] = Top' /\ Top'.call = "mark"
      /\ \A i \in 1 .. Len(stack) - 1 : stack'[i] = stack[i]
      /\ \/ /\ Top'.left = Tail(Top.left)
            /\ UNCHANGED <<state, pendingEffects>>
         \/ /\ ~(state[n] >= c) /\ state' = [state EXCEPT ![n] = c] /\ Queue(n, c)
            /\ \A x : Contains(Top'.left, x) <=>
                 (\E k \in Reactions : x = <<k, CHECK>> /\ Contains(observers[n], k))
                   \/ Contains(Tail(Top.left), x)
      /\ UNCHANGED <<calls, value, graph, batchDepth, life, saw, history>>
  BY <1>1, <1>2, MarkStaleIs
<1>4. Top = stack[Len(stack)] /\ Top.call = "mark" BY <1>3, TopFacts DEF In
<1>5. ASSUME NEW i \in 1 .. Len(stack')
      PROVE  i \in 1 .. Len(stack) /\ (stack'[i] = stack[i] \/ (stack'[i].call = "mark" /\ stack[i].call = "mark"))
  <2>1. CASE i = Len(stack) BY <1>3, <1>4, <2>1
  <2>2. CASE i # Len(stack)
    <3>1. i \in 1 .. Len(stack) - 1 BY <1>3, <2>2
    <3> QED BY <1>3, <3>1
  <2> QED BY <2>1, <2>2
<1>6. \A i \in 1 .. Len(stack') : stack'[i] = stack[i] \/ Inert(stack'[i])
  BY <1>5 DEF Inert
<1>7. sources' = sources /\ life' = life BY <1>3 DEF graph
<1>8. n \in Nodes /\ Effects \subseteq Nodes BY <1>3, NodeKinds
<1>9. n \in Effects => life[n] = "live"
  <2>1. Contains(Top.left, <<n, c>>) BY <1>3
  <2>2. c \in Colours BY <1>3 DEF Colours
  <2> QED BY <1>3, <2>1, <2>2 DEF QueueInv, LifeInv
<1>10. ASSUME NEW e \in Effects, NEW d \in Colours, Contains(Top'.left, <<e, d>>)
       PROVE  life[e] = "live"
  <2>1. CASE Contains(Tail(Top.left), <<e, d>>)
    <3>1. Contains(Top.left, <<e, d>>) BY <1>3, <2>1
    <3> QED BY <1>3, <3>1 DEF QueueInv, LifeInv
  <2>2. CASE \E k \in Reactions : <<e, d>> = <<k, CHECK>> /\ Contains(observers[n], k)
    <3>1. Contains(observers[n], e) BY <2>2
    <3> QED BY <1>8, <3>1, ObserverLives
  <2> QED BY <1>3, <1>10, <2>1, <2>2
<1>11. \A x \in Nodes : \/ state'[x] = state[x]
                        \/ x = n /\ state'[x] = c /\ ~(state[x] >= c)
  BY <1>3, <1>8 DEF TypeOK
<1>12. \A x \in Nodes : state[x] = DIRTY => state'[x] = DIRTY
  BY <1>3, <1>11 DEF DIRTY, CHECK
<1>13. RunsDirty'
  <2>1. ASSUME NEW i \in 1 .. Len(stack'), stack'[i].call = "pull"
        PROVE  /\ i \in 1 .. Len(stack) /\ stack'[i] = stack[i]
               /\ state[stack[i].node] = DIRTY => state'[stack[i].node] = DIRTY
    <3>1. i \in 1 .. Len(stack) /\ stack'[i] = stack[i] BY <1>5, <2>1
    <3>2. stack[i].node \in Nodes BY <2>1, <3>1, FrameTypes
    <3> QED BY <1>12, <3>1, <3>2
  <2> QED BY <2>1, DirtyKept
<1>14. CASE pendingEffects' = pendingEffects
  <2>1. \A e \in Effects : state'[e] = state[e] \/ (life[e] = "live" /\ state'[e] # CLEAN)
    BY <1>3, <1>8, <1>9, <1>11 DEF CLEAN, DIRTY, CHECK
  <2>2. PlacesInv' /\ LifeInv' BY <1>3, <1>5, <1>6, <1>7, <1>10, <1>14, <2>1, PlacesKept
  <2> QED BY <1>13, <2>2 DEF QueueInv
<1>15. CASE pendingEffects' # pendingEffects
  <2>1. /\ n \in Effects /\ state[n] = CLEAN /\ pendingEffects' = Append(pendingEffects, n)
        /\ state'[n] = c
    BY <1>3, <1>8, <1>15 DEF Queue, TypeOK
  <2>2. life[n] = "live" BY <1>9, <2>1
  <2>3. ~Waits(n) /\ ~Pulled(n) BY <2>1, <2>2 DEF QueueInv, LifeInv, PlacesInv
  <2>4. ~Contains(pendingEffects, n) /\ \A i \in 1 .. Len(stack) : ~Taken(n, i) /\ ~IsPull(n, i)
    BY <2>3 DEF Waits, Pulled
  <2>5. PICK p : p = pendingEffects OBVIOUS
  <2>6. p \in Seq(Effects) /\ Distinct(p) BY <2>5 DEF TypeOK, QueueInv, PlacesInv
  <2>7. /\ \A y : Contains(Append(p, n), y) <=> Contains(p, y) \/ y = n
        /\ Distinct(p) /\ ~Contains(p, n) => Distinct(Append(p, n))
    BY <2>1, <2>6, ContainsAppend
  <2>8. /\ \A y : Contains(pendingEffects', y) <=> Contains(pendingEffects, y) \/ y = n
        /\ Distinct(pendingEffects')
    BY <2>1, <2>4, <2>5, <2>6, <2>7
  <2>9. ASSUME NEW e, NEW i \in 1 .. Len(stack')
        PROVE  i \in 1 .. Len(stack) /\ (Taken(e, i)' => Taken(e, i)) /\ (IsPull(e, i)' => IsPull(e, i))
    BY <1>5 DEF Taken, IsPull
  <2>10. ASSUME NEW e
         PROVE  (Waits(e)' => Waits(e) \/ e = n) /\ (Pulled(e)' => Pulled(e))
    BY <2>8, <2>9 DEF Waits, Pulled
  <2>11. PlacesInv'
    <3>1. ASSUME NEW i \in 1 .. Len(stack'), stack'[i].call = "flush" PROVE Distinct(stack'[i].left)
      BY <1>5, <3>1 DEF QueueInv, PlacesInv
    <3>2. ASSUME NEW e \in Effects, NEW i \in 1 .. Len(stack'), Taken(e, i)'
          PROVE  ~Contains(pendingEffects', e)
      BY <2>4, <2>8, <2>9, <3>2 DEF QueueInv, PlacesInv
    <3>3. ASSUME NEW e \in Effects, NEW i \in 1 .. Len(stack'), NEW j \in 1 .. Len(stack'),
                 Taken(e, i)', Taken(e, j)'
          PROVE  i = j
      BY <2>9, <3>3 DEF QueueInv, PlacesInv
    <3>4. ASSUME NEW e \in Effects, NEW i \in 1 .. Len(stack'), NEW j \in 1 .. Len(stack'),
                 IsPull(e, i)', IsPull(e, j)'
          PROVE  i = j
      BY <2>9, <3>4 DEF QueueInv, PlacesInv
    <3>5. ASSUME NEW e \in Effects, Pulled(e)' PROVE ~Waits(e)' /\ state'[e] # CLEAN
      <4>1. Pulled(e) /\ e # n BY <2>3, <2>10, <3>5
      <4>2. ~Waits(e) /\ state[e] # CLEAN BY <4>1 DEF QueueInv, PlacesInv
      <4>3. state'[e] = state[e] BY <1>8, <1>11, <4>1
      <4> QED BY <2>10, <4>1, <4>2, <4>3
    <3> QED BY <2>8, <3>1, <3>2, <3>3, <3>4, <3>5 DEF PlacesInv
  <2>12. LifeInv'
    <3>1. ASSUME NEW x \in Effects
          PROVE  /\ Waits(x)' => state'[x] # CLEAN \/ life'[x] = "disposed"
                 /\ life'[x] = "disposed" => sources'[x] = <<>> /\ state'[x] = CLEAN
                 /\ life'[x] = "none" => sources'[x] = <<>> /\ state'[x] = DIRTY /\ ~Waits(x)' /\ ~Pulled(x)'
      <4>1. CASE x = n BY <1>3, <1>7, <2>1, <2>2, <4>1 DEF CLEAN, CHECK, DIRTY
      <4>2. CASE x # n
        <5>1. state'[x] = state[x] BY <1>8, <1>11, <4>2
        <5>2. (Waits(x)' => Waits(x)) /\ (Pulled(x)' => Pulled(x)) BY <2>10, <4>2
        <5> QED BY <1>7, <5>1, <5>2 DEF QueueInv, LifeInv
      <4> QED BY <4>1, <4>2
    <3>2. \A e \in Effects, d \in Colours : Contains(Top'.left, <<e, d>>) => life'[e] = "live"
      BY <1>7, <1>10
    <3> QED BY <3>1, <3>2 DEF LifeInv
  <2> QED BY <1>13, <2>11, <2>12 DEF QueueInv
<1> QED BY <1>14, <1>15

\* The queue moves into the flush.
LEMMA FlushTakeQueue ==
  ASSUME TypeOK, QueueInv, FlushTake
  PROVE  QueueInv'
<1>1. /\ ~Idle /\ Top = stack[Len(stack)] /\ Len(stack) \in Nat \ {0}
      /\ In("flush") /\ Top.left = <<>> /\ pendingEffects' = <<>>
      /\ stack' \in Seq(Frames) /\ Len(stack') = Len(stack) /\ Top' = stack'[Len(stack)]
      /\ stack'[Len(stack)].call = "flush" /\ stack'[Len(stack)].left = pendingEffects
      /\ \A i \in 1 .. Len(stack) - 1 : stack'[i] = stack[i]
      /\ UNCHANGED <<calls, value, state, graph, batchDepth, life, saw, history>>
  BY FlushTakeIs
<1>2. Top.call = "flush" BY <1>1 DEF In
<1>3. ASSUME NEW i \in 1 .. Len(stack')
      PROVE  /\ i \in 1 .. Len(stack)
             /\ i # Len(stack) => stack'[i] = stack[i]
  <2>1. CASE i = Len(stack) BY <1>1, <2>1
  <2>2. CASE i # Len(stack)
    <3>1. i \in 1 .. Len(stack) - 1 BY <1>1, <2>2
    <3> QED BY <1>1, <3>1
  <2> QED BY <2>1, <2>2
<1>4. \A e : ~Contains(pendingEffects', e) /\ ~Contains(Top.left, e) BY <1>1, Empty
<1>5. Len(stack) \in 1 .. Len(stack) BY <1>1
<1>6. ASSUME NEW e \in Effects, NEW i \in 1 .. Len(stack'), Taken(e, i)'
      PROVE  \/ i = Len(stack) /\ Contains(pendingEffects, e)
             \/ i # Len(stack) /\ Taken(e, i) /\ ~Contains(pendingEffects, e)
  <2>1. CASE i = Len(stack) BY <1>1, <1>6, <2>1 DEF Taken
  <2>2. CASE i # Len(stack) BY <1>3, <1>6, <2>2 DEF Taken, QueueInv, PlacesInv
  <2> QED BY <2>1, <2>2
<1>7. ASSUME NEW e \in Effects, NEW i \in 1 .. Len(stack'), IsPull(e, i)'
      PROVE  i \in 1 .. Len(stack) /\ IsPull(e, i)
  <2>1. i # Len(stack) BY <1>1, <1>7 DEF IsPull
  <2> QED BY <1>3, <1>7, <2>1 DEF IsPull
<1>8. ASSUME NEW e \in Effects PROVE (Waits(e)' => Waits(e)) /\ (Pulled(e)' => Pulled(e))
  <2>1. ASSUME Waits(e)' PROVE Waits(e)
    <3>1. PICK i \in 1 .. Len(stack') : Taken(e, i)' BY <1>4, <2>1 DEF Waits
    <3> QED BY <1>3, <1>6, <3>1 DEF Waits
  <2>2. Pulled(e)' => Pulled(e) BY <1>7 DEF Pulled
  <2> QED BY <2>1, <2>2
<1>9. PlacesInv'
  <2>1. Distinct(pendingEffects') BY <1>1 DEF Distinct
  <2>2. ASSUME NEW i \in 1 .. Len(stack'), stack'[i].call = "flush" PROVE Distinct(stack'[i].left)
    <3>1. CASE i = Len(stack) BY <1>1, <3>1 DEF QueueInv, PlacesInv
    <3>2. CASE i # Len(stack) BY <1>3, <2>2, <3>2 DEF QueueInv, PlacesInv
    <3> QED BY <3>1, <3>2
  <2>3. ASSUME NEW e \in Effects, NEW i \in 1 .. Len(stack'), NEW j \in 1 .. Len(stack'),
               Taken(e, i)', Taken(e, j)'
        PROVE  i = j
    BY <1>3, <1>6, <2>3 DEF QueueInv, PlacesInv
  <2>4. ASSUME NEW e \in Effects, NEW i \in 1 .. Len(stack'), NEW j \in 1 .. Len(stack'),
               IsPull(e, i)', IsPull(e, j)'
        PROVE  i = j
    BY <1>7, <2>4 DEF QueueInv, PlacesInv
  <2>5. ASSUME NEW e \in Effects, Pulled(e)' PROVE ~Waits(e)' /\ state'[e] # CLEAN
    BY <1>1, <1>8, <2>5 DEF QueueInv, PlacesInv
  <2>6. \A e \in Effects : \A i \in 1 .. Len(stack') : Taken(e, i)' => ~Contains(pendingEffects', e)
    BY <1>4
  <2> QED BY <2>1, <2>2, <2>3, <2>4, <2>5, <2>6 DEF PlacesInv
<1>10. LifeInv'
  <2>1. ~In("mark")' BY <1>1 DEF In
  <2>2. sources' = sources /\ life' = life /\ state' = state BY <1>1 DEF graph
  <2>3. ASSUME NEW x \in Effects
        PROVE  /\ Waits(x)' => state'[x] # CLEAN \/ life'[x] = "disposed"
               /\ life'[x] = "disposed" => sources'[x] = <<>> /\ state'[x] = CLEAN
               /\ life'[x] = "none" => sources'[x] = <<>> /\ state'[x] = DIRTY /\ ~Waits(x)' /\ ~Pulled(x)'
    BY <1>8, <2>2 DEF QueueInv, LifeInv
  <2> QED BY <2>1, <2>3 DEF LifeInv
<1>11. RunsDirty'
  <2>1. ASSUME NEW i \in 1 .. Len(stack'), stack'[i].call = "pull"
        PROVE  i \in 1 .. Len(stack) /\ stack'[i] = stack[i]
    BY <1>1, <1>3, <2>1
  <2> QED BY <1>1, <2>1, DirtyKept
<1> QED BY <1>9, <1>10, <1>11 DEF QueueInv

\* The head of a flush is pulled, or dropped.
LEMMA FlushNextQueue ==
  ASSUME TypeOK, EdgesInv, QueueInv, FlushNext
  PROVE  QueueInv'
<1>1. PICK n : n = Head(Top.left) OBVIOUS
<1>2. /\ ~Idle /\ Top = stack[Len(stack)] /\ Len(stack) \in Nat \ {0}
      /\ In("flush") /\ n \in Effects
      /\ \A x : Contains(Top.left, x) <=> x = n \/ Contains(Tail(Top.left), x)
      /\ Distinct(Top.left) => Distinct(Tail(Top.left)) /\ ~Contains(Tail(Top.left), n)
      /\ stack' \in Seq(Frames)
      /\ stack'[Len(stack)].call = "flush" /\ stack'[Len(stack)].left = Tail(Top.left)
      /\ \A i \in 1 .. Len(stack) - 1 : stack'[i] = stack[i]
      /\ state[n] = CLEAN => Len(stack') = Len(stack) /\ Top' = stack'[Len(stack)]
      /\ state[n] # CLEAN =>
           Len(stack') = Len(stack) + 1 /\ Top' = stack'[Len(stack) + 1]
           /\ stack'[Len(stack) + 1] = Pull(n)
      /\ UNCHANGED <<calls, value, state, graph, pendingEffects, batchDepth, life, saw, history>>
  BY <1>1, FlushNextIs
<1>3. Top.call = "flush" BY <1>2 DEF In
<1>4. n \in Nodes BY <1>2, NodeKinds
<1>5. Pull(n).call = "pull" /\ Pull(n).node = n /\ Pull(n).done = FALSE BY <1>4, PullDown
<1>6. sources' = sources /\ life' = life /\ state' = state BY <1>2 DEF graph
<1>7. ~In("mark")'
  <2>1. Top'.call # "mark" BY <1>2, <1>5
  <2> QED BY <2>1 DEF In
<1>8. ASSUME NEW i \in 1 .. Len(stack')
      PROVE  \/ i \in 1 .. Len(stack) /\ i # Len(stack) /\ stack'[i] = stack[i]
             \/ i = Len(stack)
             \/ i = Len(stack) + 1 /\ state[n] # CLEAN /\ stack'[i] = Pull(n)
  <2>1. CASE i \in 1 .. Len(stack) - 1 BY <1>2, <2>1
  <2>2. CASE i = Len(stack) + 1 BY <1>2, <2>2
  <2> QED BY <1>2, <2>1, <2>2
<1>9. Len(stack) \in 1 .. Len(stack) /\ Distinct(Top.left)
  BY <1>2, <1>3 DEF QueueInv, PlacesInv
<1>10. RunsDirty'
  <2>1. ASSUME NEW i \in 1 .. Len(stack'), stack'[i].call = "pull", stack'[i].done
        PROVE  i \in 1 .. Len(stack) /\ stack'[i] = stack[i]
    BY <1>2, <1>5, <1>8, <2>1
  <2> QED BY <1>6, <2>1, DirtyKept
<1>11. Taken(n, Len(stack)) /\ Waits(n) BY <1>2, <1>3, <1>9 DEF Taken, Waits
<1>12. ~Contains(pendingEffects, n) /\ ~Pulled(n)
  BY <1>2, <1>9, <1>11 DEF QueueInv, PlacesInv
<1>13. ASSUME NEW e \in Effects, NEW i \in 1 .. Len(stack'), Taken(e, i)'
       PROVE  i \in 1 .. Len(stack) /\ Taken(e, i) /\ e # n
  <2>1. CASE i \in 1 .. Len(stack) /\ i # Len(stack) /\ stack'[i] = stack[i]
    <3>1. Taken(e, i) BY <1>13, <2>1 DEF Taken
    <3>2. e # n BY <1>9, <1>11, <2>1, <3>1 DEF QueueInv, PlacesInv
    <3> QED BY <2>1, <3>1, <3>2
  <2>2. CASE i = Len(stack)
    <3>1. Contains(Tail(Top.left), e) BY <1>2, <1>13, <2>2 DEF Taken
    <3>2. e # n /\ Contains(Top.left, e) BY <1>2, <1>9, <3>1
    <3> QED BY <1>2, <1>3, <1>9, <2>2, <3>2 DEF Taken
  <2>3. CASE stack'[i] = Pull(n) BY <1>5, <1>13, <2>3 DEF Taken
  <2> QED BY <1>8, <2>1, <2>2, <2>3
<1>14. ASSUME NEW e \in Effects, NEW i \in 1 .. Len(stack'), IsPull(e, i)'
       PROVE  \/ i \in 1 .. Len(stack) /\ IsPull(e, i)
              \/ i = Len(stack) + 1 /\ e = n /\ state[n] # CLEAN
  <2>1. CASE i \in 1 .. Len(stack) /\ stack'[i] = stack[i] BY <1>14, <2>1 DEF IsPull
  <2>2. CASE i = Len(stack) BY <1>2, <1>14, <2>2 DEF IsPull
  <2>3. CASE i = Len(stack) + 1 /\ state[n] # CLEAN /\ stack'[i] = Pull(n)
    BY <1>5, <1>14, <2>3 DEF IsPull
  <2> QED BY <1>8, <2>1, <2>2, <2>3
<1>15. ASSUME NEW e \in Effects
       PROVE  /\ Waits(e)' => Waits(e) /\ e # n
              /\ Pulled(e)' => Pulled(e) \/ (e = n /\ state[n] # CLEAN)
  <2>1. ASSUME Waits(e)' PROVE Waits(e) /\ e # n
    <3>1. CASE Contains(pendingEffects', e) BY <1>2, <1>12, <3>1 DEF Waits
    <3>2. CASE \E i \in 1 .. Len(stack') : Taken(e, i)' BY <1>13, <3>2 DEF Waits
    <3> QED BY <2>1, <3>1, <3>2 DEF Waits
  <2>2. Pulled(e)' => Pulled(e) \/ (e = n /\ state[n] # CLEAN) BY <1>14 DEF Pulled
  <2> QED BY <2>1, <2>2
<1>16. PlacesInv'
  <2>1. Distinct(pendingEffects') BY <1>2 DEF QueueInv, PlacesInv
  <2>2. ASSUME NEW i \in 1 .. Len(stack'), stack'[i].call = "flush" PROVE Distinct(stack'[i].left)
    <3>1. CASE i \in 1 .. Len(stack) /\ stack'[i] = stack[i] BY <2>2, <3>1 DEF QueueInv, PlacesInv
    <3>2. CASE i = Len(stack) BY <1>2, <1>9, <3>2
    <3>3. CASE stack'[i] = Pull(n) BY <1>5, <2>2, <3>3
    <3> QED BY <1>8, <3>1, <3>2, <3>3
  <2>3. ASSUME NEW e \in Effects, NEW i \in 1 .. Len(stack'), Taken(e, i)'
        PROVE  ~Contains(pendingEffects', e)
    BY <1>2, <1>13, <2>3 DEF QueueInv, PlacesInv
  <2>4. ASSUME NEW e \in Effects, NEW i \in 1 .. Len(stack'), NEW j \in 1 .. Len(stack'),
               Taken(e, i)', Taken(e, j)'
        PROVE  i = j
    BY <1>13, <2>4 DEF QueueInv, PlacesInv
  <2>5. ASSUME NEW e \in Effects, NEW i \in 1 .. Len(stack'), NEW j \in 1 .. Len(stack'),
               IsPull(e, i)', IsPull(e, j)'
        PROVE  i = j
    <3>1. CASE e = n
      <4>1. ~\E k \in 1 .. Len(stack) : IsPull(n, k) BY <1>12 DEF Pulled
      <4> QED BY <1>14, <2>5, <3>1, <4>1
    <3>2. CASE e # n BY <1>14, <2>5, <3>2 DEF QueueInv, PlacesInv
    <3> QED BY <3>1, <3>2
  <2>6. ASSUME NEW e \in Effects, Pulled(e)' PROVE ~Waits(e)' /\ state'[e] # CLEAN
    BY <1>6, <1>15, <2>6 DEF QueueInv, PlacesInv
  <2> QED BY <2>1, <2>2, <2>3, <2>4, <2>5, <2>6 DEF PlacesInv
<1>17. LifeInv'
  <2>1. ASSUME NEW x \in Effects
        PROVE  /\ Waits(x)' => state'[x] # CLEAN \/ life'[x] = "disposed"
               /\ life'[x] = "disposed" => sources'[x] = <<>> /\ state'[x] = CLEAN
               /\ life'[x] = "none" => sources'[x] = <<>> /\ state'[x] = DIRTY /\ ~Waits(x)' /\ ~Pulled(x)'
    BY <1>6, <1>11, <1>15 DEF QueueInv, LifeInv
  <2> QED BY <1>7, <2>1 DEF LifeInv
<1> QED BY <1>10, <1>16, <1>17 DEF QueueInv

\* Calls that leave the queue alone.
LEMMA PullFrame ==
  ASSUME TypeOK, NEW n \in Readable
  PROVE  /\ Pull(n).call = "pull" /\ Pull(n).node = n /\ Pull(n).done = FALSE
         /\ Pull(n).left = IF state[n] = CHECK THEN sources[n] ELSE <<>>
         /\ Inert(Pull(n))
<1>1. n \in Nodes /\ n \notin Effects BY NodeKinds
<1>2. /\ Pull(n).call = "pull" /\ Pull(n).node = n /\ Pull(n).done = FALSE
      /\ Pull(n).left = IF state[n] = CHECK THEN sources[n] ELSE <<>>
  BY <1>1, NewFrames
<1> QED BY <1>1, <1>2 DEF Inert

\* Every step keeps the queue, the flushes and the pulls apart.
LEMMA QueueKeeps ==
  ASSUME TypeOK, EdgesInv, StackInv, QueueInv, Next
  PROVE  QueueInv'
<1>1. ASSUME NEW s \in Sigs, NEW v \in Domain(s), Set(s, v) PROVE QueueInv'
  <2>1. /\ Idle /\ Len(stack) = 0 /\ stack' \in Seq(Frames)
        /\ batchDepth = 0 => Len(stack') = 2 /\ Top' = stack'[2] /\ stack'[1] = Flush
        /\ batchDepth # 0 => Len(stack') = 1 /\ Top' = stack'[1]
        /\ Top'.call = "mark"
        /\ \A n, c : Contains(Top'.left, <<n, c>>) <=> Contains(observers[s], n) /\ c = DIRTY
        /\ UNCHANGED <<state, graph, pendingEffects, batchDepth, life, saw, lost>>
    BY <1>1, SetIs
  <2>2. Flush.call = "flush" /\ Flush.left = <<>> BY NewFrames
  <2>3. ASSUME NEW i \in 1 .. Len(stack')
        PROVE  Inert(stack'[i]) /\ stack'[i].call # "pull"
    <3>1. stack'[i] = Flush \/ stack'[i].call = "mark"
      <4>1. CASE batchDepth = 0
        <5>1. Len(stack') = 2 BY <2>1, <4>1
        <5>2. i = 1 \/ i = 2 BY <5>1
        <5> QED BY <2>1, <4>1, <5>2
      <4>2. CASE batchDepth # 0
        <5>1. Len(stack') = 1 BY <2>1, <4>2
        <5>2. i = 1 BY <5>1
        <5> QED BY <2>1, <4>2, <5>2
      <4> QED BY <4>1, <4>2
    <3> QED BY <2>2, <3>1 DEF Inert
  <2>4. s \in Nodes BY NodeKinds
  <2>5. \A e \in Effects, c \in Colours : Contains(Top'.left, <<e, c>>) => life[e] = "live"
    BY <2>1, <2>4, ObserverLives
  <2>6. sources' = sources /\ state' = state /\ life' = life /\ pendingEffects' = pendingEffects
    BY <2>1 DEF graph
  <2>7. PlacesInv' /\ LifeInv' BY <2>1, <2>3, <2>5, <2>6, PlacesKept
  <2>8. RunsDirty' BY <2>3 DEF RunsDirty
  <2> QED BY <2>7, <2>8 DEF QueueInv
<1>2. ASSUME NEW n \in Computeds, Read(n) PROVE QueueInv'
  <2>1. /\ stack' = <<Pull(n)>>
        /\ UNCHANGED <<value, state, graph, pendingEffects, batchDepth, life, saw, history>>
    BY <1>2 DEF Read
  <2>2. n \in Nodes /\ n \in Readable BY NodeKinds
  <2>3. stack' \in Seq(Frames) /\ Len(stack') = 1 /\ stack'[1] = Pull(n) /\ Top' = Pull(n)
    BY <2>1, <2>2, UserCallIs
  <2>4. Pull(n).call = "pull" /\ Pull(n).done = FALSE /\ Inert(Pull(n)) BY <2>2, PullFrame
  <2>5. \A i \in 1 .. Len(stack') : Inert(stack'[i]) /\ stack'[i].done = FALSE BY <2>3, <2>4
  <2>6. ~In("mark")' BY <2>3, <2>4 DEF In
  <2>7. sources' = sources /\ state' = state /\ life' = life /\ pendingEffects' = pendingEffects
    BY <2>1 DEF graph
  <2>8. PlacesInv' /\ LifeInv' BY <2>3, <2>5, <2>6, <2>7, PlacesKept
  <2>9. RunsDirty' BY <2>5 DEF RunsDirty
  <2> QED BY <2>8, <2>9 DEF QueueInv
<1>3. ASSUME NEW e \in Effects, CreateEffect(e) PROVE QueueInv' BY <1>3, CreateEffectQueue
<1>4. ASSUME NEW e \in Effects, Dispose(e) PROVE QueueInv' BY <1>4, DisposeQueue
<1>5. ASSUME UNCHANGED <<state, graph, pendingEffects, stack, life>> PROVE QueueInv'
  <2>1. sources' = sources BY <1>5 DEF graph
  <2>2. PlacesInv'
    BY <1>5 DEF QueueInv, PlacesInv, Waits, Pulled, Taken, IsPull
  <2>3. LifeInv'
    BY <1>5, <2>1 DEF QueueInv, LifeInv, Waits, Pulled, Taken, IsPull, In, Idle, Top
  <2>4. RunsDirty' BY <1>5 DEF QueueInv, RunsDirty
  <2> QED BY <2>2, <2>3, <2>4 DEF QueueInv
<1>6. CASE BatchBegin BY <1>5, <1>6 DEF BatchBegin, graph
<1>7. CASE BatchEnd
  <2>1. /\ Idle /\ Len(stack) = 0
        /\ \/ stack' \in Seq(Frames) /\ Len(stack') = 1 /\ stack'[1] = Flush /\ Top' = Flush
           \/ stack' = stack
        /\ Flush.call = "flush" /\ Flush.left = <<>>
        /\ UNCHANGED <<value, state, graph, pendingEffects, life, saw, history>>
    BY <1>7, BatchEndIs, NewFrames
  <2>2. CASE stack' = stack BY <1>5, <2>1, <2>2
  <2>3. CASE stack' \in Seq(Frames) /\ Len(stack') = 1 /\ stack'[1] = Flush /\ Top' = Flush
    <3>1. \A i \in 1 .. Len(stack') : Inert(stack'[i]) /\ stack'[i].call = "flush" BY <2>1, <2>3 DEF Inert
    <3>2. ~In("mark")' BY <2>1, <2>3 DEF In
    <3>3. sources' = sources /\ state' = state /\ life' = life /\ pendingEffects' = pendingEffects
      BY <2>1 DEF graph
    <3>4. PlacesInv' /\ LifeInv' BY <2>3, <3>1, <3>2, <3>3, PlacesKept
    <3>5. RunsDirty' BY <3>1 DEF RunsDirty
    <3> QED BY <3>4, <3>5 DEF QueueInv
  <2> QED BY <2>1, <2>2, <2>3
<1>8. CASE MarkStale BY <1>8, MarkStaleQueue
<1>9. CASE FlushTake BY <1>9, FlushTakeQueue
<1>10. CASE FlushNext BY <1>10, FlushNextQueue
\* The innermost call returns.
<1>11. ASSUME stack' \in Seq(Frames), Len(stack') = Len(stack) - 1, Len(stack) \in Nat \ {0},
              \A i \in 1 .. Len(stack) - 1 : stack'[i] = stack[i],
              pendingEffects' = pendingEffects, life' = life, UNCHANGED graph, ~In("mark")',
              \A e \in Effects : state'[e] = state[e] \/ (life[e] = "live" /\ state'[e] # CLEAN),
              \A n \in Nodes : state[n] = DIRTY => state'[n] = DIRTY
       PROVE  QueueInv'
  <2>1. \A i \in 1 .. Len(stack') : i \in 1 .. Len(stack) /\ stack'[i] = stack[i] BY <1>11
  <2>2. sources' = sources BY <1>11 DEF graph
  <2>3. PlacesInv' /\ LifeInv' BY <1>11, <2>1, <2>2, PlacesKept
  <2>4. \A i \in 1 .. Len(stack') : (stack'[i].call = "pull" /\ stack'[i].done) =>
             (state[stack[i].node] = DIRTY => state'[stack[i].node] = DIRTY)
    BY <1>11, <2>1, FrameTypes
  <2>5. RunsDirty' BY <2>1, <2>4, DirtyKept
  <2> QED BY <2>3, <2>5 DEF QueueInv
\* What is below a call is no marking.
<1>12. ASSUME ~Idle' => Len(stack) > 1 /\ Top' = stack[Len(stack) - 1], Len(stack) \in Nat \ {0}
       PROVE  ~In("mark")'
  <2> SUFFICES ASSUME In("mark")' PROVE FALSE OBVIOUS
  <2>1. Len(stack) > 1 /\ Top' = stack[Len(stack) - 1] /\ Top'.call = "mark" BY <1>12 DEF In
  <2>2. PICK i : i = Len(stack) - 1 OBVIOUS
  <2>3. i \in 1 .. Len(stack) - 1 /\ stack[i].call = "mark" BY <1>12, <2>1, <2>2
  <2>4. Over(stack[i + 1], stack[i]) BY <2>3 DEF StackInv
  <2> QED BY <2>3, <2>4 DEF Over
<1>13. CASE MarkDone \/ FlushDone
  <2>1. /\ stack' \in Seq(Frames) /\ Len(stack') = Len(stack) - 1 /\ Len(stack) \in Nat \ {0}
        /\ \A i \in 1 .. Len(stack) - 1 : stack'[i] = stack[i]
        /\ ~Idle' => Len(stack) > 1 /\ Top' = stack[Len(stack) - 1]
        /\ UNCHANGED <<calls, value, state, graph, pendingEffects, batchDepth, life, saw, history>>
    BY <1>13, DoneIs
  <2>2. ~In("mark")' BY <1>12, <2>1
  <2> QED BY <1>11, <2>1, <2>2
\* The innermost call goes on, as the same kind of call, and may make another.
<1>14. ASSUME stack' \in Seq(Frames), Len(stack) \in Nat \ {0}, Top = stack[Len(stack)],
              \A i \in 1 .. Len(stack) - 1 : stack'[i] = stack[i],
              Top.call \in {"pull", "run"}, stack'[Len(stack)].call = Top.call,
              stack'[Len(stack)].node = Top.node,
              Top.call = "pull" /\ stack'[Len(stack)].done => state[Top.node] = DIRTY,
              \A i \in 1 .. Len(stack') : i > Len(stack) =>
                Inert(stack'[i]) /\ (stack'[i].call = "pull" => stack'[i].done = FALSE),
              \A e \in Effects, c \in Colours :
                In("mark")' /\ Contains(Top'.left, <<e, c>>) => life[e] = "live",
              \A e \in Effects : sources'[e] = <<>> \/ sources'[e] = sources[e] \/ life[e] = "live",
              pendingEffects' = pendingEffects, life' = life, state' = state
       PROVE  QueueInv'
  <2>1. ASSUME NEW i \in 1 .. Len(stack')
        PROVE  \/ i \in 1 .. Len(stack) /\ stack'[i] = stack[i] /\ i # Len(stack)
               \/ i = Len(stack) /\ i \in 1 .. Len(stack)
               \/ i > Len(stack) /\ Inert(stack'[i]) /\ (stack'[i].call = "pull" => stack'[i].done = FALSE)
    <3>1. CASE i \in 1 .. Len(stack) - 1 BY <1>14, <3>1
    <3>2. CASE i = Len(stack) BY <1>14, <3>2
    <3>3. CASE i > Len(stack) BY <1>14, <3>3
    <3>4. Len(stack') \in Nat BY <1>14, NewIndexFacts
    <3> QED BY <1>14, <3>1, <3>2, <3>3, <3>4
  <2>2. \A i \in 1 .. Len(stack') :
           \/ i \in 1 .. Len(stack) /\ stack'[i] = stack[i]
           \/ /\ i \in 1 .. Len(stack) /\ stack'[i].call = stack[i].call
              /\ stack[i].call \in {"pull", "run"} /\ stack'[i].node = stack[i].node
           \/ Inert(stack'[i])
    BY <1>14, <2>1
  <2>3. PlacesInv' /\ LifeInv' BY <1>14, <2>2, PlacesKept
  <2>4. RunsDirty'
    <3>1. ASSUME NEW i \in 1 .. Len(stack'), stack'[i].call = "pull", stack'[i].done
          PROVE  state'[stack'[i].node] = DIRTY
      <4>1. CASE i \in 1 .. Len(stack) /\ stack'[i] = stack[i]
        BY <1>14, <3>1, <4>1 DEF QueueInv, RunsDirty
      <4>2. CASE i = Len(stack) BY <1>14, <3>1, <4>2
      <4> QED BY <2>1, <3>1, <4>1, <4>2
    <3> QED BY <3>1 DEF RunsDirty
  <2> QED BY <2>3, <2>4 DEF QueueInv
<1>15. CASE PullSource
  <2>1. PICK m : m = Head(Top.left) OBVIOUS
  <2>2. /\ In("pull") /\ Top = stack[Len(stack)] /\ Len(stack) \in Nat \ {0}
        /\ m \in Readable
        /\ stack' \in Seq(Frames) /\ Len(stack') = Len(stack) + 1 /\ Top' = stack'[Len(stack) + 1]
        /\ stack'[Len(stack)].call = "pull" /\ stack'[Len(stack)].node = Top.node
        /\ stack'[Len(stack)].done = FALSE
        /\ stack'[Len(stack) + 1] = Pull(m)
        /\ \A i \in 1 .. Len(stack) - 1 : stack'[i] = stack[i]
        /\ UNCHANGED <<calls, value, state, graph, pendingEffects, batchDepth, life, saw, history>>
    BY <1>15, <2>1, PullSourceIs
  <2>3. Top.call = "pull" BY <2>2 DEF In
  <2>4. Pull(m).call = "pull" /\ Pull(m).done = FALSE /\ Inert(Pull(m)) BY <2>2, PullFrame
  <2>5. \A i \in 1 .. Len(stack') : i > Len(stack) => i = Len(stack) + 1 BY <2>2
  <2>6. \A i \in 1 .. Len(stack') : i > Len(stack) =>
          Inert(stack'[i]) /\ (stack'[i].call = "pull" => stack'[i].done = FALSE)
    BY <2>2, <2>4, <2>5
  <2>7. ~In("mark")' BY <2>2, <2>4 DEF In
  <2>8. sources' = sources BY <2>2 DEF graph
  <2> QED BY <1>14, <2>2, <2>3, <2>6, <2>7, <2>8
<1>16. CASE PullUpdate
  <2>1. PICK n : n = Top.node OBVIOUS
  <2>2. /\ In("pull") /\ Top = stack[Len(stack)] /\ Len(stack) \in Nat \ {0}
        /\ n \in Reactions /\ state[n] = DIRTY
        /\ stack' \in Seq(Frames) /\ Len(stack') = Len(stack) + 1 /\ Top' = stack'[Len(stack) + 1]
        /\ stack'[Len(stack)].call = "pull" /\ stack'[Len(stack)].node = n
        /\ stack'[Len(stack) + 1].call = "run"
        /\ \A i \in 1 .. Len(stack) - 1 : stack'[i] = stack[i]
        /\ sources'[n] = <<>> /\ \A m \in Nodes \ {n} : sources'[m] = sources[m]
        /\ UNCHANGED <<calls, value, state, pendingEffects, batchDepth, life, lost>>
    BY <1>16, <2>1, PullUpdateIs
  <2>3. Top.call = "pull" BY <2>2 DEF In
  <2>4. \A i \in 1 .. Len(stack') : i > Len(stack) => i = Len(stack) + 1 BY <2>2
  <2>5. \A i \in 1 .. Len(stack') : i > Len(stack) =>
          Inert(stack'[i]) /\ (stack'[i].call = "pull" => stack'[i].done = FALSE)
    BY <2>2, <2>4 DEF Inert
  <2>6. ~In("mark")' BY <2>2 DEF In
  <2>7. \A e \in Effects : sources'[e] = <<>> \/ sources'[e] = sources[e] BY <2>2, NodeKinds
  <2> QED BY <1>14, <2>1, <2>2, <2>3, <2>5, <2>6, <2>7
<1>17. CASE PullDone
  <2>1. PICK n : n = Top.node OBVIOUS
  <2>2. /\ In("pull") /\ Top = stack[Len(stack)] /\ Len(stack) \in Nat \ {0}
        /\ n \in Nodes
        /\ stack' \in Seq(Frames) /\ Len(stack') = Len(stack) - 1
        /\ \A i \in 1 .. Len(stack) - 1 : stack'[i] = stack[i]
        /\ ~Idle' => Len(stack) > 1 /\ Top' = stack[Len(stack) - 1]
        /\ state'[n] = CLEAN /\ \A m \in Nodes \ {n} : state'[m] = state[m]
        /\ UNCHANGED <<calls, value, graph, pendingEffects, batchDepth, life, saw, history>>
    BY <1>17, <2>1, PullDoneIs
  <2>3. Top.call = "pull" BY <2>2 DEF In
  <2>4. \A i \in 1 .. Len(stack') : i \in 1 .. Len(stack) /\ i # Len(stack) /\ stack'[i] = stack[i]
    BY <2>2
  <2>5. Len(stack) \in 1 .. Len(stack) BY <2>2
  <2>6. ASSUME NEW i \in 1 .. Len(stack'), stack'[i].call = "pull" PROVE stack[i].node # n
    <3>1. i \in 1 .. Len(stack) /\ i # Len(stack) /\ stack[i].call = "pull" BY <2>4, <2>6
    <3> QED BY <2>1, <2>2, <2>3, <2>5, <3>1, Alone
  <2>7. ~In("mark")' BY <1>12, <2>2
  <2>8. n \in Effects => life[n] = "live" /\ ~Waits(n) /\ ~Pulled(n)'
    <3> SUFFICES ASSUME n \in Effects PROVE life[n] = "live" /\ ~Waits(n) /\ ~Pulled(n)'
      OBVIOUS
    <3>1. Pulled(n) BY <2>1, <2>2, <2>3, <2>5 DEF Pulled, IsPull
    <3>2. life[n] = "live" BY <3>1, Lives
    <3>3. ~Waits(n) BY <3>1 DEF QueueInv, PlacesInv
    <3>4. ~Pulled(n)' BY <2>4, <2>6 DEF Pulled, IsPull
    <3> QED BY <3>2, <3>3, <3>4
  <2>9. \A e \in Effects : \/ state'[e] = state[e]
                           \/ life[e] = "live" /\ ~Waits(e) /\ ~Pulled(e)'
    BY <2>2, <2>8, NodeKinds
  <2>10. sources' = sources BY <2>2 DEF graph
  <2>11. PlacesInv' /\ LifeInv' BY <2>2, <2>4, <2>7, <2>9, <2>10, PlacesKept
  <2>12. RunsDirty'
    <3>1. ASSUME NEW i \in 1 .. Len(stack'), stack'[i].call = "pull", stack'[i].done
          PROVE  /\ i \in 1 .. Len(stack) /\ stack'[i] = stack[i]
                 /\ state[stack[i].node] = DIRTY => state'[stack[i].node] = DIRTY
      <4>1. stack[i].node \in Nodes \ {n} BY <2>4, <2>6, <3>1, FrameTypes
      <4> QED BY <2>2, <2>4, <4>1
    <3> QED BY <3>1, DirtyKept
  <2> QED BY <2>11, <2>12 DEF QueueInv
<1>18. ASSUME NEW tracked \in BOOLEAN, Running(IF tracked THEN "read" ELSE "peek"),
              Reads(NextOp(Top).node, tracked)
       PROVE  QueueInv'
  <2>1. PICK m : m = NextOp(Top).node OBVIOUS
  <2>2. PICK n : n = Top.node OBVIOUS
  <2>3. /\ In("run") /\ ~Idle /\ Top = stack[Len(stack)] /\ Len(stack) \in Nat \ {0}
        /\ n \in Reactions /\ m \in Readable
        /\ stack' \in Seq(Frames)
        /\ stack'[Len(stack)].call = "run" /\ stack'[Len(stack)].node = n
        /\ \A i \in 1 .. Len(stack) - 1 : stack'[i] = stack[i]
        /\ m \in Sigs => Len(stack') = Len(stack) /\ Top' = stack'[Len(stack)]
        /\ m \notin Sigs => /\ Len(stack') = Len(stack) + 1 /\ Top' = stack'[Len(stack) + 1]
                            /\ stack'[Len(stack) + 1] = Pull(m)
        /\ \A k \in Nodes \ {n} : sources'[k] = sources[k]
        /\ UNCHANGED <<calls, value, state, pendingEffects, batchDepth, life, history>>
    BY <1>18, <2>1, <2>2, ReadsIs
  <2>4. Top.call = "run" BY <2>3 DEF In
  <2>5. Pull(m).call = "pull" /\ Pull(m).done = FALSE /\ Inert(Pull(m)) BY <2>3, PullFrame
  <2>6. \A i \in 1 .. Len(stack') : i > Len(stack) => m \notin Sigs /\ i = Len(stack) + 1
    BY <2>3
  <2>7. \A i \in 1 .. Len(stack') : i > Len(stack) =>
          Inert(stack'[i]) /\ (stack'[i].call = "pull" => stack'[i].done = FALSE)
    BY <2>3, <2>5, <2>6
  <2>8. ~In("mark")' BY <2>3, <2>5 DEF In
  <2>9. n \in Effects => life[n] = "live"
    <3> SUFFICES ASSUME n \in Effects PROVE life[n] = "live" OBVIOUS
    <3>1. Len(stack) \in 1 .. Len(stack) BY <2>3
    <3>2. /\ Len(stack) - 1 \in 1 .. Len(stack) /\ stack[Len(stack) - 1].call = "pull"
          /\ stack[Len(stack) - 1].node = n
      BY <2>2, <2>3, <2>4, <3>1, RunUnder
    <3>3. Pulled(n) BY <3>2 DEF Pulled, IsPull
    <3> QED BY <3>3, Lives
  <2>10. \A e \in Effects : sources'[e] = sources[e] \/ life[e] = "live" BY <2>3, <2>9, NodeKinds
  <2> QED BY <1>14, <2>2, <2>3, <2>4, <2>7, <2>8, <2>10
<1>19. CASE RunRead
  <2>1. Running(IF TRUE THEN "read" ELSE "peek") /\ Reads(NextOp(Top).node, TRUE) BY <1>19 DEF RunRead
  <2> QED BY <1>18, <2>1
<1>20. CASE RunPeek
  <2>1. Running(IF FALSE THEN "read" ELSE "peek") /\ Reads(NextOp(Top).node, FALSE) BY <1>20 DEF RunPeek
  <2> QED BY <1>18, <2>1
<1>21. CASE RunGets
  <2>1. /\ In("run") /\ Top = stack[Len(stack)] /\ Len(stack) \in Nat \ {0}
        /\ Len(stack') = Len(stack) /\ Top' = stack'[Len(stack)] /\ stack' \in Seq(Frames)
        /\ stack'[Len(stack)].call = "run" /\ stack'[Len(stack)].node = Top.node
        /\ \A i \in 1 .. Len(stack) - 1 : stack'[i] = stack[i]
        /\ UNCHANGED <<calls, value, state, graph, pendingEffects, batchDepth, life, history>>
    BY <1>21, RunGetsIs
  <2>2. Top.call = "run" BY <2>1 DEF In
  <2>3. \A i \in 1 .. Len(stack') : ~(i > Len(stack)) BY <2>1
  <2>4. ~In("mark")' BY <2>1 DEF In
  <2>5. sources' = sources BY <2>1 DEF graph
  <2> QED BY <1>14, <2>1, <2>2, <2>3, <2>4, <2>5
<1>22. CASE RunWrite
  <2>1. PICK s : s = NextOp(Top).node OBVIOUS
  <2>2. /\ In("run") /\ Top = stack[Len(stack)] /\ Len(stack) \in Nat \ {0}
        /\ s \in Sigs /\ stack' \in Seq(Frames)
        /\ stack'[Len(stack)].call = "run" /\ stack'[Len(stack)].node = Top.node
        /\ \A i \in 1 .. Len(stack) - 1 : stack'[i] = stack[i]
        /\ \/ Len(stack') = Len(stack) /\ Top' = stack'[Len(stack)]
           \/ /\ batchDepth = 0 =>
                   /\ Len(stack') = Len(stack) + 2 /\ Top' = stack'[Len(stack) + 2]
                   /\ stack'[Len(stack) + 1] = Flush
              /\ batchDepth # 0 => Len(stack') = Len(stack) + 1 /\ Top' = stack'[Len(stack) + 1]
              /\ Top'.call = "mark"
              /\ \A n, c : Contains(Top'.left, <<n, c>>) <=> Contains(observers[s], n) /\ c = DIRTY
        /\ UNCHANGED <<calls, state, graph, pendingEffects, batchDepth, life, saw, lost>>
    BY <1>22, <2>1, RunWriteIs
  <2>3. Top.call = "run" BY <2>2 DEF In
  <2>4. Flush.call = "flush" /\ Flush.left = <<>> BY NewFrames
  <2>5. ASSUME NEW i \in 1 .. Len(stack'), i > Len(stack)
        PROVE  Inert(stack'[i]) /\ stack'[i].call # "pull"
    <3>1. stack'[i] = Flush \/ stack'[i].call = "mark"
      <4>1. CASE Len(stack') = Len(stack) BY <2>2, <2>5, <4>1
      <4>2. CASE batchDepth = 0 /\ Len(stack') = Len(stack) + 2
        <5>1. i = Len(stack) + 1 \/ i = Len(stack) + 2 BY <2>2, <2>5, <4>2
        <5> QED BY <2>2, <4>2, <5>1
      <4>3. CASE batchDepth # 0 /\ Len(stack') = Len(stack) + 1
        <5>1. i = Len(stack) + 1 BY <2>2, <2>5, <4>3
        <5> QED BY <2>2, <4>3, <5>1
      <4> QED BY <2>2, <4>1, <4>2, <4>3
    <3> QED BY <2>4, <3>1 DEF Inert
  <2>6. s \in Nodes BY <2>2, NodeKinds
  <2>7. ASSUME NEW e \in Effects, NEW c \in Colours, In("mark")', Contains(Top'.left, <<e, c>>)
        PROVE  life[e] = "live"
    <3>1. CASE Top' = stack'[Len(stack)] BY <2>2, <2>3, <2>7, <3>1 DEF In
    <3>2. CASE \A n, d : Contains(Top'.left, <<n, d>>) <=> Contains(observers[s], n) /\ d = DIRTY
      BY <2>6, <2>7, <3>2, ObserverLives
    <3> QED BY <2>2, <3>1, <3>2
  <2>8. sources' = sources BY <2>2 DEF graph
  <2> QED BY <1>14, <2>2, <2>3, <2>5, <2>7, <2>8
<1>23. CASE RunReturn
  <2>1. PICK n : n = Top.node OBVIOUS
  <2>2. /\ stack' \in Seq(Frames) /\ Len(stack') = Len(stack) - 1 /\ Len(stack) \in Nat \ {0}
        /\ n \in Reactions
        /\ \A i \in 1 .. Len(stack) - 1 : stack'[i] = stack[i]
        /\ ~Idle' => Len(stack) > 1 /\ Top' = stack[Len(stack) - 1]
        /\ \/ UNCHANGED state
           \/ /\ \A k \in Nodes : Contains(observers[n], k) => state'[k] = DIRTY
              /\ \A k \in Nodes : ~Contains(observers[n], k) => state'[k] = state[k]
        /\ UNCHANGED <<calls, graph, pendingEffects, batchDepth, life, saw, lost>>
    BY <1>23, <2>1, RunReturnIs
  <2>3. ~In("mark")' BY <1>12, <2>2
  <2>4. \A k \in Nodes : state[k] = DIRTY => state'[k] = DIRTY BY <2>2
  <2>5. n \in Nodes /\ Effects \subseteq Nodes BY <2>2, NodeKinds
  <2>6. \A e \in Effects : state'[e] = state[e] \/ (life[e] = "live" /\ state'[e] # CLEAN)
    BY <2>2, <2>5, ObserverLives DEF DIRTY, CLEAN
  <2> QED BY <1>11, <2>2, <2>3, <2>4, <2>6
<1>24. CASE RunThrow
  <2>1. /\ stack' = <<>> /\ stack' \in Seq(Frames) /\ Len(stack') = 0
        /\ UNCHANGED <<calls, value, state, graph, pendingEffects, batchDepth, life, saw>>
    BY <1>24, EmptySeq DEF RunThrow
  <2>2. \A i \in 1 .. Len(stack') : FALSE BY <2>1
  <2>3. ~In("mark")' BY <2>1 DEF In, Idle
  <2>4. sources' = sources BY <2>1 DEF graph
  <2>5. PlacesInv' /\ LifeInv' BY <2>1, <2>2, <2>3, <2>4, PlacesKept
  <2>6. RunsDirty' BY <2>2 DEF RunsDirty
  <2> QED BY <2>5, <2>6 DEF QueueInv
<1> QED BY <1>1, <1>2, <1>3, <1>4, <1>6, <1>7, <1>8, <1>9, <1>10, <1>13, <1>15, <1>16, <1>17,
           <1>19, <1>20, <1>21, <1>22, <1>23, <1>24 DEF Next, UserStep

-----------------------------------------------------------------------------
(* What the colours mean.                                                  *)

Marked(n, c) == In("mark") /\ Contains(Top.left, <<n, c>>)
MaybeMarked(n) == Marked(n, CHECK) \/ Marked(n, DIRTY)

\* What the function of n can have seen when it sees S: one read after the other.
Reached(n, S) ==
  \A T \in SUBSET Seens :
    (Unread \in T /\ \A s \in T : After(n, s, S) \in T) => S \in T

\* A computed holds what its function returns, having seen what it saw of its sources.
Tracked(n) == \A m \in Readable : saw[n][m] # Undefined => Contains(sources[n], m)
Ran(n) ==
  n \in Computeds =>
    /\ value[n] \in Values
    /\ Body(n, saw[n], FALSE).op = "return" /\ Body(n, saw[n], FALSE).to = value[n]
    /\ Tracked(n) /\ Reached(n, saw[n])

\* It saw the values that its sources have.
Agrees(n) ==
  \A m \in Readable : Contains(sources[n], m) => saw[n][m] # Undefined /\ saw[n][m] = value[m]
SourcesClean(n) == \A m \in Readable : Contains(sources[n], m) => state[m] = CLEAN

Disposed(n) == n \in Effects /\ life[n] = "disposed"

NodeOK(n) ==
  /\ state[n] # DIRTY => Ran(n)
  /\ state[n] # DIRTY => Agrees(n) \/ Marked(n, DIRTY)
  /\ state[n] # DIRTY => n \notin moved \/ Marked(n, DIRTY) \/ Disposed(n)
  /\ state[n] = CLEAN => SourcesClean(n) \/ MaybeMarked(n)

\* The function of n runs, and reads m, if anything.
SourceRead(n, k) ==
  /\ saw[n][k] # Undefined
  /\ saw[n][k] = value[k] \/ Marked(n, DIRTY)
  /\ state[k] = CLEAN \/ MaybeMarked(n)

ComputedRun(n, m) ==
  /\ Tracked(n) /\ Reached(n, saw[n])
  /\ m # Undefined => /\ Body(n, saw[n], FALSE).op = "read" /\ Body(n, saw[n], FALSE).node = m
                      /\ Contains(sources[n], m)

RunOK(i) ==
  LET n == stack[i].node
      m == stack[i].reading
  IN  /\ \A k \in Readable : (Contains(sources[n], k) /\ k # m) => SourceRead(n, k)
      /\ m # Undefined => saw[n][m] = Undefined
      /\ n \notin moved \/ Marked(n, DIRTY)
      /\ n \in Computeds => ~stack[i].wrote /\ ComputedRun(n, m)

\* A call of updateIfNecessary for n.
Checked(n, i, k) ==
  \/ state[k] = CLEAN
  \/ Contains(stack[i].left, k)
  \/ i < Len(stack) /\ IsPull(k, i + 1)

PullOK(i) ==
  LET n == stack[i].node
  IN  /\ (~stack[i].done /\ state[n] = CHECK) =>
           \A k \in Readable : Contains(sources[n], k) => Checked(n, i, k)
      /\ (stack[i].done /\ i = Len(stack)) =>
           Ran(n) /\ Agrees(n) /\ SourcesClean(n) /\ n \notin moved

\* get() returns a value that is up to date.
ReadInv == (In("run") /\ Top.reading # Undefined) => state[Top.reading] = CLEAN

ColourInv(K) ==
  /\ \A n \in K : NodeOK(n)
  /\ \A i \in 1 .. Len(stack) : (stack[i].call = "run" /\ stack[i].node \in K) => RunOK(i)
  /\ \A i \in 1 .. Len(stack) : (stack[i].call = "pull" /\ stack[i].node \in K) => PullOK(i)
  /\ ReadInv

-----------------------------------------------------------------------------
(* What leaves it in place.                                                *)

\* What a node claims survives a step that leaves its sources alone, or marks it.
LEMMA NodeKept ==
  ASSUME NEW n \in Reactions, NodeOK(n),
         state'[n] = state[n] \/ state'[n] = DIRTY,
         value'[n] = value[n], saw'[n] = saw[n], sources'[n] = sources[n],
         state'[n] # DIRTY => n \notin moved' \/ n \in moved \/ Marked(n, DIRTY)',
         Disposed(n) => Disposed(n)',
         state'[n] # DIRTY =>
           \A k \in Readable : Contains(sources[n], k) => value'[k] = value[k] \/ Marked(n, DIRTY)',
         \A k \in Readable : Contains(sources[n], k) =>
           (state[k] = CLEAN => state'[k] = CLEAN \/ MaybeMarked(n)'),
         state'[n] # DIRTY /\ Marked(n, DIRTY) => Marked(n, DIRTY)',
         state'[n] = CLEAN /\ MaybeMarked(n) => MaybeMarked(n)'
  PROVE  NodeOK(n)'
<1>1. state'[n] # DIRTY => Ran(n)' BY DEF NodeOK, Ran, Tracked
<1>2. state'[n] # DIRTY => Agrees(n)' \/ Marked(n, DIRTY)' BY DEF NodeOK, Agrees
<1>3. state'[n] # DIRTY => n \notin moved' \/ Marked(n, DIRTY)' \/ Disposed(n)' BY DEF NodeOK
<1>4. state'[n] = CLEAN => SourcesClean(n)' \/ MaybeMarked(n)'
  BY DEF NodeOK, SourcesClean, CLEAN, DIRTY
<1> QED BY <1>1, <1>2, <1>3, <1>4 DEF NodeOK

\* What a running function claims survives such a step.
LEMMA RunKept ==
  ASSUME NEW i, RunOK(i), stack'[i].node = stack[i].node, stack'[i].reading = stack[i].reading,
         stack[i].node \in Computeds => stack'[i].wrote = stack[i].wrote,
         saw'[stack[i].node] = saw[stack[i].node], sources'[stack[i].node] = sources[stack[i].node],
         \/ stack[i].node \notin moved' \/ stack[i].node \in moved \/ Marked(stack[i].node, DIRTY)',
         \A k \in Readable : (Contains(sources[stack[i].node], k) /\ k # stack[i].reading) =>
           /\ value'[k] = value[k] \/ Marked(stack[i].node, DIRTY)'
           /\ state[k] = CLEAN => state'[k] = CLEAN \/ MaybeMarked(stack[i].node)',
         Marked(stack[i].node, DIRTY) => Marked(stack[i].node, DIRTY)',
         MaybeMarked(stack[i].node) => MaybeMarked(stack[i].node)'
  PROVE  RunOK(i)'
<1>1. PICK n : n = stack[i].node OBVIOUS
<1>2. PICK m : m = stack[i].reading OBVIOUS
<1>3. stack'[i].node = n /\ stack'[i].reading = m BY <1>1, <1>2
<1>4. /\ \A k \in Readable : (Contains(sources[n], k) /\ k # m) => SourceRead(n, k)
      /\ m # Undefined => saw[n][m] = Undefined
      /\ n \notin moved \/ Marked(n, DIRTY)
      /\ n \in Computeds => ~stack[i].wrote /\ ComputedRun(n, m)
  BY <1>1, <1>2 DEF RunOK
<1>5. ASSUME NEW k \in Readable, Contains(sources'[n], k), k # m PROVE SourceRead(n, k)'
  <2>1. Contains(sources[n], k) BY <1>1, <1>5
  <2>2. SourceRead(n, k) BY <1>4, <1>5, <2>1
  <2>3. /\ value'[k] = value[k] \/ Marked(n, DIRTY)'
        /\ state[k] = CLEAN => state'[k] = CLEAN \/ MaybeMarked(n)'
    BY <1>1, <1>2, <1>5, <2>1
  <2>4. saw'[n] = saw[n] BY <1>1
  <2>5. (Marked(n, DIRTY) => Marked(n, DIRTY)') /\ (MaybeMarked(n) => MaybeMarked(n)') BY <1>1
  <2> QED BY <2>2, <2>3, <2>4, <2>5 DEF SourceRead
<1>6. m # Undefined => saw'[n][m] = Undefined BY <1>1, <1>4
<1>7. n \notin moved' \/ Marked(n, DIRTY)' BY <1>1, <1>4
<1>8. ASSUME n \in Computeds PROVE ~stack'[i].wrote /\ ComputedRun(n, m)'
  <2>1. ~stack[i].wrote /\ ComputedRun(n, m) BY <1>4, <1>8
  <2>2. saw'[n] = saw[n] /\ sources'[n] = sources[n] /\ stack'[i].wrote = stack[i].wrote BY <1>1, <1>8
  <2> QED BY <2>1, <2>2 DEF ComputedRun, Tracked
<1> QED BY <1>3, <1>5, <1>6, <1>7, <1>8 DEF RunOK

\* What a call of updateIfNecessary claims survives such a step.
LEMMA PullKept ==
  ASSUME NEW i, PullOK(i), stack'[i].node = stack[i].node, stack'[i].done = stack[i].done,
         \A k : Contains(stack[i].left, k) => Contains(stack'[i].left, k),
         sources'[stack[i].node] = sources[stack[i].node],
         state'[stack[i].node] = CHECK => state[stack[i].node] = CHECK,
         ~stack[i].done /\ state[stack[i].node] = CHECK =>
           \A k \in Readable : Contains(sources[stack[i].node], k) =>
             /\ state[k] = CLEAN => state'[k] = CLEAN
             /\ i < Len(stack) /\ IsPull(k, i + 1) =>
                  state'[k] = CLEAN \/ (i < Len(stack') /\ IsPull(k, i + 1)'),
         ~(stack[i].done /\ i = Len(stack'))
  PROVE  PullOK(i)'
<1>1. PICK n : n = stack[i].node OBVIOUS
<1>2. stack'[i].node = n /\ stack'[i].done = stack[i].done BY <1>1
<1>3. ASSUME ~stack'[i].done, state'[n] = CHECK, NEW k \in Readable, Contains(sources'[n], k)
      PROVE  Checked(n, i, k)'
  <2>1. ~stack[i].done /\ state[n] = CHECK /\ Contains(sources[n], k) BY <1>1, <1>3
  <2>2. Checked(n, i, k) BY <1>1, <2>1 DEF PullOK
  <2>3. /\ state[k] = CLEAN => state'[k] = CLEAN
        /\ i < Len(stack) /\ IsPull(k, i + 1) =>
             state'[k] = CLEAN \/ (i < Len(stack') /\ IsPull(k, i + 1)')
    BY <1>1, <2>1
  <2> QED BY <2>2, <2>3 DEF Checked
<1>4. ~(stack'[i].done /\ i = Len(stack')) BY <1>2
<1> QED BY <1>2, <1>3, <1>4 DEF PullOK

\* A call of updateIfNecessary begins.
LEMMA PullBegins ==
  ASSUME TypeOK, NEW n \in Nodes, NEW i, stack'[i] = Pull(n),
         state'[n] = state[n], sources'[n] = sources[n]
  PROVE  stack'[i].call = "pull" /\ stack'[i].node = n /\ stack'[i].done = FALSE /\ PullOK(i)'
<1>1. /\ Pull(n).call = "pull" /\ Pull(n).node = n /\ Pull(n).done = FALSE
      /\ Pull(n).left = IF state[n] = CHECK THEN sources[n] ELSE <<>>
  BY NewFrames
<1>2. ASSUME state'[n] = CHECK, NEW k \in Readable, Contains(sources'[n], k)
      PROVE  Checked(n, i, k)'
  <2>1. stack'[i].left = sources'[n] BY <1>1, <1>2
  <2> QED BY <1>2, <2>1 DEF Checked
<1> QED BY <1>1, <1>2 DEF PullOK

-----------------------------------------------------------------------------
(* Writes and marking keep the colours.                                    *)

\* set: whoever saw the old value will be marked DIRTY.
LEMMA AssignColours ==
  ASSUME TypeOK, EdgesInv, NEW K \in {Computeds, Reactions}, ColourInv(K), NEW s \in Sigs, NEW v,
         \A i \in 1 .. Len(stack) : ~Pure(stack[i]), ~In("mark"), In("mark")',
         \A n, c : Contains(Top'.left, <<n, c>>) <=> Contains(observers[s], n) /\ c = DIRTY,
         value' = [value EXCEPT ![s] = v], moved' = moved \cup ReadersOf(s),
         UNCHANGED <<state, graph, life, saw>>,
         \A i \in 1 .. Len(stack') :
           \/ stack'[i].call \in {"mark", "flush"}
           \/ /\ i \in 1 .. Len(stack) /\ i # Len(stack') /\ stack'[i].call = stack[i].call
              /\ stack'[i].node = stack[i].node
              /\ stack[i].call = "pull" => stack'[i] = stack[i]
              /\ stack[i].call = "run" => stack'[i].reading = stack[i].reading
  PROVE  ColourInv(K)'
<1>1. K \subseteq Reactions /\ K \subseteq Nodes /\ Computeds \subseteq K /\ s \in Nodes /\ s \in Readable
      /\ Reactions \subseteq Nodes /\ Readable \subseteq Nodes /\ s \notin Reactions
  BY NodeKinds
<1>2. state' = state /\ sources' = sources /\ observers' = observers /\ saw' = saw /\ life' = life
  BY DEF graph
<1>3. ASSUME NEW n \in Reactions, NEW c PROVE ~Marked(n, c) BY DEF Marked
<1>4. ASSUME NEW n \in Reactions, Contains(sources[n], s) PROVE Marked(n, DIRTY)'
  <2>1. Contains(observers[s], n) BY <1>1, <1>4 DEF EdgesInv
  <2> QED BY <2>1 DEF Marked
<1>5. ASSUME NEW n \in Reactions, n \in moved' PROVE n \in moved \/ Marked(n, DIRTY)'
  <2>1. CASE n \in moved BY <2>1
  <2>2. CASE n \in ReadersOf(s) BY <1>4, <2>2 DEF ReadersOf
  <2> QED BY <1>5, <2>1, <2>2
<1>6. ASSUME NEW n \in Reactions, NEW k \in Readable, Contains(sources[n], k)
      PROVE  value'[k] = value[k] \/ Marked(n, DIRTY)'
  <2>1. CASE k = s BY <1>4, <1>6, <2>1
  <2>2. CASE k # s BY <1>1, <2>2 DEF TypeOK
  <2> QED BY <2>1, <2>2
<1>7. ASSUME NEW n \in K PROVE NodeOK(n)'
  <2>1. NodeOK(n) BY DEF ColourInv
  <2>2. n \in Reactions /\ value'[n] = value[n] BY <1>1 DEF TypeOK
  <2>3. ~MaybeMarked(n) /\ ~Marked(n, DIRTY) BY <1>3, <2>2 DEF MaybeMarked
  <2>4. Disposed(n) => Disposed(n)' BY <1>2 DEF Disposed
  <2> QED BY <1>2, <1>5, <1>6, <2>1, <2>2, <2>3, <2>4, NodeKept
<1>8. ASSUME NEW i \in 1 .. Len(stack'), stack'[i].call = "run", stack'[i].node \in K
      PROVE  RunOK(i)'
  <2>1. /\ i \in 1 .. Len(stack) /\ stack[i].call = "run"
        /\ stack'[i].node = stack[i].node /\ stack'[i].reading = stack[i].reading
    BY <1>8
  <2>2. RunOK(i) BY <1>8, <2>1 DEF ColourInv
  <2>3. PICK n : n = stack[i].node OBVIOUS
  <2>4. n \in Reactions BY <1>1, <1>8, <2>1, <2>3
  <2>5. n \notin Computeds BY <1>1, <2>1, <2>3, NodeKinds DEF Pure
  <2>6. ~MaybeMarked(n) /\ ~Marked(n, DIRTY) BY <1>3, <2>4 DEF MaybeMarked
  <2> QED BY <1>2, <1>5, <1>6, <2>1, <2>2, <2>3, <2>4, <2>5, <2>6, RunKept
<1>9. ASSUME NEW i \in 1 .. Len(stack'), stack'[i].call = "pull", stack'[i].node \in K
      PROVE  PullOK(i)'
  <2>1. i \in 1 .. Len(stack) /\ stack'[i] = stack[i] /\ i # Len(stack') BY <1>9
  <2>2. PullOK(i) BY <1>9, <2>1 DEF ColourInv
  <2>3. ASSUME NEW k \in Readable, i < Len(stack) PROVE ~IsPull(k, i + 1)
    <3>1. i + 1 \in 1 .. Len(stack) BY <2>1, <2>3, IndexFacts
    <3> QED BY <3>1 DEF IsPull, Pure
  <2> QED BY <1>2, <2>1, <2>2, <2>3, PullKept
<1>10. ReadInv' BY DEF ReadInv, In
<1> QED BY <1>7, <1>8, <1>9, <1>10 DEF ColourInv

\* set() by the user.
LEMMA SetColours ==
  ASSUME TypeOK, EdgesInv, NEW K \in {Computeds, Reactions}, ColourInv(K),
         NEW s \in Sigs, NEW v \in Domain(s), Set(s, v)
  PROVE  ColourInv(K)'
<1>1. /\ Idle /\ Len(stack) = 0 /\ stack' \in Seq(Frames)
      /\ batchDepth = 0 => Len(stack') = 2 /\ Top' = stack'[2] /\ stack'[1] = Flush
      /\ batchDepth # 0 => Len(stack') = 1 /\ Top' = stack'[1]
      /\ Top'.call = "mark"
      /\ \A n, c : Contains(Top'.left, <<n, c>>) <=> Contains(observers[s], n) /\ c = DIRTY
      /\ value' = [value EXCEPT ![s] = v]
      /\ moved' = moved \cup ReadersOf(s)
      /\ UNCHANGED <<state, graph, pendingEffects, batchDepth, life, saw, lost>>
  BY SetIs
<1>2. Flush.call = "flush" BY DEF Flush
<1>3. ASSUME NEW i \in 1 .. Len(stack') PROVE stack'[i].call \in {"mark", "flush"}
  <2>1. CASE batchDepth = 0
    <3>1. Len(stack') = 2 BY <1>1, <2>1
    <3>2. i = 1 \/ i = 2 BY <3>1
    <3> QED BY <1>1, <1>2, <2>1, <3>2
  <2>2. CASE batchDepth # 0
    <3>1. Len(stack') = 1 BY <1>1, <2>2
    <3>2. i = 1 BY <3>1
    <3> QED BY <1>1, <2>2, <3>2
  <2> QED BY <2>1, <2>2
<1>4. ~In("mark") BY <1>1 DEF In
<1>5. \A i \in 1 .. Len(stack) : ~Pure(stack[i]) BY <1>1
<1>6. In("mark")'
  <2>1. Len(stack') # 0 BY <1>1
  <2> QED BY <1>1, <2>1, NewIndexFacts DEF In
<1> QED BY <1>1, <1>3, <1>4, <1>5, <1>6, AssignColours

\* set() by an effect: no function of a computed is running below.
LEMMA RunWriteColours ==
  ASSUME TypeOK, EdgesInv, StackInv, NEW K \in {Computeds, Reactions}, ColourInv(K), RunWrite
  PROVE  ColourInv(K)'
<1>1. PICK s : s = NextOp(Top).node OBVIOUS
<1>2. PICK v : v = NextOp(Top).to OBVIOUS
<1>3. /\ In("run") /\ ~Idle /\ Top = stack[Len(stack)] /\ Len(stack) \in Nat \ {0}
      /\ Top.reading = Undefined /\ Top.node \in Effects
      /\ s \in Sigs /\ stack' \in Seq(Frames)
      /\ stack'[Len(stack)].call = "run" /\ stack'[Len(stack)].node = Top.node
      /\ stack'[Len(stack)].reading = Undefined
      /\ \A i \in 1 .. Len(stack) - 1 : stack'[i] = stack[i]
      /\ UNCHANGED <<calls, state, graph, pendingEffects, batchDepth, life, saw, lost>>
  BY <1>1, RunWriteIs
<1>4. \/ /\ Len(stack') = Len(stack) /\ Top' = stack'[Len(stack)]
         /\ UNCHANGED <<value, moved>>
      \/ /\ batchDepth = 0 =>
              /\ Len(stack') = Len(stack) + 2 /\ Top' = stack'[Len(stack) + 2]
              /\ stack'[Len(stack) + 1] = Flush
         /\ batchDepth # 0 => Len(stack') = Len(stack) + 1 /\ Top' = stack'[Len(stack) + 1]
         /\ Top'.call = "mark"
         /\ \A n, c : Contains(Top'.left, <<n, c>>) <=> Contains(observers[s], n) /\ c = DIRTY
         /\ value' = [value EXCEPT ![s] = v]
         /\ moved' = moved \cup ReadersOf(s)
  BY <1>1, <1>2, RunWriteIs
<1>5. Top.call = "run" /\ ~In("mark") BY <1>3 DEF In
<1>6. Top.node \notin Readable BY <1>3, NodeKinds
<1>7. \A i \in 1 .. Len(stack) : ~Pure(stack[i]) BY <1>3, <1>6, NothingPure DEF Pure
<1>8. ASSUME NEW i \in 1 .. Len(stack)
      PROVE  /\ stack'[i].call = stack[i].call /\ stack'[i].node = stack[i].node
             /\ stack[i].call = "pull" => stack'[i] = stack[i]
             /\ stack[i].call = "run" => stack'[i].reading = stack[i].reading
  <2>1. i = Len(stack) \/ i \in 1 .. Len(stack) - 1 BY <1>3
  <2> QED BY <1>3, <1>5, <2>1
<1>9. CASE UNCHANGED <<value, moved>> /\ Len(stack') = Len(stack) /\ Top' = stack'[Len(stack)]
  <2>1. ~In("mark")' BY <1>3, <1>9 DEF In
  <2>2. \A n, c : ~Marked(n, c) /\ ~Marked(n, c)' BY <1>5, <2>1 DEF Marked
  <2>3. \A n : ~MaybeMarked(n) /\ ~MaybeMarked(n)' BY <2>2 DEF MaybeMarked
  <2>4. state' = state /\ sources' = sources /\ saw' = saw /\ life' = life /\ value' = value
        /\ moved' = moved
    BY <1>3, <1>9 DEF graph
  <2>5. K \subseteq Reactions /\ Computeds \subseteq K BY NodeKinds
  <2>6. ASSUME NEW n \in K PROVE NodeOK(n)'
    <3>1. NodeOK(n) BY DEF ColourInv
    <3>2. n \in Reactions /\ (Disposed(n) => Disposed(n)') BY <2>4, <2>5 DEF Disposed
    <3> QED BY <2>2, <2>3, <2>4, <3>1, <3>2, NodeKept
  <2>7. ASSUME NEW i \in 1 .. Len(stack'), stack'[i].call = "run", stack'[i].node \in K
        PROVE  RunOK(i)'
    <3>1. i \in 1 .. Len(stack) BY <1>9
    <3>2. /\ stack[i].call = "run" /\ stack'[i].node = stack[i].node
          /\ stack'[i].reading = stack[i].reading
      BY <1>8, <2>7, <3>1
    <3>3. RunOK(i) BY <2>7, <3>1, <3>2 DEF ColourInv
    <3>4. stack[i].node \notin Computeds BY <1>7, <3>1, <3>2, NodeKinds DEF Pure
    <3> QED BY <2>2, <2>3, <2>4, <3>2, <3>3, <3>4, RunKept
  <2>8. ASSUME NEW i \in 1 .. Len(stack'), stack'[i].call = "pull", stack'[i].node \in K
        PROVE  PullOK(i)'
    <3>1. i \in 1 .. Len(stack) BY <1>9
    <3>2. stack[i].call = "pull" /\ stack'[i] = stack[i] BY <1>8, <2>8, <3>1
    <3>3. PullOK(i) BY <2>8, <3>1, <3>2 DEF ColourInv
    <3>4. i # Len(stack') BY <1>3, <1>9, <2>8
    <3>5. ASSUME NEW k \in Readable, i < Len(stack) PROVE ~IsPull(k, i + 1)
      <4>1. i + 1 \in 1 .. Len(stack) BY <3>1, <3>5, IndexFacts
      <4> QED BY <1>7, <4>1 DEF IsPull, Pure
    <3> QED BY <2>4, <3>2, <3>3, <3>4, <3>5, PullKept
  <2>9. ReadInv' BY <1>3, <1>9 DEF ReadInv
  <2> QED BY <2>6, <2>7, <2>8, <2>9 DEF ColourInv
<1>10. CASE /\ batchDepth = 0 =>
                 /\ Len(stack') = Len(stack) + 2 /\ Top' = stack'[Len(stack) + 2]
                 /\ stack'[Len(stack) + 1] = Flush
            /\ batchDepth # 0 => Len(stack') = Len(stack) + 1 /\ Top' = stack'[Len(stack) + 1]
            /\ Top'.call = "mark"
            /\ \A n, c : Contains(Top'.left, <<n, c>>) <=> Contains(observers[s], n) /\ c = DIRTY
            /\ value' = [value EXCEPT ![s] = v]
            /\ moved' = moved \cup ReadersOf(s)
  <2>1. Flush.call = "flush" BY DEF Flush
  <2>2. Len(stack') > Len(stack) BY <1>3, <1>10
  <2>3. In("mark")'
    <3>1. Len(stack') # 0 BY <1>3, <2>2
    <3> QED BY <1>3, <1>10, <3>1, NewIndexFacts DEF In
  <2>4. ASSUME NEW i \in 1 .. Len(stack')
        PROVE  stack'[i].call \in {"mark", "flush"} \/ (i \in 1 .. Len(stack) /\ i # Len(stack'))
    <3>1. CASE i \in 1 .. Len(stack) BY <1>3, <2>2, <3>1
    <3>2. CASE i > Len(stack)
      <4>1. CASE batchDepth = 0
        <5>1. Len(stack') = Len(stack) + 2 /\ Len(stack) \in Nat BY <1>3, <1>10, <4>1
        <5>2. i = Len(stack) + 1 \/ i = Len(stack) + 2 BY <3>2, <5>1
        <5> QED BY <1>10, <2>1, <4>1, <5>2
      <4>2. CASE batchDepth # 0
        <5>1. Len(stack') = Len(stack) + 1 /\ Len(stack) \in Nat BY <1>3, <1>10, <4>2
        <5>2. i = Len(stack) + 1 BY <3>2, <5>1
        <5> QED BY <1>10, <4>2, <5>2
      <4> QED BY <4>1, <4>2
    <3>3. Len(stack) \in Nat BY <1>3
    <3>4. i \in 1 .. Len(stack) \/ i > Len(stack) BY <3>3
    <3> QED BY <3>1, <3>2, <3>4
  <2>5. UNCHANGED <<state, graph, life, saw>> BY <1>3
  <2> QED BY <1>3, <1>5, <1>7, <1>8, <1>10, <2>3, <2>4, <2>5, AssignColours
<1> QED BY <1>4, <1>9, <1>10

\* markStale: what it makes stale it colours or has still to mark.
LEMMA MarkStaleColours ==
  ASSUME TypeOK, EdgesInv, StackInv, NEW K \in {Computeds, Reactions}, ColourInv(K), MarkStale,
         \A i \in 1 .. Len(stack) :
           stack[i].call = "run" /\ stack[i].node \in K => stack[i].node # Head(Top.left)[1]
  PROVE  ColourInv(K)'
<1>1. PICK n : n = Head(Top.left)[1] OBVIOUS
<1>2. PICK c : c = Head(Top.left)[2] OBVIOUS
<1>3. /\ In("mark") /\ n \in Reactions /\ c \in {CHECK, DIRTY}
      /\ \A x : Contains(Top.left, x) <=> x = <<n, c>> \/ Contains(Tail(Top.left), x)
      /\ stack' \in Seq(Frames) /\ stack' # <<>> /\ Len(stack') = Len(stack)
      /\ Len(stack) \in Nat \ {0}
      /\ stack'[Len(stack)] = Top' /\ Top'.call = "mark"
      /\ \A i \in 1 .. Len(stack) - 1 : stack'[i] = stack[i]
      /\ \/ /\ state[n] >= c /\ Top'.left = Tail(Top.left)
            /\ UNCHANGED <<state, pendingEffects>>
         \/ /\ ~(state[n] >= c) /\ state' = [state EXCEPT ![n] = c]
            /\ \A x : Contains(Top'.left, x) <=>
                 (\E k \in Reactions : x = <<k, CHECK>> /\ Contains(observers[n], k))
                   \/ Contains(Tail(Top.left), x)
      /\ UNCHANGED <<calls, value, graph, batchDepth, life, saw, history>>
  BY <1>1, <1>2, MarkStaleIs
<1>4. value' = value /\ sources' = sources /\ saw' = saw /\ life' = life /\ moved' = moved
  BY <1>3 DEF graph, history
<1>5. K \subseteq Reactions /\ K \subseteq Nodes /\ Computeds \subseteq K /\ n \in Nodes
      /\ Reactions \subseteq Nodes /\ Readable \subseteq Nodes
  BY <1>3, NodeKinds
<1>6. ~Idle /\ Top.call = "mark" /\ Top = stack[Len(stack)] BY <1>3, TopFacts DEF In
<1>7. \A i \in 1 .. Len(stack) : ~Pure(stack[i]) BY <1>6, NothingPure DEF Pure
<1>8. In("mark")' BY <1>3 DEF In, Idle
<1>9. \A k, d : Marked(k, d) <=> Contains(Top.left, <<k, d>>) BY <1>3 DEF Marked
<1>10. \A k, d : Marked(k, d)' <=> Contains(Top'.left, <<k, d>>) BY <1>8 DEF Marked
<1>11. ASSUME NEW k, NEW d, Marked(k, d), k # n \/ d # c PROVE Marked(k, d)'
  <2>1. Contains(Top.left, <<k, d>>) BY <1>9, <1>11
  <2>2. <<k, d>> # <<n, c>> BY <1>11
  <2>3. Contains(Tail(Top.left), <<k, d>>) BY <1>3, <2>1, <2>2
  <2>4. Contains(Top'.left, <<k, d>>) BY <1>3, <2>3
  <2> QED BY <1>10, <2>4
<1>12. ASSUME NEW k, k # n PROVE (MaybeMarked(k) => MaybeMarked(k)') /\ (Marked(k, DIRTY) => Marked(k, DIRTY)')
  BY <1>11, <1>12 DEF MaybeMarked
<1>13. \A k \in Nodes \ {n} : state'[k] = state[k] BY <1>3, <1>5 DEF TypeOK
<1>14. state[n] \in {0, 1, 2} BY <1>5 DEF TypeOK, Colours, CLEAN, CHECK, DIRTY
<1>15. \/ state[n] >= c /\ state'[n] = state[n]
       \/ ~(state[n] >= c) /\ state'[n] = c
  BY <1>3, <1>5 DEF TypeOK
\* A node that is no longer CLEAN has its observers marked.
<1>16. ASSUME NEW k \in Reactions, NEW m \in Readable, Contains(sources[k], m), state[m] = CLEAN
       PROVE  state'[m] = CLEAN \/ MaybeMarked(k)'
  <2>1. CASE m # n BY <1>5, <1>13, <1>16, <2>1
  <2>2. CASE m = n /\ state[n] >= c BY <1>3, <1>15, <1>16, <2>2
  <2>3. CASE m = n /\ ~(state[n] >= c)
    <3>1. Contains(observers[n], k) BY <1>5, <1>16, <2>3 DEF EdgesInv
    <3>2. Contains(Top'.left, <<k, CHECK>>) BY <1>3, <2>3, <3>1
    <3> QED BY <1>10, <3>2 DEF MaybeMarked
  <2> QED BY <2>1, <2>2, <2>3
<1>17. ASSUME NEW k \in K PROVE NodeOK(k)'
  <2>1. NodeOK(k) /\ k \in Reactions /\ k \in Nodes BY <1>5 DEF ColourInv
  <2>2. Disposed(k) => Disposed(k)' BY <1>4 DEF Disposed
  <2>3. CASE k # n BY <1>4, <1>12, <1>13, <1>16, <2>1, <2>2, <2>3, NodeKept
  <2>4. CASE k = n
    <3>1. c = 1 \/ c = 2 BY <1>3 DEF CHECK, DIRTY
    <3>2. state'[n] # CLEAN
      <4>1. state[n] # 0 \/ ~(state[n] >= c) BY <1>14, <3>1
      <4>2. state'[n] = c \/ state'[n] = state[n] BY <1>15
      <4> QED BY <1>15, <3>1, <4>1 DEF CLEAN
    <3>3. CASE state'[n] = DIRTY BY <2>4, <3>2, <3>3 DEF NodeOK
    <3>4. CASE state'[n] # DIRTY
      <4>1. c = CHECK /\ state[n] # DIRTY
        <5>1. c # 2
          <6> SUFFICES ASSUME c = 2 PROVE FALSE OBVIOUS
          <6>1. state[n] >= 2 \/ state'[n] = 2 BY <1>15
          <6>2. state[n] # 2 \/ ~(state[n] >= 2) BY <1>15, <3>4 DEF DIRTY
          <6> QED BY <1>14, <1>15, <3>4, <6>1, <6>2 DEF DIRTY
        <5>2. c = 1 BY <3>1, <5>1
        <5>3. state[n] # 2
          <6> SUFFICES ASSUME state[n] = 2 PROVE FALSE OBVIOUS
          <6>1. state[n] >= c BY <5>2
          <6> QED BY <1>15, <3>4, <6>1 DEF DIRTY
        <5> QED BY <5>2, <5>3 DEF CHECK, DIRTY
      <4>2. Marked(n, DIRTY) => Marked(n, DIRTY)'
        <5>1. DIRTY # c BY <4>1 DEF CHECK, DIRTY
        <5> QED BY <1>11, <5>1
      <4>3. Ran(n)' BY <1>4, <2>1, <2>4, <4>1 DEF NodeOK, Ran, Tracked
      <4>4. Agrees(n)' \/ Marked(n, DIRTY)' BY <1>4, <2>1, <2>4, <4>1, <4>2 DEF NodeOK, Agrees
      <4>5. n \notin moved' \/ Marked(n, DIRTY)' \/ Disposed(n)'
        BY <1>4, <2>1, <2>2, <2>4, <4>1, <4>2 DEF NodeOK
      <4> QED BY <2>4, <3>2, <4>3, <4>4, <4>5 DEF NodeOK
    <3> QED BY <3>3, <3>4
  <2> QED BY <2>3, <2>4
<1>18. ASSUME NEW i \in 1 .. Len(stack'), stack'[i].call # "mark"
       PROVE  i \in 1 .. Len(stack) /\ i # Len(stack) /\ stack'[i] = stack[i]
  <2>1. i # Len(stack) BY <1>3, <1>18
  <2>2. i \in 1 .. Len(stack) - 1 /\ i \in 1 .. Len(stack) BY <1>3, <2>1
  <2> QED BY <1>3, <2>1, <2>2
<1>19. ASSUME NEW i \in 1 .. Len(stack'), stack'[i].call = "run", stack'[i].node \in K
       PROVE  RunOK(i)'
  <2>1. i \in 1 .. Len(stack) /\ stack'[i] = stack[i] BY <1>18, <1>19
  <2>2. RunOK(i) BY <1>19, <2>1 DEF ColourInv
  <2>3. PICK k : k = stack[i].node OBVIOUS
  <2>4. k \in Reactions BY <1>5, <1>19, <2>1, <2>3
  <2>5. k # n BY <1>1, <1>19, <2>1, <2>3
  <2> QED BY <1>4, <1>12, <1>16, <2>1, <2>2, <2>3, <2>4, <2>5, RunKept
\* No call of updateIfNecessary is at its sources.
<1>20. ASSUME NEW i \in 1 .. Len(stack'), stack'[i].call = "pull", stack'[i].node \in K
       PROVE  PullOK(i)'
  <2>1. i \in 1 .. Len(stack) /\ i # Len(stack) /\ stack'[i] = stack[i] BY <1>18, <1>20
  <2>2. stack[i].done
    <3>1. i \in 1 .. Len(stack) - 1 /\ i + 1 \in 1 .. Len(stack) BY <1>3, <2>1
    <3>2. Over(stack[i + 1], stack[i]) BY <3>1 DEF StackInv
    <3>3. ~Pure(stack[i + 1]) BY <1>7, <3>1
    <3> QED BY <1>20, <2>1, <3>2, <3>3 DEF Over, Pure
  <2> QED BY <1>3, <2>1, <2>2 DEF PullOK
<1>21. ReadInv' BY <1>3 DEF ReadInv, In
<1> QED BY <1>17, <1>19, <1>20, <1>21 DEF ColourInv

-----------------------------------------------------------------------------
(* Calls begin and end.                                                    *)

\* Nothing changes but the end of the stack, and no marking is in progress.
LEMMA CallsColours ==
  ASSUME TypeOK, NEW K \in {Computeds, Reactions}, ColourInv(K),
         UNCHANGED <<value, state, graph, life, saw, moved>>,
         \A n, c : ~Marked(n, c) /\ ~Marked(n, c)',
         \A i \in 1 .. Len(stack') :
           \/ /\ i \in 1 .. Len(stack) /\ stack'[i] = stack[i]
              /\ ~(i = Len(stack') /\ stack[i].call = "pull" /\ stack[i].done)
           \/ stack'[i].call \in {"mark", "flush"}
           \/ \E n \in Nodes : stack'[i] = Pull(n)
           \/ stack'[i].call = "pull" /\ (stack'[i].node \in K => PullOK(i)'),
         \A i \in 1 .. Len(stack) : \A k \in Readable :
           (stack[i].call = "pull" /\ ~stack[i].done /\ i < Len(stack) /\ IsPull(k, i + 1)) =>
             i < Len(stack') /\ IsPull(k, i + 1)',
         ReadInv'
  PROVE  ColourInv(K)'
<1>1. \A n : ~MaybeMarked(n) /\ ~MaybeMarked(n)' BY DEF MaybeMarked
<1>2. state' = state /\ sources' = sources /\ saw' = saw /\ life' = life /\ value' = value
      /\ moved' = moved
  BY DEF graph
<1>3. K \subseteq Reactions /\ Computeds \subseteq K BY NodeKinds
<1>4. ASSUME NEW n \in K PROVE NodeOK(n)'
  <2>1. NodeOK(n) BY DEF ColourInv
  <2>2. n \in Reactions /\ (Disposed(n) => Disposed(n)') BY <1>2, <1>3 DEF Disposed
  <2> QED BY <1>1, <1>2, <2>1, <2>2, NodeKept
<1>5. ASSUME NEW i \in 1 .. Len(stack'), stack'[i].call = "run", stack'[i].node \in K
      PROVE  RunOK(i)'
  <2>1. \A n \in Nodes : Pull(n).call # "run" BY DEF Pull
  <2>2. i \in 1 .. Len(stack) /\ stack'[i] = stack[i] BY <1>5, <2>1
  <2>3. RunOK(i) BY <1>5, <2>2 DEF ColourInv
  <2> QED BY <1>1, <1>2, <2>2, <2>3, RunKept
<1>6. ASSUME NEW i \in 1 .. Len(stack'), stack'[i].call = "pull", stack'[i].node \in K
      PROVE  PullOK(i)'
  <2>1. CASE /\ i \in 1 .. Len(stack) /\ stack'[i] = stack[i]
             /\ ~(i = Len(stack') /\ stack[i].call = "pull" /\ stack[i].done)
    <3>1. PullOK(i) BY <1>6, <2>1 DEF ColourInv
    <3>2. \A k \in Readable : (~stack[i].done /\ i < Len(stack) /\ IsPull(k, i + 1)) =>
            i < Len(stack') /\ IsPull(k, i + 1)'
      BY <1>6, <2>1
    <3>3. ~(stack[i].done /\ i = Len(stack')) BY <1>6, <2>1
    <3> QED BY <1>2, <2>1, <3>1, <3>2, <3>3, PullKept
  <2>2. CASE \E n \in Nodes : stack'[i] = Pull(n) BY <1>2, <2>2, PullBegins
  <2> QED BY <1>6, <2>1, <2>2
<1> QED BY <1>4, <1>5, <1>6 DEF ColourInv

\* Nobody is to be marked when no marking is going on.
LEMMA NoMarks ==
  /\ ~In("mark") \/ Top.left = <<>> => \A n, c : ~Marked(n, c)
  /\ ~In("mark")' => \A n, c : ~Marked(n, c)'
BY Empty DEF Marked

\* The user's read of a computed, or the first run of an effect.
LEMMA ReadColours ==
  ASSUME TypeOK, NEW K \in {Computeds, Reactions}, ColourInv(K),
         UNCHANGED <<value, state, graph, saw, moved>>, NEW n \in Nodes, stack' = <<Pull(n)>>,
         Idle, life' = life \/ \A e \in Effects : life'[e] # life[e] => state[e] = DIRTY
  PROVE  ColourInv(K)'
<1>1. stack' \in Seq(Frames) /\ Len(stack') = 1 /\ stack'[1] = Pull(n) /\ Top' = Pull(n)
  BY UserCallIs
<1>2. Pull(n).call = "pull" BY DEF Pull
<1>3. Len(stack) = 0 BY IndexFacts
<1>4. ~In("mark") /\ ~In("mark")' BY <1>1, <1>2 DEF In
<1>5. \A m, c : ~Marked(m, c) /\ ~Marked(m, c)' BY <1>4, NoMarks
<1>6. \A m : ~MaybeMarked(m) /\ ~MaybeMarked(m)' BY <1>5 DEF MaybeMarked
<1>7. state' = state /\ sources' = sources /\ saw' = saw /\ value' = value /\ moved' = moved
  BY DEF graph
<1>8. K \subseteq Reactions /\ Reactions = Computeds \cup Effects BY NodeKinds
<1>9. ASSUME NEW m \in K PROVE NodeOK(m)'
  <2>1. NodeOK(m) /\ m \in Reactions BY <1>8 DEF ColourInv
  <2>2. CASE life' = life \/ m \notin Effects
    <3>1. Disposed(m) => Disposed(m)' BY <2>2 DEF Disposed
    <3> QED BY <1>5, <1>6, <1>7, <2>1, <3>1, NodeKept
  <2>3. CASE m \in Effects /\ life' # life
    <3>1. CASE life'[m] = life[m]
      <4>1. Disposed(m) => Disposed(m)' BY <3>1 DEF Disposed
      <4> QED BY <1>5, <1>6, <1>7, <2>1, <4>1, NodeKept
    <3>2. CASE life'[m] # life[m]
      <4>1. state'[m] = DIRTY BY <1>7, <2>3, <3>2
      <4> QED BY <4>1 DEF NodeOK, DIRTY, CLEAN
    <3> QED BY <3>1, <3>2
  <2> QED BY <2>2, <2>3
<1>10. PullOK(1)' BY <1>1, <1>7, PullBegins
<1>11. ASSUME NEW i \in 1 .. Len(stack') PROVE i = 1 /\ stack'[i].call = "pull" /\ PullOK(i)'
  BY <1>1, <1>2, <1>10
<1>12. ReadInv' BY <1>1, <1>2 DEF ReadInv, In
<1> QED BY <1>9, <1>11, <1>12 DEF ColourInv

\* Nothing that matters changes.
LEMMA SameColours ==
  ASSUME TypeOK, NEW K \in {Computeds, Reactions}, ColourInv(K),
         UNCHANGED <<value, state, graph, saw, moved, stack>>,
         life' = life \/ \A e \in Effects : life'[e] # life[e] => state[e] = DIRTY
  PROVE  ColourInv(K)'
<1>1. state' = state /\ sources' = sources /\ saw' = saw /\ value' = value /\ moved' = moved
      /\ stack' = stack
  BY DEF graph
<1>2. Top' = Top /\ Idle' = Idle BY <1>1 DEF Top, Idle
<1>3. \A m, c : Marked(m, c)' <=> Marked(m, c) BY <1>2 DEF Marked, In
<1>4. \A m : MaybeMarked(m)' <=> MaybeMarked(m) BY <1>3 DEF MaybeMarked
<1>5. K \subseteq Reactions BY NodeKinds
<1>6. ASSUME NEW m \in K PROVE NodeOK(m)'
  <2>1. NodeOK(m) /\ m \in Reactions BY <1>5 DEF ColourInv
  <2>2. CASE Disposed(m) => Disposed(m)' BY <1>1, <1>3, <1>4, <2>1, <2>2, NodeKept
  <2>3. CASE m \in Effects /\ life'[m] # life[m]
    <3>1. state'[m] = DIRTY BY <1>1, <2>3
    <3> QED BY <3>1 DEF NodeOK, DIRTY, CLEAN
  <2> QED BY <2>2, <2>3 DEF Disposed
<1>7. ASSUME NEW i \in 1 .. Len(stack'), stack'[i].call = "run", stack'[i].node \in K
      PROVE  RunOK(i)'
  <2>1. i \in 1 .. Len(stack) /\ stack'[i] = stack[i] BY <1>1
  <2>2. RunOK(i) BY <1>7, <2>1 DEF ColourInv
  <2> QED BY <1>1, <1>3, <1>4, <2>1, <2>2, RunKept
<1>8. ASSUME NEW i \in 1 .. Len(stack'), stack'[i].call = "pull", stack'[i].node \in K
      PROVE  PullOK(i)'
  <2>1. PullOK(i) BY <1>1, <1>8 DEF ColourInv
  <2> QED BY <1>1, <2>1 DEF PullOK, Checked, IsPull, Ran, Tracked, Agrees, SourcesClean
<1>9. ReadInv'
  <2>1. ReadInv BY DEF ColourInv
  <2> QED BY <1>1, <1>2, <2>1 DEF ReadInv, In
<1> QED BY <1>6, <1>7, <1>8, <1>9 DEF ColourInv

\* dispose().
LEMMA DisposeColours ==
  ASSUME TypeOK, NEW K \in {Computeds, Reactions}, ColourInv(K), NEW e \in Effects, Dispose(e)
  PROVE  ColourInv(K)'
<1>1. /\ Idle /\ life' = [life EXCEPT ![e] = "disposed"] /\ sources' = [sources EXCEPT ![e] = <<>>]
      /\ state' = [state EXCEPT ![e] = CLEAN]
      /\ UNCHANGED <<value, pendingEffects, batchDepth, stack, saw, history>>
  BY DEF Dispose, Called
<1>2. value' = value /\ stack' = stack /\ saw' = saw /\ moved' = moved BY <1>1 DEF history
<1>3. /\ e \in Nodes /\ e \notin Readable /\ e \notin Computeds /\ Effects \subseteq Nodes /\ Readable \subseteq Nodes
      /\ K \subseteq Reactions /\ Reactions \subseteq Nodes
  BY NodeKinds
<1>4. /\ life'[e] = "disposed" /\ sources'[e] = <<>> /\ state'[e] = CLEAN
      /\ \A x \in Effects \ {e} : life'[x] = life[x]
      /\ \A x \in Nodes \ {e} : state'[x] = state[x] /\ sources'[x] = sources[x]
  BY <1>1, <1>3 DEF TypeOK
<1>5. Len(stack) = 0 /\ ~In("mark") /\ ~In("mark")' BY <1>1, <1>2, IndexFacts DEF In, Idle
<1>6. \A m, c : ~Marked(m, c) /\ ~Marked(m, c)' BY <1>5, NoMarks
<1>7. \A m : ~MaybeMarked(m) /\ ~MaybeMarked(m)' BY <1>6 DEF MaybeMarked
<1>8. ASSUME NEW n \in K PROVE NodeOK(n)'
  <2>1. CASE n = e
    <3>1. Ran(n)' BY <1>3, <2>1 DEF Ran
    <3>2. Agrees(n)' /\ SourcesClean(n)' BY <1>4, <2>1, Empty DEF Agrees, SourcesClean
    <3>3. Disposed(n)' BY <1>4, <2>1 DEF Disposed
    <3> QED BY <3>1, <3>2, <3>3 DEF NodeOK
  <2>2. CASE n # e
    <3>1. NodeOK(n) /\ n \in Reactions /\ state'[n] = state[n] /\ sources'[n] = sources[n]
      BY <1>3, <1>4, <2>2 DEF ColourInv
    <3>2. Disposed(n) => Disposed(n)' BY <1>4, <2>2 DEF Disposed
    <3>3. \A k \in Readable : state'[k] = state[k] BY <1>3, <1>4
    <3> QED BY <1>2, <1>6, <1>7, <3>1, <3>2, <3>3, NodeKept
  <2> QED BY <2>1, <2>2
<1>9. \A i \in 1 .. Len(stack') : FALSE BY <1>2, <1>5
<1>10. ReadInv' BY <1>1, <1>2 DEF ReadInv, In, Idle
<1> QED BY <1>8, <1>9, <1>10 DEF ColourInv

\* A call that is marking or flushing was made by a flush, by an effect, or by the user.
LEMMA BelowMark ==
  ASSUME TypeOK, StackInv, ~Idle, Top.call \in {"mark", "flush"}, Len(stack) > 1
  PROVE  LET f == stack[Len(stack) - 1]
         IN  f.call = "flush" \/ (f.call = "run" /\ f.reading = Undefined /\ f.node \in Effects)
<1>1. Top = stack[Len(stack)] /\ Len(stack) \in Nat \ {0} BY TopFacts
<1>2. PICK i : i = Len(stack) - 1 OBVIOUS
<1>3. i \in 1 .. Len(stack) - 1 /\ i + 1 = Len(stack) BY <1>1, <1>2
<1>4. Over(stack[i + 1], stack[i]) BY <1>3 DEF StackInv
<1> QED BY <1>1, <1>2, <1>3, <1>4 DEF Over

\* markStale and flush return.
LEMMA DoneColours ==
  ASSUME TypeOK, StackInv, NEW K \in {Computeds, Reactions}, ColourInv(K), MarkDone \/ FlushDone
  PROVE  ColourInv(K)'
<1>1. /\ ~Idle /\ Top = stack[Len(stack)] /\ Len(stack) \in Nat \ {0}
      /\ In("mark") \/ In("flush")
      /\ Top.left = <<>>
      /\ stack' \in Seq(Frames) /\ Len(stack') = Len(stack) - 1
      /\ \A i \in 1 .. Len(stack) - 1 : stack'[i] = stack[i]
      /\ ~Idle' => Len(stack) > 1 /\ Top' = stack[Len(stack) - 1]
      /\ UNCHANGED <<calls, value, state, graph, pendingEffects, batchDepth, life, saw, history>>
  BY DoneIs
<1>2. Top.call \in {"mark", "flush"} BY <1>1 DEF In
<1>3. Idle' \/ Top'.call = "flush" \/ (Top'.call = "run" /\ Top'.reading = Undefined)
  BY <1>1, <1>2, BelowMark
<1>4. ~In("mark")' /\ ReadInv' BY <1>3 DEF In, ReadInv
<1>5. \A n, c : ~Marked(n, c) /\ ~Marked(n, c)' BY <1>1, <1>4, NoMarks
<1>6. ASSUME NEW i \in 1 .. Len(stack')
      PROVE  /\ i \in 1 .. Len(stack) /\ stack'[i] = stack[i]
             /\ ~(i = Len(stack') /\ stack[i].call = "pull" /\ stack[i].done)
  <2>1. i \in 1 .. Len(stack) - 1 BY <1>1
  <2>2. i \in 1 .. Len(stack) /\ stack'[i] = stack[i] BY <1>1, <2>1
  <2>3. CASE i = Len(stack')
    <3>1. ~Idle' BY <1>1, <2>1, <2>3, NewIndexFacts
    <3>2. Top' = stack[i] BY <1>1, <2>3, <3>1
    <3> QED BY <1>3, <2>2, <3>1, <3>2
  <2> QED BY <2>2, <2>3
<1>7. ASSUME NEW i \in 1 .. Len(stack), NEW k \in Readable, i < Len(stack), IsPull(k, i + 1)
      PROVE  i < Len(stack') /\ IsPull(k, i + 1)'
  <2>1. i + 1 # Len(stack) BY <1>1, <1>2, <1>7 DEF IsPull
  <2>2. i + 1 \in 1 .. Len(stack) - 1 BY <1>1, <1>7, <2>1
  <2>3. stack'[i + 1] = stack[i + 1] /\ i < Len(stack') BY <1>1, <2>2
  <2> QED BY <1>7, <2>3 DEF IsPull
<1>8. UNCHANGED <<value, state, graph, life, saw, moved>> BY <1>1 DEF history
<1> QED BY <1>4, <1>5, <1>6, <1>7, <1>8, CallsColours

\* A flush takes the queue, or comes to its next effect.
LEMMA FlushColours ==
  ASSUME TypeOK, NEW K \in {Computeds, Reactions}, ColourInv(K), FlushTake \/ FlushNext
  PROVE  ColourInv(K)'
<1>1. PICK e : e = Head(Top.left) OBVIOUS
<1>2. /\ In("flush") /\ ~Idle /\ Top = stack[Len(stack)] /\ Len(stack) \in Nat \ {0}
      /\ stack' \in Seq(Frames)
      /\ stack'[Len(stack)].call = "flush"
      /\ \A i \in 1 .. Len(stack) - 1 : stack'[i] = stack[i]
      /\ \/ Len(stack') = Len(stack) /\ Top' = stack'[Len(stack)]
         \/ /\ Len(stack') = Len(stack) + 1 /\ Top' = stack'[Len(stack) + 1]
            /\ stack'[Len(stack) + 1] = Pull(e) /\ e \in Effects
      /\ UNCHANGED <<calls, value, state, graph, batchDepth, life, saw, history>>
  <2>1. CASE FlushTake BY <2>1, FlushTakeIs
  <2>2. CASE FlushNext BY <1>1, <2>2, FlushNextIs
  <2> QED BY <2>1, <2>2
<1>3. Top.call = "flush" BY <1>2 DEF In
<1>4. Pull(e).call = "pull" BY DEF Pull
<1>5. Top'.call \in {"flush", "pull"} BY <1>2, <1>4
<1>6. ~In("mark") /\ ~In("mark")' /\ ReadInv' BY <1>3, <1>5 DEF In, ReadInv
<1>7. \A n, c : ~Marked(n, c) /\ ~Marked(n, c)' BY <1>6, NoMarks
<1>8. Effects \subseteq Nodes BY NodeKinds
<1>9. ASSUME NEW i \in 1 .. Len(stack')
      PROVE  \/ /\ i \in 1 .. Len(stack) /\ stack'[i] = stack[i]
                /\ ~(i = Len(stack') /\ stack[i].call = "pull" /\ stack[i].done)
             \/ stack'[i].call \in {"mark", "flush"}
             \/ \E n \in Nodes : stack'[i] = Pull(n)
  <2>1. i \in 1 .. Len(stack) - 1 \/ i = Len(stack) \/ i > Len(stack) BY <1>2
  <2>2. CASE i \in 1 .. Len(stack) - 1
    <3>1. i \in 1 .. Len(stack) /\ i # Len(stack') BY <1>2, <2>2
    <3> QED BY <1>2, <2>2, <3>1
  <2>3. CASE i = Len(stack) BY <1>2, <2>3
  <2>4. CASE i > Len(stack)
    <3>1. i = Len(stack) + 1 /\ stack'[Len(stack) + 1] = Pull(e) /\ e \in Effects BY <1>2, <2>4
    <3> QED BY <1>8, <3>1
  <2> QED BY <2>1, <2>2, <2>3, <2>4
<1>10. ASSUME NEW i \in 1 .. Len(stack), NEW k \in Readable, i < Len(stack), IsPull(k, i + 1)
       PROVE  i < Len(stack') /\ IsPull(k, i + 1)'
  <2>1. i + 1 # Len(stack) BY <1>2, <1>3, <1>10 DEF IsPull
  <2>2. i + 1 \in 1 .. Len(stack) - 1 BY <1>2, <1>10, <2>1
  <2>3. stack'[i + 1] = stack[i + 1] /\ i < Len(stack') BY <1>2, <2>2
  <2> QED BY <1>10, <2>3 DEF IsPull
<1>11. UNCHANGED <<value, state, graph, life, saw, moved>> BY <1>2 DEF history
<1> QED BY <1>6, <1>7, <1>9, <1>10, <1>11, CallsColours

\* The end of a batch.
LEMMA BatchEndColours ==
  ASSUME TypeOK, NEW K \in {Computeds, Reactions}, ColourInv(K), BatchEnd
  PROVE  ColourInv(K)'
<1>1. /\ Idle /\ Len(stack) = 0
      /\ \/ batchDepth' = 0 /\ stack' = <<Flush>> /\ stack' \in Seq(Frames) /\ Len(stack') = 1
            /\ stack'[1] = Flush /\ Top' = Flush /\ Flush.call = "flush" /\ Flush.left = <<>>
         \/ stack' = stack
      /\ UNCHANGED <<value, state, graph, pendingEffects, life, saw, history>>
  BY BatchEndIs
<1>2. UNCHANGED <<value, state, graph, life, saw, moved>> BY <1>1 DEF history
<1>3. CASE stack' = stack BY <1>2, <1>3, SameColours
<1>4. CASE /\ stack' \in Seq(Frames) /\ Len(stack') = 1
           /\ stack'[1] = Flush /\ Top' = Flush /\ Flush.call = "flush"
  <2>1. ~In("mark") /\ ~In("mark")' /\ ReadInv' BY <1>1, <1>4 DEF In, ReadInv
  <2>2. \A n, c : ~Marked(n, c) /\ ~Marked(n, c)' BY <2>1, NoMarks
  <2>3. \A i \in 1 .. Len(stack') : stack'[i].call \in {"mark", "flush"} BY <1>4
  <2>4. \A i \in 1 .. Len(stack) : FALSE BY <1>1
  <2> QED BY <1>2, <2>1, <2>2, <2>3, <2>4, CallsColours
<1> QED BY <1>1, <1>3, <1>4

\* updateIfNecessary pulls the next source.
LEMMA PullSourceColours ==
  ASSUME TypeOK, NEW K \in {Computeds, Reactions}, ColourInv(K), PullSource
  PROVE  ColourInv(K)'
<1>1. PICK m : m = Head(Top.left) OBVIOUS
<1>2. PICK n : n = Top.node OBVIOUS
<1>3. /\ In("pull") /\ ~Idle /\ Top = stack[Len(stack)] /\ Len(stack) \in Nat \ {0}
      /\ ~Top.done /\ n \in Reactions /\ state[n] = CHECK /\ m \in Readable
      /\ \A x : Contains(Top.left, x) <=> x = m \/ Contains(Tail(Top.left), x)
      /\ stack' \in Seq(Frames) /\ Len(stack') = Len(stack) + 1 /\ Top' = stack'[Len(stack) + 1]
      /\ stack'[Len(stack)].call = "pull" /\ stack'[Len(stack)].node = n
      /\ stack'[Len(stack)].done = FALSE /\ stack'[Len(stack)].left = Tail(Top.left)
      /\ stack'[Len(stack) + 1] = Pull(m)
      /\ \A i \in 1 .. Len(stack) - 1 : stack'[i] = stack[i]
      /\ UNCHANGED <<calls, value, state, graph, pendingEffects, batchDepth, life, saw, history>>
  BY <1>1, <1>2, PullSourceIs
<1>4. Top.call = "pull" BY <1>3 DEF In
<1>5. Pull(m).call = "pull" /\ Pull(m).node = m BY DEF Pull
<1>6. ~In("mark") /\ ~In("mark")' /\ ReadInv' BY <1>3, <1>4, <1>5 DEF In, ReadInv
<1>7. \A x, c : ~Marked(x, c) /\ ~Marked(x, c)' BY <1>6, NoMarks
<1>8. UNCHANGED <<value, state, graph, life, saw, moved>> BY <1>3 DEF history
<1>9. m \in Nodes BY <1>3, NodeKinds
<1>14. PICK l : l = Len(stack) OBVIOUS
<1>10. IsPull(m, l + 1)' BY <1>3, <1>5, <1>14 DEF IsPull
<1>11. ASSUME n \in K PROVE PullOK(l)'
  <2>1. l \in 1 .. Len(stack) /\ stack[l] = Top /\ l < Len(stack') BY <1>3, <1>14
  <2>2. PullOK(l) BY <1>2, <1>3, <1>4, <1>11, <2>1 DEF ColourInv
  <2>3. ASSUME NEW k \in Readable, Contains(sources'[n], k) PROVE Checked(n, l, k)'
    <3>1. Contains(sources[n], k) BY <1>8, <2>3 DEF graph
    <3>2. Checked(n, l, k) BY <1>2, <1>3, <2>1, <2>2, <3>1 DEF PullOK
    <3>3. CASE state[k] = CLEAN BY <1>3, <3>3 DEF Checked
    <3>4. CASE Contains(Top.left, k)
      <4>1. CASE k = m BY <1>10, <2>1, <4>1 DEF Checked
      <4>2. CASE k # m BY <1>3, <1>14, <3>4, <4>2 DEF Checked
      <4> QED BY <4>1, <4>2
    <3>5. ~(l < Len(stack)) BY <1>3, <1>14
    <3> QED BY <2>1, <3>2, <3>3, <3>4, <3>5 DEF Checked
  <2>4. stack'[l].node = n /\ stack'[l].done = FALSE BY <1>3, <1>14
  <2> QED BY <2>3, <2>4 DEF PullOK
<1>12. ASSUME NEW i \in 1 .. Len(stack')
       PROVE  \/ /\ i \in 1 .. Len(stack) /\ stack'[i] = stack[i]
                 /\ ~(i = Len(stack') /\ stack[i].call = "pull" /\ stack[i].done)
              \/ \E x \in Nodes : stack'[i] = Pull(x)
              \/ stack'[i].call = "pull" /\ (stack'[i].node \in K => PullOK(i)')
  <2>1. i \in 1 .. Len(stack) - 1 \/ i = Len(stack) \/ i = Len(stack) + 1 BY <1>3
  <2>2. CASE i \in 1 .. Len(stack) - 1
    <3>1. i \in 1 .. Len(stack) /\ i # Len(stack') BY <1>3, <2>2
    <3> QED BY <1>3, <2>2, <3>1
  <2>3. CASE i = Len(stack)
    <3>1. stack'[i].call = "pull" /\ stack'[i].node = n BY <1>3, <2>3
    <3>2. n \in K => PullOK(i)' BY <1>11, <1>14, <2>3
    <3> QED BY <3>1, <3>2
  <2>4. CASE i = Len(stack) + 1 BY <1>3, <1>9, <2>4
  <2> QED BY <2>1, <2>2, <2>3, <2>4
<1>13. ASSUME NEW i \in 1 .. Len(stack), NEW k \in Readable, i < Len(stack), IsPull(k, i + 1)
       PROVE  i < Len(stack') /\ IsPull(k, i + 1)'
  <2>1. i + 1 \in 1 .. Len(stack) - 1 \/ i + 1 = Len(stack) BY <1>3, <1>13
  <2>2. i < Len(stack') BY <1>3, <1>13
  <2>3. stack'[i + 1].call = stack[i + 1].call /\ stack'[i + 1].node = stack[i + 1].node
    BY <1>2, <1>3, <1>4, <2>1
  <2> QED BY <1>13, <2>2, <2>3 DEF IsPull
<1> QED BY <1>6, <1>7, <1>8, <1>12, <1>13, CallsColours

\* update begins: the node forgets its sources.
LEMMA PullUpdateColours ==
  ASSUME TypeOK, EdgesInv, StackInv, QueueInv, NEW K \in {Computeds, Reactions}, ColourInv(K),
         PullUpdate
  PROVE  ColourInv(K)'
<1>1. PICK n : n = Top.node OBVIOUS
<1>2. PICK l : l = Len(stack) OBVIOUS
<1>3. /\ In("pull") /\ ~Idle /\ Top = stack[l] /\ l \in Nat \ {0}
      /\ ~Top.done /\ n \in Reactions /\ state[n] = DIRTY
      /\ stack' \in Seq(Frames) /\ Len(stack') = l + 1 /\ Top' = stack'[l + 1]
      /\ stack'[l].call = "pull" /\ stack'[l].node = n /\ stack'[l].done = TRUE
      /\ stack'[l + 1].call = "run" /\ stack'[l + 1].node = n
      /\ stack'[l + 1].reading = Undefined /\ stack'[l + 1].wrote = FALSE
      /\ \A i \in 1 .. l - 1 : stack'[i] = stack[i]
      /\ sources'[n] = <<>> /\ \A m \in Nodes \ {n} : sources'[m] = sources[m]
      /\ saw'[n] = Unread /\ \A m \in Reactions \ {n} : saw'[m] = saw[m]
      /\ moved' = moved \ {n}
      /\ UNCHANGED <<calls, value, state, pendingEffects, batchDepth, life, lost>>
  BY <1>1, <1>2, PullUpdateIs
<1>4. Top.call = "pull" /\ l \in 1 .. Len(stack) BY <1>2, <1>3 DEF In
<1>5. ~In("mark") /\ ~In("mark")' /\ ReadInv' BY <1>3, <1>4 DEF In, ReadInv
<1>6. \A x, c : ~Marked(x, c) /\ ~Marked(x, c)' BY <1>5, NoMarks
<1>7. \A x : ~MaybeMarked(x) /\ ~MaybeMarked(x)' BY <1>6 DEF MaybeMarked
<1>8. K \subseteq Reactions /\ Reactions \subseteq Nodes BY NodeKinds
<1>9. ASSUME NEW m \in K PROVE NodeOK(m)'
  <2>1. CASE m = n BY <1>3, <2>1 DEF NodeOK, DIRTY, CLEAN
  <2>2. CASE m # n
    <3>1. NodeOK(m) /\ m \in Reactions /\ sources'[m] = sources[m] /\ saw'[m] = saw[m]
      BY <1>3, <1>8, <2>2 DEF ColourInv
    <3>2. Disposed(m) => Disposed(m)' BY <1>3 DEF Disposed
    <3> QED BY <1>3, <1>6, <1>7, <3>1, <3>2, NodeKept
  <2> QED BY <2>1, <2>2
\* No other call is for n.
<1>10. ASSUME NEW i \in 1 .. l - 1, stack[i].call \in {"pull", "run"} PROVE stack[i].node # n
  <2>1. i \in 1 .. Len(stack) /\ i # l /\ i \in Nat BY <1>2, <1>3
  <2>2. CASE stack[i].call = "pull" BY <1>1, <1>3, <1>4, <2>1, <2>2, Alone
  <2>3. CASE stack[i].call = "run"
    <3>1. /\ i - 1 \in 1 .. Len(stack)
          /\ stack[i - 1].call = "pull" /\ stack[i - 1].done /\ stack[i - 1].node = stack[i].node
      BY <2>1, <2>3, RunUnder
    <3>2. i - 1 # l BY <1>3, <2>1
    <3> QED BY <1>1, <1>3, <1>4, <3>1, <3>2, Alone
  <2> QED BY <1>10, <2>2, <2>3
<1>11. ASSUME NEW i \in 1 .. Len(stack')
       PROVE  \/ i \in 1 .. l - 1 /\ i \in 1 .. Len(stack) /\ stack'[i] = stack[i]
              \/ i = l
              \/ i = l + 1
  <2>1. i \in 1 .. l - 1 \/ i = l \/ i = l + 1 BY <1>3
  <2>2. i \in 1 .. l - 1 => i \in 1 .. Len(stack) BY <1>2, <1>3
  <2> QED BY <1>3, <2>1, <2>2
<1>12. ASSUME NEW i \in 1 .. Len(stack'), stack'[i].call = "run", stack'[i].node \in K
       PROVE  RunOK(i)'
  <2>1. CASE i \in 1 .. l - 1 /\ i \in 1 .. Len(stack) /\ stack'[i] = stack[i]
    <3>1. RunOK(i) BY <1>12, <2>1 DEF ColourInv
    <3>2. PICK m : m = stack[i].node OBVIOUS
    <3>3. m # n BY <1>10, <1>12, <2>1, <3>2
    <3>4. m \in Reactions BY <1>8, <1>12, <2>1, <3>2
    <3>5. sources'[m] = sources[m] /\ saw'[m] = saw[m] BY <1>3, <1>8, <3>3, <3>4
    <3> QED BY <1>3, <1>6, <1>7, <2>1, <3>1, <3>2, <3>5, RunKept
  <2>2. CASE i = l + 1
    <3>1. \A k \in Readable : ~Contains(sources'[n], k) BY <1>3, Empty
    <3>2. \A m \in Readable : saw'[n][m] = Undefined BY <1>3 DEF Unread
    <3>3. Tracked(n)' BY <3>2 DEF Tracked
    <3>4. Reached(n, saw'[n]) BY <1>3 DEF Reached
    <3>5. ComputedRun(n, Undefined)' BY <3>3, <3>4 DEF ComputedRun
    <3>6. n \notin moved' BY <1>3
    <3> QED BY <1>3, <2>2, <3>1, <3>5, <3>6 DEF RunOK
  <2>3. i # l BY <1>3, <1>12
  <2> QED BY <1>11, <2>1, <2>2, <2>3
<1>13. ASSUME NEW i \in 1 .. Len(stack'), stack'[i].call = "pull", stack'[i].node \in K
       PROVE  PullOK(i)'
  <2>1. CASE i \in 1 .. l - 1 /\ i \in 1 .. Len(stack) /\ stack'[i] = stack[i]
    <3>1. PullOK(i) BY <1>13, <2>1 DEF ColourInv
    <3>2. PICK m : m = stack[i].node OBVIOUS
    <3>3. m # n BY <1>10, <1>13, <2>1, <3>2
    <3>4. m \in Reactions BY <1>8, <1>13, <2>1, <3>2
    <3>5. sources'[m] = sources[m] BY <1>3, <1>8, <3>3, <3>4
    <3>6. i # Len(stack') /\ i < Len(stack') BY <1>3, <2>1
    <3>7. ASSUME NEW k, IsPull(k, i + 1) PROVE IsPull(k, i + 1)'
      <4>1. i + 1 = l \/ i + 1 \in 1 .. l - 1 BY <1>3, <2>1
      <4>2. stack'[i + 1].call = stack[i + 1].call /\ stack'[i + 1].node = stack[i + 1].node
        BY <1>1, <1>3, <1>4, <4>1
      <4> QED BY <3>7, <4>2 DEF IsPull
    <3> QED BY <1>3, <2>1, <3>1, <3>2, <3>5, <3>6, <3>7, PullKept
  <2>2. CASE i = l
    <3>1. i # Len(stack') /\ stack'[i].done BY <1>3, <2>2
    <3> QED BY <3>1 DEF PullOK
  <2>3. i # l + 1 BY <1>3, <1>13
  <2> QED BY <1>11, <2>1, <2>2, <2>3
<1> QED BY <1>5, <1>9, <1>12, <1>13 DEF ColourInv

\* updateIfNecessary ends: the node is CLEAN.
LEMMA PullDoneColours ==
  ASSUME TypeOK, EdgesInv, StackInv, QueueInv, NEW K \in {Computeds, Reactions}, ColourInv(K),
         PullDone
  PROVE  ColourInv(K)'
<1>1. PICK n : n = Top.node OBVIOUS
<1>2. PICK l : l = Len(stack) OBVIOUS
<1>3. /\ In("pull") /\ ~Idle /\ Top = stack[l] /\ l \in Nat \ {0}
      /\ n \in Nodes /\ Top.done \in BOOLEAN
      /\ Top.done \/ (state[n] # DIRTY /\ Top.left = <<>>)
      /\ stack' \in Seq(Frames) /\ Len(stack') = l - 1
      /\ \A i \in 1 .. l - 1 : stack'[i] = stack[i]
      /\ ~Idle' => l > 1 /\ Top' = stack[l - 1]
      /\ state'[n] = CLEAN /\ \A m \in Nodes \ {n} : state'[m] = state[m]
      /\ UNCHANGED <<calls, value, graph, pendingEffects, batchDepth, life, saw, history>>
  BY <1>1, <1>2, PullDoneIs
<1>4. Top.call = "pull" /\ l \in 1 .. Len(stack) /\ ~In("mark") BY <1>2, <1>3 DEF In
<1>5. sources' = sources /\ observers' = observers /\ value' = value /\ saw' = saw /\ life' = life
      /\ moved' = moved
  BY <1>3 DEF graph, history
<1>6. K \subseteq Reactions /\ Reactions \subseteq Nodes /\ Readable \subseteq Nodes BY NodeKinds
\* Who waits for it.
<1>7. ASSUME ~Idle'
      PROVE  \/ Top'.call = "pull" /\ ~Top'.done
             \/ Top'.call = "run" /\ Top'.reading = n
             \/ Top'.call = "flush"
  <2>1. l > 1 /\ Top' = stack[l - 1] BY <1>3, <1>7
  <2>2. PICK i : i = l - 1 OBVIOUS
  <2>3. i \in 1 .. Len(stack) - 1 /\ i + 1 = l BY <1>2, <1>3, <2>1, <2>2
  <2>4. Over(stack[i + 1], stack[i]) BY <2>3 DEF StackInv
  <2> QED BY <1>1, <1>3, <1>4, <2>1, <2>2, <2>3, <2>4 DEF Over
<1>8. ~In("mark")' BY <1>7 DEF In
<1>9. \A x, c : ~Marked(x, c) /\ ~Marked(x, c)' BY <1>4, <1>8, NoMarks
<1>10. \A x : ~MaybeMarked(x) /\ ~MaybeMarked(x)' BY <1>9 DEF MaybeMarked
<1>11. \A m \in Nodes : state[m] = CLEAN => state'[m] = CLEAN BY <1>3
<1>12. ReadInv' BY <1>3, <1>7 DEF ReadInv, In
<1>13. ASSUME NEW m \in K PROVE NodeOK(m)'
  <2>1. NodeOK(m) /\ m \in Reactions /\ m \in Nodes BY <1>6 DEF ColourInv
  <2>2. CASE m # n
    <3>1. Disposed(m) => Disposed(m)' BY <1>5 DEF Disposed
    <3>2. state'[m] = state[m] BY <1>3, <2>1, <2>2
    <3>3. \A k \in Readable : state[k] = CLEAN => state'[k] = CLEAN BY <1>6, <1>11
    <3> QED BY <1>5, <1>9, <1>10, <2>1, <3>1, <3>2, <3>3, NodeKept
  <2>3. CASE m = n
    <3>1. PullOK(l) BY <1>1, <1>3, <1>4, <2>3 DEF ColourInv
    <3>2. Ran(n) /\ Agrees(n) /\ SourcesClean(n) /\ (n \notin moved \/ Disposed(n))
      <4>1. CASE Top.done BY <1>1, <1>2, <1>3, <3>1, <4>1 DEF PullOK
      <4>2. CASE ~Top.done
        <5>1. state[n] # DIRTY /\ Top.left = <<>> BY <1>3, <4>2
        <5>2. Ran(n) /\ Agrees(n) /\ (n \notin moved \/ Disposed(n)) BY <1>9, <2>1, <2>3, <5>1 DEF NodeOK
        <5>3. state[n] \in {CLEAN, CHECK} BY <1>3, <5>1 DEF TypeOK, Colours
        <5>4. CASE state[n] = CLEAN BY <1>10, <2>1, <2>3, <5>2, <5>4 DEF NodeOK
        <5>5. CASE state[n] = CHECK
          <6>1. ASSUME NEW k \in Readable, Contains(sources[n], k) PROVE state[k] = CLEAN
            <7>1. Checked(n, l, k) BY <1>1, <1>3, <3>1, <4>2, <5>5, <6>1 DEF PullOK
            <7>2. ~Contains(stack[l].left, k) /\ ~(l < Len(stack)) BY <1>2, <1>3, <5>1, Empty
            <7> QED BY <7>1, <7>2 DEF Checked
          <6> QED BY <5>2, <6>1 DEF SourcesClean
        <5> QED BY <5>3, <5>4, <5>5
      <4> QED BY <4>1, <4>2
    <3>3. Ran(n)' /\ Agrees(n)' BY <1>5, <3>2 DEF Ran, Tracked, Agrees
    <3>4. SourcesClean(n)' BY <1>5, <1>6, <1>11, <3>2 DEF SourcesClean
    <3>5. n \notin moved' \/ Disposed(n)' BY <1>5, <3>2 DEF Disposed
    <3> QED BY <2>3, <3>3, <3>4, <3>5 DEF NodeOK
  <2> QED BY <2>2, <2>3
<1>14. ASSUME NEW i \in 1 .. Len(stack')
       PROVE  i \in 1 .. Len(stack) /\ i # l /\ stack'[i] = stack[i]
  BY <1>2, <1>3
<1>15. ASSUME NEW i \in 1 .. Len(stack'), stack'[i].call = "run", stack'[i].node \in K
       PROVE  RunOK(i)'
  <2>1. i \in 1 .. Len(stack) /\ stack'[i] = stack[i] BY <1>14
  <2>2. RunOK(i) BY <1>15, <2>1 DEF ColourInv
  <2>3. \A k \in Readable : state[k] = CLEAN => state'[k] = CLEAN BY <1>6, <1>11
  <2> QED BY <1>5, <1>9, <1>10, <2>1, <2>2, <2>3, RunKept
<1>16. ASSUME NEW i \in 1 .. Len(stack'), stack'[i].call = "pull", stack'[i].node \in K
       PROVE  PullOK(i)'
  <2>1. i \in 1 .. Len(stack) /\ i # l /\ stack'[i] = stack[i] BY <1>14
  <2>2. PullOK(i) BY <1>16, <2>1 DEF ColourInv
  <2>3. stack[i].node # n BY <1>1, <1>3, <1>4, <1>16, <2>1, Alone
  <2>4. state'[stack[i].node] = state[stack[i].node] BY <1>3, <1>6, <1>16, <2>1, <2>3
  <2>5. ASSUME NEW k \in Readable, IsPull(k, i + 1)
        PROVE  state'[k] = CLEAN \/ (i < Len(stack') /\ IsPull(k, i + 1)')
    <3>1. CASE i + 1 = l BY <1>1, <1>3, <2>5, <3>1 DEF IsPull
    <3>2. CASE i + 1 # l
      <4>1. i + 1 \in 1 .. l - 1 /\ i < Len(stack') BY <1>2, <1>3, <2>1, <3>2
      <4> QED BY <1>3, <2>5, <4>1 DEF IsPull
    <3> QED BY <3>1, <3>2
  <2>6. ~(stack[i].done /\ i = Len(stack'))
    <3> SUFFICES ASSUME stack[i].done, i = Len(stack') PROVE FALSE OBVIOUS
    <3>1. ~Idle' BY <1>3, <1>14, NewIndexFacts
    <3>2. Top' = stack[i] BY <1>3, <3>1
    <3> QED BY <1>7, <1>16, <2>1, <3>1, <3>2
  <2>7. \A k \in Readable : state[k] = CLEAN => state'[k] = CLEAN BY <1>6, <1>11
  <2> QED BY <1>5, <2>1, <2>2, <2>4, <2>5, <2>6, <2>7, PullKept
<1> QED BY <1>12, <1>13, <1>15, <1>16 DEF ColourInv

-----------------------------------------------------------------------------
(* A function runs.                                                        *)

\* A node being read is read by one function, whose node is DIRTY until it returns.
LEMMA RunTop ==
  ASSUME TypeOK, StackInv, QueueInv, NEW K \in {Computeds, Reactions}, ColourInv(K), In("run")
  PROVE  /\ state[Top.node] = DIRTY /\ Top.node \in Reactions /\ ~In("mark")
         /\ \A i \in 1 .. Len(stack) - 1 :
              /\ stack[i].call = "run" => stack[i].node # Top.node
              /\ (stack[i].call = "pull" /\ stack[i].node = Top.node) =>
                   stack[i].done /\ i = Len(stack) - 1
         /\ Top.node \in K => RunOK(Len(stack))
<1>1. ~Idle /\ Top.call = "run" /\ Top = stack[Len(stack)] /\ Len(stack) \in Nat \ {0}
  BY TopFacts DEF In
<1>2. PICK l : l = Len(stack) OBVIOUS
<1>3. l \in 1 .. Len(stack) /\ stack[l].call = "run" /\ stack[l] = Top BY <1>1, <1>2
<1>4. /\ l - 1 \in 1 .. Len(stack) /\ stack[l - 1].call = "pull" /\ stack[l - 1].done
      /\ stack[l - 1].node = Top.node /\ Top.node \in Reactions
      /\ state[Top.node] = DIRTY
  BY <1>3, RunUnder
<1>5. ASSUME NEW i \in 1 .. Len(stack) - 1
      PROVE  /\ stack[i].call = "run" => stack[i].node # Top.node
             /\ (stack[i].call = "pull" /\ stack[i].node = Top.node) => stack[i].done /\ i = Len(stack) - 1
  <2>1. i \in 1 .. Len(stack) /\ i # l BY <1>1, <1>2
  <2>2. stack[i].call = "run" => stack[i].node # Top.node BY <1>3, <2>1, AloneRun
  <2>3. ASSUME stack[i].call = "pull", stack[i].node = Top.node PROVE stack[i].done /\ i = Len(stack) - 1
    <3>1. i = l - 1 BY <1>4, <2>1, <2>3, Alone
    <3> QED BY <1>2, <1>4, <3>1
  <2> QED BY <2>2, <2>3
<1>6. Top.node \in K => RunOK(l) BY <1>3 DEF ColourInv
<1>7. ~In("mark") BY <1>1 DEF In
<1> QED BY <1>2, <1>4, <1>5, <1>6, <1>7

\* A function reads: the edge is there before the value.
LEMMA ReadsColours ==
  ASSUME TypeOK, EdgesInv, StackInv, QueueInv, NEW K \in {Computeds, Reactions}, ColourInv(K),
         NEW tracked \in BOOLEAN,
         Running(IF tracked THEN "read" ELSE "peek"), Reads(NextOp(Top).node, tracked)
  PROVE  ColourInv(K)'
<1>1. PICK n : n = Top.node OBVIOUS
<1>2. PICK l : l = Len(stack) OBVIOUS
<1>3. PICK m : m = NextOp(Top).node OBVIOUS
<1>4. /\ In("run") /\ ~Idle /\ Top = stack[l] /\ l \in Nat \ {0}
      /\ Top \in Frames /\ Top.reading = Undefined /\ n \in Reactions
      /\ m \in Readable
      /\ stack' \in Seq(Frames)
      /\ stack'[l].call = "run" /\ stack'[l].node = n
      /\ stack'[l].reading = m /\ stack'[l].wrote = Top.wrote
      /\ \A i \in 1 .. l - 1 : stack'[i] = stack[i]
      /\ m \in Sigs => Len(stack') = l /\ Top' = stack'[l]
      /\ m \notin Sigs => Len(stack') = l + 1 /\ Top' = stack'[l + 1] /\ stack'[l + 1] = Pull(m)
      /\ \A k \in Nodes \ {n} : sources'[k] = sources[k]
      /\ saw'[n][m] = Undefined
      /\ \A k \in Readable \ {m} : saw'[n][k] = saw[n][k]
      /\ \A k \in Reactions \ {n} : saw'[k] = saw[k]
      /\ UNCHANGED <<calls, value, state, pendingEffects, batchDepth, life, history>>
  BY <1>1, <1>2, <1>3, ReadsIs
<1>5. \A k : Contains(sources'[n], k) <=> Contains(sources[n], k) \/ (tracked /\ k = m)
  BY <1>1, <1>3, ReadsIs
<1>6. n \in Computeds => tracked /\ Depth(m) < Depth(n) /\ saw[n][m] = Undefined
  BY <1>1, <1>3, ReadsIs
<1>7. NextOp(Top).op = IF tracked THEN "read" ELSE "peek" BY ReadsIs
<1>8. /\ Top.call = "run" /\ l \in 1 .. Len(stack) /\ state[n] = DIRTY /\ ~In("mark")
      /\ \A i \in 1 .. l - 1 :
              /\ stack[i].call = "run" => stack[i].node # n
              /\ (stack[i].call = "pull" /\ stack[i].node = n) => stack[i].done /\ i = l - 1
      /\ n \in K => RunOK(l)
  BY <1>1, <1>2, <1>4, RunTop DEF In
<1>21. \A i \in 1 .. l - 1 : stack[i].call = "run" => stack[i].node # n BY <1>8
<1>22. \A i \in 1 .. l - 1 : stack[i].call = "pull" /\ stack[i].node = n => stack[i].done BY <1>8
<1>9. moved' = moved /\ value' = value /\ state' = state /\ life' = life BY <1>4 DEF history
<1>10. Pull(m).call = "pull" BY DEF Pull
<1>11. ~In("mark")' BY <1>4, <1>10 DEF In
<1>12. \A x, c : ~Marked(x, c) /\ ~Marked(x, c)' BY <1>8, <1>11, NoMarks
<1>13. \A x : ~MaybeMarked(x) /\ ~MaybeMarked(x)' BY <1>12 DEF MaybeMarked
<1>14. K \subseteq Reactions /\ Reactions \subseteq Nodes /\ Readable \subseteq Nodes /\ Undefined \notin Readable
  BY NodeKinds
<1>15. ReadInv'
  <2>1. CASE m \in Sigs
    <3>1. Top'.reading = m /\ state[m] = CLEAN BY <1>4, <2>1 DEF TypeOK
    <3> QED BY <1>9, <3>1 DEF ReadInv
  <2>2. CASE m \notin Sigs BY <1>4, <1>10, <2>2 DEF ReadInv, In
  <2> QED BY <2>1, <2>2
<1>16. ASSUME NEW x \in K PROVE NodeOK(x)'
  <2>1. CASE x = n BY <1>8, <1>9, <2>1 DEF NodeOK, DIRTY, CLEAN
  <2>2. CASE x # n
    <3>1. NodeOK(x) /\ x \in Reactions /\ sources'[x] = sources[x] /\ saw'[x] = saw[x]
      BY <1>4, <1>14, <2>2 DEF ColourInv
    <3>2. Disposed(x) => Disposed(x)' BY <1>9 DEF Disposed
    <3> QED BY <1>9, <1>12, <1>13, <3>1, <3>2, NodeKept
  <2> QED BY <2>1, <2>2
<1>17. ASSUME NEW i \in 1 .. Len(stack')
       PROVE  \/ i \in 1 .. l - 1 /\ i \in 1 .. Len(stack) /\ stack'[i] = stack[i]
              \/ i = l
              \/ i = l + 1 /\ m \notin Sigs
  <2>1. Len(stack') = l \/ (m \notin Sigs /\ Len(stack') = l + 1) BY <1>4
  <2>2. i \in 1 .. l - 1 \/ i = l \/ (i = l + 1 /\ m \notin Sigs) BY <1>4, <2>1
  <2>3. i \in 1 .. l - 1 => i \in 1 .. Len(stack) BY <1>2, <1>4
  <2> QED BY <1>4, <2>2, <2>3
<1>18. ASSUME n \in K PROVE RunOK(l)'
  <2>1. /\ \A k \in Readable : (Contains(sources[n], k) /\ k # Undefined) => SourceRead(n, k)
        /\ n \notin moved
        /\ n \in Computeds => ~Top.wrote /\ ComputedRun(n, Undefined)
    <3>1. RunOK(l) /\ stack[l].node = n /\ stack[l].reading = Undefined /\ stack[l].wrote = Top.wrote
      BY <1>1, <1>4, <1>8, <1>18
    <3>2. /\ \A k \in Readable : (Contains(sources[n], k) /\ k # Undefined) => SourceRead(n, k)
          /\ n \notin moved \/ Marked(n, DIRTY)
          /\ n \in Computeds => ~stack[l].wrote /\ ComputedRun(n, Undefined)
      BY <3>1 DEF RunOK
    <3> QED BY <1>12, <3>1, <3>2
  <2>2. ASSUME NEW k \in Readable, Contains(sources'[n], k), k # m PROVE SourceRead(n, k)'
    <3>1. SourceRead(n, k) BY <1>5, <1>14, <2>1, <2>2
    <3>2. saw'[n][k] = saw[n][k] BY <1>4, <2>2
    <3> QED BY <1>9, <1>12, <1>13, <3>1, <3>2 DEF SourceRead
  <2>3. ASSUME n \in Computeds PROVE ~Top.wrote /\ ComputedRun(n, m)'
    <3>1. ~Top.wrote /\ Tracked(n) /\ Reached(n, saw[n]) BY <2>1, <2>3 DEF ComputedRun
    <3>2. saw'[n] = saw[n]
      <4>1. saw \in [Reactions -> Seens] /\ saw' \in [Reactions -> Seens]
        <5>1. TypeOK'
          <6>1. Next
            <7>1. CASE tracked
              <8>1. RunRead BY <1>3, <7>1 DEF RunRead
              <8> QED BY <8>1 DEF Next
            <7>2. CASE ~tracked
              <8>1. RunPeek BY <1>3, <7>2 DEF RunPeek
              <8> QED BY <8>1 DEF Next
            <7> QED BY <7>1, <7>2
          <6> QED BY <6>1, TypeKeeps
        <5> QED BY <5>1 DEF TypeOK
      <4>2. PICK f : f = saw[n] OBVIOUS
      <4>3. PICK g : g = saw'[n] OBVIOUS
      <4>4. f \in Seens /\ g \in Seens BY <1>4, <4>1, <4>2, <4>3
      <4>5. \A k \in Readable : g[k] = f[k] BY <1>4, <1>6, <2>3, <4>2, <4>3
      <4>6. f = g BY <4>4, <4>5 DEF Seens
      <4> QED BY <4>2, <4>3, <4>6
    <3>3. Tracked(n)' BY <1>5, <3>1, <3>2 DEF Tracked
    <3>4. Reached(n, saw'[n]) BY <3>1, <3>2
    <3>5. Body(n, saw'[n], FALSE).op = "read" /\ Body(n, saw'[n], FALSE).node = m
      <4>1. Top.wrote = FALSE
        <5>1. Top.wrote \in BOOLEAN BY <1>4, <1>8, FrameKinds
        <5> QED BY <3>1, <5>1
      <4>2. NextOp(Top) = Body(n, saw[n], FALSE) BY <1>1, <4>1 DEF NextOp
      <4>3. tracked BY <1>6, <2>3
      <4>4. NextOp(Top).op = "read" BY <1>7, <4>3
      <4> QED BY <1>3, <3>2, <4>2, <4>4
    <3>6. Contains(sources'[n], m) BY <1>5, <1>6, <2>3
    <3>7. ComputedRun(n, m)' BY <3>3, <3>4, <3>5, <3>6 DEF ComputedRun
    <3> QED BY <3>1, <3>7
  <2>4. n \notin moved' BY <1>9, <2>1
  <2> QED BY <1>4, <2>2, <2>3, <2>4 DEF RunOK
<1>19. ASSUME NEW i \in 1 .. Len(stack'), stack'[i].call = "run", stack'[i].node \in K
       PROVE  RunOK(i)'
  <2>1. CASE i \in 1 .. l - 1 /\ i \in 1 .. Len(stack) /\ stack'[i] = stack[i]
    <3>1. RunOK(i) BY <1>19, <2>1 DEF ColourInv
    <3>2. PICK x : x = stack[i].node OBVIOUS
    <3>3. x # n /\ x \in Reactions BY <1>14, <1>21, <1>19, <2>1, <3>2
    <3>4. sources'[x] = sources[x] /\ saw'[x] = saw[x] BY <1>4, <1>14, <3>3
    <3> QED BY <1>9, <1>12, <1>13, <2>1, <3>1, <3>2, <3>4, RunKept
  <2>2. CASE i = l BY <1>4, <1>18, <1>19, <2>2
  <2>3. ~(i = l + 1 /\ m \notin Sigs) BY <1>4, <1>10, <1>19
  <2> QED BY <1>17, <2>1, <2>2, <2>3
<1>20. ASSUME NEW i \in 1 .. Len(stack'), stack'[i].call = "pull", stack'[i].node \in K
       PROVE  PullOK(i)'
  <2>1. CASE i \in 1 .. l - 1 /\ i \in 1 .. Len(stack) /\ stack'[i] = stack[i]
    <3>1. PullOK(i) BY <1>20, <2>1 DEF ColourInv
    <3>2. PICK x : x = stack[i].node OBVIOUS
    <3>3. i # Len(stack') BY <1>4, <2>1
    <3>4. CASE x = n
      <4>1. stack[i].done BY <1>20, <1>22, <2>1, <3>2, <3>4
      <4> QED BY <2>1, <3>3, <4>1 DEF PullOK
    <3>5. CASE x # n
      <4>1. x \in Nodes BY <1>14, <1>20, <2>1, <3>2
      <4>2. sources'[x] = sources[x] BY <1>4, <3>5, <4>1
      <4>3. ASSUME NEW k, i < Len(stack), IsPull(k, i + 1)
            PROVE  i < Len(stack') /\ IsPull(k, i + 1)'
        <5>1. i + 1 # l BY <1>4, <1>8, <4>3 DEF IsPull
        <5>2. i + 1 \in 1 .. l - 1 /\ i < Len(stack') BY <1>4, <2>1, <5>1
        <5> QED BY <1>4, <4>3, <5>2 DEF IsPull
      <4> QED BY <1>9, <2>1, <3>1, <3>2, <3>3, <4>2, <4>3, PullKept
    <3> QED BY <3>4, <3>5
  <2>2. i # l BY <1>4, <1>20
  <2>3. CASE i = l + 1 /\ m \notin Sigs
    <3>1. m # n
      <4> SUFFICES ASSUME m = n PROVE FALSE OBVIOUS
      <4>1. n \in Computeds BY <1>4, NodeKinds
      <4>2. Depth(n) \in Nat BY <4>1, NodeKinds
      <4> QED BY <1>6, <4>1, <4>2
    <3>2. m \in Nodes /\ sources'[m] = sources[m] BY <1>4, <1>14, <3>1
    <3> QED BY <1>4, <1>9, <2>3, <3>2, PullBegins
  <2> QED BY <1>17, <2>1, <2>2, <2>3
<1> QED BY <1>15, <1>16, <1>19, <1>20 DEF ColourInv

\* One more read.
LEMMA ReachedMore ==
  ASSUME NEW n \in Reactions, NEW S \in Seens, NEW m \in Readable, NEW v \in Values, S[m] = Undefined,
         Body(n, S, FALSE).op = "read", Body(n, S, FALSE).node = m, Reached(n, S)
  PROVE  Reached(n, [S EXCEPT ![m] = v])
<1> DEFINE U == [S EXCEPT ![m] = v]
<1>1. U[m] = v /\ v # Undefined /\ \A k \in Readable \ {m} : U[k] = S[k] BY NodesAssumption DEF Seens
<1> HIDE DEF U
<1> SUFFICES ASSUME NEW T \in SUBSET Seens, Unread \in T, \A s \in T : After(n, s, U) \in T
             PROVE  U \in T
  BY DEF Reached, U
<1>2. ASSUME NEW s \in T PROVE After(n, s, S) \in T
  <2>1. PICK next : next = Body(n, s, FALSE) OBVIOUS
  <2>2. CASE next.op = "read" /\ S[next.node] # Undefined
    <3>1. next.node \in Readable
      <4>1. s \in [Readable -> Values \cup {Undefined}] /\ FALSE \in BOOLEAN BY DEF Seens
      <4>2. \/ next.node \in Readable
            \/ next.op = "write" \/ next.op = "return" \/ next.op = "throw"
        BY <2>1, <4>1, BodyAssumption
      <4> QED BY <2>2, <4>2
    <3>2. U[next.node] = S[next.node] BY <1>1, <2>2, <3>1
    <3>3. After(n, s, S) = After(n, s, U) BY <2>1, <2>2, <3>2 DEF After
    <3> QED BY <3>3
  <2>3. CASE ~(next.op = "read" /\ S[next.node] # Undefined)
    <3>1. After(n, s, S) = s BY <2>1, <2>3 DEF After
    <3> QED BY <3>1
  <2> QED BY <2>2, <2>3
<1>3. S \in T BY <1>2 DEF Reached
<1>4. After(n, S, U) = U BY <1>1 DEF After, U
<1> QED BY <1>3, <1>4

\* A function is shown a value that is CLEAN.
LEMMA RunGetsColours ==
  ASSUME TypeOK, EdgesInv, StackInv, QueueInv, NEW K \in {Computeds, Reactions}, ColourInv(K), RunGets
  PROVE  ColourInv(K)'
<1>1. PICK n : n = Top.node OBVIOUS
<1>2. PICK l : l = Len(stack) OBVIOUS
<1>3. PICK m : m = Top.reading OBVIOUS
<1>4. /\ In("run") /\ ~Idle /\ Top = stack[l] /\ l \in Nat \ {0}
      /\ m \in Readable /\ n \in Reactions
      /\ Len(stack') = l /\ Top' = stack'[l]
      /\ stack' \in Seq(Frames)
      /\ stack'[l].call = "run" /\ stack'[l].node = n
      /\ stack'[l].reading = Undefined /\ stack'[l].wrote = Top.wrote
      /\ \A i \in 1 .. l - 1 : stack'[i] = stack[i]
      /\ saw'[n] = [saw[n] EXCEPT ![m] = value[m]]
      /\ saw'[n][m] = value[m]
      /\ \A k \in Readable \ {m} : saw'[n][k] = saw[n][k]
      /\ \A k \in Reactions \ {n} : saw'[k] = saw[k]
      /\ UNCHANGED <<calls, value, state, graph, pendingEffects, batchDepth, life, history>>
  BY <1>1, <1>2, <1>3, RunGetsIs
<1>5. /\ Top.call = "run" /\ l \in 1 .. Len(stack) /\ state[n] = DIRTY /\ ~In("mark")
      /\ \A i \in 1 .. l - 1 :
              /\ stack[i].call = "run" => stack[i].node # n
              /\ (stack[i].call = "pull" /\ stack[i].node = n) => stack[i].done /\ i = l - 1
      /\ n \in K => RunOK(l)
  BY <1>1, <1>2, <1>4, RunTop DEF In
<1>6. moved' = moved /\ value' = value /\ state' = state /\ life' = life /\ sources' = sources
  BY <1>4 DEF history, graph
<1>7. ~In("mark")' BY <1>4 DEF In
<1>8. \A x, c : ~Marked(x, c) /\ ~Marked(x, c)' BY <1>5, <1>7, NoMarks
<1>9. \A x : ~MaybeMarked(x) /\ ~MaybeMarked(x)' BY <1>8 DEF MaybeMarked
<1>10. K \subseteq Reactions /\ Reactions \subseteq Nodes /\ Readable \subseteq Nodes /\ Undefined \notin Readable
       /\ Computeds \subseteq K /\ Readable = Sigs \cup Computeds
  BY NodeKinds
\* What it gets.
<1>11. value[m] \in Values /\ state[m] = CLEAN
  <2>1. state[m] = CLEAN BY <1>3, <1>4, <1>10 DEF ColourInv, ReadInv
  <2>2. CASE m \in Sigs BY <2>1, <2>2 DEF TypeOK
  <2>3. CASE m \in Computeds
    <3>1. NodeOK(m) BY <1>10, <2>3 DEF ColourInv
    <3>2. Ran(m) BY <2>1, <3>1 DEF NodeOK, CLEAN, DIRTY
    <3> QED BY <2>1, <2>3, <3>2 DEF Ran
  <2> QED BY <1>4, <1>10, <2>2, <2>3
<1>12. ASSUME NEW x \in K PROVE NodeOK(x)'
  <2>1. CASE x = n BY <1>5, <1>6, <2>1 DEF NodeOK, DIRTY, CLEAN
  <2>2. CASE x # n
    <3>1. NodeOK(x) /\ x \in Reactions /\ saw'[x] = saw[x] BY <1>4, <1>10, <2>2 DEF ColourInv
    <3>2. Disposed(x) => Disposed(x)' BY <1>6 DEF Disposed
    <3> QED BY <1>6, <1>8, <1>9, <3>1, <3>2, NodeKept
  <2> QED BY <2>1, <2>2
<1>13. ASSUME NEW i \in 1 .. Len(stack')
       PROVE  i \in 1 .. Len(stack) /\ (i = l \/ (i \in 1 .. l - 1 /\ stack'[i] = stack[i]))
  <2>1. i = l \/ i \in 1 .. l - 1 BY <1>4
  <2>2. i \in 1 .. Len(stack) BY <1>2, <1>4
  <2> QED BY <1>4, <2>1, <2>2
<1>14. ASSUME n \in K PROVE RunOK(l)'
  <2>1. /\ \A k \in Readable : (Contains(sources[n], k) /\ k # m) => SourceRead(n, k)
        /\ saw[n][m] = Undefined
        /\ n \notin moved
        /\ n \in Computeds => ~Top.wrote /\ ComputedRun(n, m)
    <3>1. RunOK(l) /\ stack[l].node = n /\ stack[l].reading = m /\ stack[l].wrote = Top.wrote
          /\ m # Undefined
      BY <1>1, <1>3, <1>4, <1>5, <1>10, <1>14
    <3>2. /\ \A k \in Readable : (Contains(sources[n], k) /\ k # m) => SourceRead(n, k)
          /\ m # Undefined => saw[n][m] = Undefined
          /\ n \notin moved \/ Marked(n, DIRTY)
          /\ n \in Computeds => ~stack[l].wrote /\ ComputedRun(n, m)
      BY <3>1 DEF RunOK
    <3> QED BY <1>8, <3>1, <3>2
  <2>2. ASSUME NEW k \in Readable, Contains(sources'[n], k) PROVE SourceRead(n, k)'
    <3>1. CASE k = m
      <4>1. value[m] # Undefined BY <1>11, NodesAssumption
      <4> QED BY <1>4, <1>6, <1>11, <3>1, <4>1 DEF SourceRead
    <3>2. CASE k # m
      <4>1. SourceRead(n, k) BY <1>6, <2>1, <2>2, <3>2
      <4>2. saw'[n][k] = saw[n][k] BY <1>4, <3>2
      <4> QED BY <1>6, <1>8, <1>9, <4>1, <4>2 DEF SourceRead
    <3> QED BY <3>1, <3>2
  <2>3. ASSUME n \in Computeds PROVE ~Top.wrote /\ ComputedRun(n, Undefined)'
    <3>1. /\ ~Top.wrote /\ Tracked(n) /\ Reached(n, saw[n])
          /\ Body(n, saw[n], FALSE).op = "read" /\ Body(n, saw[n], FALSE).node = m
          /\ Contains(sources[n], m)
      BY <1>4, <1>10, <2>1, <2>3 DEF ComputedRun
    <3>2. PICK S : S = saw[n] OBVIOUS
    <3>3. S \in Seens BY <1>4, <3>2 DEF TypeOK
    <3>4. PICK v : v = value[m] OBVIOUS
    <3>5. Reached(n, [S EXCEPT ![m] = v])
      <4>1. v \in Values /\ S[m] = Undefined /\ Reached(n, S)
            /\ Body(n, S, FALSE).op = "read" /\ Body(n, S, FALSE).node = m
        BY <1>11, <2>1, <3>1, <3>2, <3>4
      <4> QED BY <1>4, <3>3, <4>1, ReachedMore
    <3>6. saw'[n] = [S EXCEPT ![m] = v] BY <1>4, <3>2, <3>4
    <3>7. Tracked(n)'
      <4>1. ASSUME NEW k \in Readable, saw'[n][k] # Undefined PROVE Contains(sources[n], k)
        <5>1. CASE k = m BY <3>1, <5>1
        <5>2. CASE k # m
          <6>1. saw[n][k] # Undefined BY <1>4, <4>1, <5>2
          <6> QED BY <3>1, <6>1 DEF Tracked
        <5> QED BY <5>1, <5>2
      <4> QED BY <1>6, <4>1 DEF Tracked
    <3> QED BY <3>1, <3>5, <3>6, <3>7 DEF ComputedRun
  <2>4. n \notin moved' BY <1>6, <2>1
  <2> QED BY <1>4, <2>2, <2>3, <2>4 DEF RunOK
<1>15. ASSUME NEW i \in 1 .. Len(stack'), stack'[i].call = "run", stack'[i].node \in K
       PROVE  RunOK(i)'
  <2>1. CASE i \in 1 .. l - 1 /\ i \in 1 .. Len(stack) /\ stack'[i] = stack[i]
    <3>1. RunOK(i) BY <1>15, <2>1 DEF ColourInv
    <3>2. PICK x : x = stack[i].node OBVIOUS
    <3>3. x # n /\ x \in Reactions BY <1>5, <1>10, <1>15, <2>1, <3>2
    <3>4. saw'[x] = saw[x] BY <1>4, <3>3
    <3> QED BY <1>6, <1>8, <1>9, <2>1, <3>1, <3>2, <3>4, RunKept
  <2>2. CASE i = l BY <1>4, <1>14, <1>15, <2>2
  <2> QED BY <1>13, <2>1, <2>2
<1>16. ASSUME NEW i \in 1 .. Len(stack'), stack'[i].call = "pull", stack'[i].node \in K
       PROVE  PullOK(i)'
  <2>1. i # l BY <1>4, <1>16
  <2>2. i \in 1 .. l - 1 /\ i \in 1 .. Len(stack) /\ stack'[i] = stack[i] BY <1>13, <2>1
  <2>3. PullOK(i) BY <1>16, <2>2 DEF ColourInv
  <2>4. i # Len(stack') BY <1>4, <2>1
  <2>5. ASSUME NEW k, i < Len(stack), IsPull(k, i + 1) PROVE i < Len(stack') /\ IsPull(k, i + 1)'
    <3>1. i + 1 # l BY <1>4, <1>5, <2>5 DEF IsPull
    <3>2. i + 1 \in 1 .. l - 1 /\ i < Len(stack') BY <1>4, <2>2, <3>1
    <3> QED BY <1>4, <2>5, <3>2 DEF IsPull
  <2> QED BY <1>6, <2>2, <2>3, <2>4, <2>5, PullKept
<1>17. ReadInv' BY <1>4 DEF ReadInv
<1> QED BY <1>12, <1>15, <1>16, <1>17 DEF ColourInv

\* The function returns: the call that updates its node has all it needs.
LEMMA RunReturnColours ==
  ASSUME TypeOK, EdgesInv, StackInv, QueueInv, NEW K \in {Computeds, Reactions}, ColourInv(K), RunReturn
  PROVE  ColourInv(K)'
<1>1. PICK n : n = Top.node OBVIOUS
<1>2. PICK l : l = Len(stack) OBVIOUS
<1>3. PICK v : v = NextOp(Top).to OBVIOUS
<1>4. /\ In("run") /\ ~Idle /\ Top = stack[l] /\ l \in Nat \ {0}
      /\ Top \in Frames /\ Top.reading = Undefined /\ n \in Reactions
      /\ NextOp(Top).op = "return" /\ (n \in Computeds => v \in Values)
      /\ stack' \in Seq(Frames) /\ Len(stack') = l - 1
      /\ \A i \in 1 .. l - 1 : stack'[i] = stack[i]
      /\ ~Idle' => l > 1 /\ Top' = stack[l - 1]
      /\ n \in Computeds => value'[n] = v
      /\ \A k \in Nodes \ {n} : value'[k] = value[k]
      /\ \/ UNCHANGED <<value, state, moved>>
         \/ /\ n \in Computeds
            /\ \A k \in Nodes : Contains(observers[n], k) => state'[k] = DIRTY
            /\ \A k \in Nodes : ~Contains(observers[n], k) => state'[k] = state[k]
            /\ moved' = moved \cup ReadersOf(n)
      /\ UNCHANGED <<calls, graph, pendingEffects, batchDepth, life, saw, lost>>
  BY <1>1, <1>2, <1>3, RunReturnIs
<1>5. /\ Top.call = "run" /\ l \in 1 .. Len(stack) /\ state[n] = DIRTY /\ ~In("mark")
      /\ \A i \in 1 .. l - 1 :
              /\ stack[i].call = "run" => stack[i].node # n
              /\ (stack[i].call = "pull" /\ stack[i].node = n) => stack[i].done /\ i = l - 1
      /\ n \in K => RunOK(l)
  BY <1>1, <1>2, <1>4, RunTop DEF In
<1>6. /\ l - 1 \in 1 .. Len(stack) /\ l - 1 \in 1 .. l - 1 /\ stack[l - 1].call = "pull"
      /\ stack[l - 1].done /\ stack[l - 1].node = n
  BY <1>1, <1>2, <1>4, <1>5, RunUnder
<1>7. sources' = sources /\ observers' = observers /\ saw' = saw /\ life' = life BY <1>4 DEF graph
<1>8. ~In("mark")' /\ ReadInv' BY <1>4, <1>6 DEF In, ReadInv
<1>9. \A x, c : ~Marked(x, c) /\ ~Marked(x, c)' BY <1>5, <1>8, NoMarks
<1>10. \A x : ~MaybeMarked(x) /\ ~MaybeMarked(x)' BY <1>9 DEF MaybeMarked
<1>11. /\ K \subseteq Reactions /\ Reactions \subseteq Nodes /\ Readable \subseteq Nodes
       /\ Undefined \notin Readable /\ Computeds \subseteq K /\ Reactions \cap Readable = Computeds
       /\ Computeds \subseteq Reactions /\ Computeds \subseteq Readable
  BY NodeKinds
<1>12. ASSUME NEW k \in Reactions PROVE Contains(observers[n], k) <=> Contains(sources[k], n)
  BY <1>4, <1>11 DEF EdgesInv
<1>13. \A k \in Nodes : state'[k] = state[k] \/ state'[k] = DIRTY BY <1>4
\* Who observes n has it among its sources, and is not CLEAN while n is DIRTY.
<1>14. ASSUME NEW k \in Readable, state[k] = CLEAN PROVE state'[k] = CLEAN
  <2>1. CASE UNCHANGED <<value, state, moved>> BY <1>14, <2>1
  <2>2. CASE ~Contains(observers[n], k) BY <1>4, <1>11, <1>14, <2>2
  <2>3. CASE Contains(observers[n], k) /\ n \in Computeds
    <3>1. observers[n] \in Seq(Reactions) BY <1>4, <1>11 DEF TypeOK
    <3>2. k \in Reactions
      <4>1. PICK s : s = observers[n] OBVIOUS
      <4>2. s \in Seq(Reactions) /\ Contains(s, k) BY <2>3, <3>1, <4>1
      <4>3. PICK j \in 1 .. Len(s) : s[j] = k BY <4>2 DEF Contains
      <4> QED BY <4>2, <4>3, ElementOfSeq
    <3>3. NodeOK(k) BY <1>11, <3>2 DEF ColourInv
    <3>4. SourcesClean(k) BY <1>10, <1>14, <3>3 DEF NodeOK
    <3>5. state[n] = CLEAN BY <1>11, <1>12, <2>3, <3>2, <3>4 DEF SourcesClean
    <3> QED BY <1>5, <3>5 DEF CLEAN, DIRTY
  <2> QED BY <1>4, <2>1, <2>2, <2>3
<1>15. ASSUME NEW k \in Reactions, state'[k] # DIRTY
       PROVE  /\ state'[k] = state[k]
              /\ k \in moved' => k \in moved
              /\ \A m \in Readable : Contains(sources[k], m) => value'[m] = value[m]
  <2>1. CASE UNCHANGED <<value, state, moved>> BY <1>15, <2>1
  <2>2. CASE /\ n \in Computeds
             /\ \A x \in Nodes : Contains(observers[n], x) => state'[x] = DIRTY
             /\ moved' = moved \cup ReadersOf(n)
    <3>1. ~Contains(sources[k], n) BY <1>11, <1>12, <1>15, <2>2
    <3>2. k \notin ReadersOf(n) BY <3>1 DEF ReadersOf
    <3>3. \A m \in Readable : Contains(sources[k], m) => m # n BY <3>1
    <3> QED BY <1>4, <1>11, <1>13, <1>15, <2>2, <3>2, <3>3
  <2> QED BY <1>4, <2>1, <2>2
<1>16. ASSUME NEW x \in K PROVE NodeOK(x)'
  <2>1. CASE x = n
    <3>1. state'[n] = DIRTY BY <1>4, <1>5, <1>11, <1>13
    <3> QED BY <2>1, <3>1 DEF NodeOK, DIRTY, CLEAN
  <2>2. CASE x # n
    <3>1. NodeOK(x) /\ x \in Reactions /\ x \in Nodes BY <1>11 DEF ColourInv
    <3>2. value'[x] = value[x] /\ (state'[x] = state[x] \/ state'[x] = DIRTY) BY <1>4, <1>13, <2>2, <3>1
    <3>3. Disposed(x) => Disposed(x)' BY <1>7 DEF Disposed
    <3>4. state'[x] # DIRTY => /\ x \in moved' => x \in moved
                               /\ \A m \in Readable : Contains(sources[x], m) => value'[m] = value[m]
      BY <1>15, <3>1
    <3> QED BY <1>7, <1>9, <1>10, <1>14, <3>1, <3>2, <3>3, <3>4, NodeKept
  <2> QED BY <2>1, <2>2
<1>17. ASSUME NEW i \in 1 .. Len(stack')
       PROVE  i \in 1 .. l - 1 /\ i \in 1 .. Len(stack) /\ stack'[i] = stack[i]
  <2>1. i \in 1 .. l - 1 BY <1>4
  <2>2. i \in 1 .. Len(stack) BY <1>2, <1>4, <2>1
  <2> QED BY <1>4, <2>1, <2>2
<1>18. ASSUME NEW i \in 1 .. Len(stack'), stack'[i].call = "run", stack'[i].node \in K
       PROVE  RunOK(i)'
  <2>1. i \in 1 .. l - 1 /\ i \in 1 .. Len(stack) /\ stack'[i] = stack[i] BY <1>17
  <2>2. RunOK(i) BY <1>18, <2>1 DEF ColourInv
  <2>3. PICK x : x = stack[i].node OBVIOUS
  <2>4. PICK m : m = stack[i].reading OBVIOUS
  <2>5. x # n /\ x \in Reactions BY <1>5, <1>11, <1>18, <2>1, <2>3
  <2>6. /\ \A k \in Readable : (Contains(sources[x], k) /\ k # m) => SourceRead(x, k)
        /\ m # Undefined => saw[x][m] = Undefined
    BY <2>2, <2>3, <2>4 DEF RunOK
  <2>7. n \in Readable /\ Contains(sources[x], n) => n = m
    <3> SUFFICES ASSUME n \in Readable, Contains(sources[x], n), n # m PROVE FALSE OBVIOUS
    <3>1. SourceRead(x, n) BY <2>6
    <3> QED BY <1>5, <1>10, <3>1 DEF SourceRead, CLEAN, DIRTY
  <2>8. x \in moved' => x \in moved
    <3>1. CASE UNCHANGED moved BY <3>1
    <3>2. CASE n \in Computeds /\ moved' = moved \cup ReadersOf(n)
      <4>1. n \in Readable /\ n # Undefined BY <1>11, <3>2
      <4>2. x \notin ReadersOf(n) BY <2>6, <2>7, <4>1 DEF ReadersOf
      <4> QED BY <3>2, <4>2
    <3> QED BY <1>4, <3>1, <3>2
  <2>9. \A k \in Readable : (Contains(sources[x], k) /\ k # m) => value'[k] = value[k]
    BY <1>4, <1>11, <2>7
  <2> QED BY <1>7, <1>9, <1>10, <1>14, <2>1, <2>2, <2>3, <2>4, <2>8, <2>9, RunKept
<1>19. ASSUME n \in K PROVE PullOK(l - 1)'
  <2>1. /\ \A k \in Readable : Contains(sources[n], k) => SourceRead(n, k)
        /\ n \notin moved
        /\ n \in Computeds => ~Top.wrote /\ Tracked(n) /\ Reached(n, saw[n])
    <3>1. RunOK(l) /\ stack[l].node = n /\ stack[l].reading = Undefined /\ stack[l].wrote = Top.wrote
      BY <1>1, <1>4, <1>5, <1>19
    <3>2. /\ \A k \in Readable : (Contains(sources[n], k) /\ k # Undefined) => SourceRead(n, k)
          /\ n \notin moved \/ Marked(n, DIRTY)
          /\ n \in Computeds => ~stack[l].wrote /\ ComputedRun(n, Undefined)
      BY <3>1 DEF RunOK
    <3> QED BY <1>9, <1>11, <3>1, <3>2 DEF ComputedRun
  <2>2. n \in Readable => ~Contains(sources[n], n)
    <3> SUFFICES ASSUME n \in Readable, Contains(sources[n], n) PROVE FALSE OBVIOUS
    <3>1. n \in Computeds BY <1>4, <1>11
    <3>2. Depth(n) \in Nat BY <3>1, NodeKinds
    <3>3. Depth(n) < Depth(n) BY <3>1 DEF EdgesInv
    <3> QED BY <3>2, <3>3
  <2>3. \A k \in Readable : Contains(sources[n], k) => value'[k] = value[k] BY <1>4, <1>11, <2>2
  <2>4. Agrees(n)' BY <1>7, <1>9, <2>1, <2>3 DEF Agrees, SourceRead
  <2>5. SourcesClean(n)' BY <1>7, <1>10, <1>14, <2>1 DEF SourcesClean, SourceRead
  <2>6. n \notin moved'
    <3>1. n \in Computeds => n \notin ReadersOf(n) BY <1>11, <2>2 DEF ReadersOf
    <3> QED BY <1>4, <2>1, <3>1
  <2>7. Ran(n)'
    <3> SUFFICES ASSUME n \in Computeds
                 PROVE  /\ value'[n] \in Values
                        /\ Body(n, saw'[n], FALSE).op = "return" /\ Body(n, saw'[n], FALSE).to = value'[n]
                        /\ Tracked(n)' /\ Reached(n, saw'[n])
      BY DEF Ran
    <3>1. Top.wrote = FALSE
      <4>1. Top.wrote \in BOOLEAN BY <1>4, <1>5, FrameKinds
      <4> QED BY <2>1, <4>1
    <3>2. NextOp(Top) = Body(n, saw[n], FALSE) BY <1>1, <3>1 DEF NextOp
    <3>3. Tracked(n)' BY <1>7, <2>1 DEF Tracked
    <3> QED BY <1>3, <1>4, <1>7, <2>1, <3>2, <3>3
  <2>8. PICK i : i = l - 1 OBVIOUS
  <2>9. stack'[i].node = n /\ stack'[i].done BY <1>4, <1>6, <2>8
  <2> QED BY <2>4, <2>5, <2>6, <2>7, <2>8, <2>9 DEF PullOK
<1>20. ASSUME NEW i \in 1 .. Len(stack'), stack'[i].call = "pull", stack'[i].node \in K
       PROVE  PullOK(i)'
  <2>1. i \in 1 .. l - 1 /\ i \in 1 .. Len(stack) /\ stack'[i] = stack[i] BY <1>17
  <2>2. PullOK(i) BY <1>20, <2>1 DEF ColourInv
  <2>3. PICK x : x = stack[i].node OBVIOUS
  <2>4. CASE x = n
    <3>1. i = l - 1 BY <1>5, <1>20, <2>1, <2>3, <2>4
    <3> QED BY <1>19, <1>20, <2>1, <2>3, <2>4, <3>1
  <2>5. CASE x # n
    <3>1. i # l - 1 BY <1>6, <2>3, <2>5
    <3>2. x \in Reactions BY <1>11, <1>20, <2>1, <2>3
    <3>3. state'[x] = CHECK => state[x] = CHECK BY <1>15, <3>2 DEF CHECK, DIRTY
    <3>4. ASSUME NEW k, i < Len(stack), IsPull(k, i + 1) PROVE i < Len(stack') /\ IsPull(k, i + 1)'
      <4>1. i + 1 # l BY <1>4, <1>5, <3>4 DEF IsPull
      <4>2. i + 1 \in 1 .. l - 1 /\ i < Len(stack') BY <1>4, <2>1, <3>1, <4>1
      <4> QED BY <1>4, <3>4, <4>2 DEF IsPull
    <3> QED BY <1>4, <1>7, <1>14, <2>1, <2>2, <2>3, <3>1, <3>3, <3>4, PullKept
  <2> QED BY <2>4, <2>5
<1> QED BY <1>8, <1>16, <1>18, <1>20 DEF ColourInv

\* It throws: every node that was being updated stays DIRTY.
LEMMA RunThrowColours ==
  ASSUME TypeOK, EdgesInv, StackInv, QueueInv, NEW K \in {Computeds, Reactions}, ColourInv(K), RunThrow
  PROVE  ColourInv(K)'
<1>1. PICK ran : ran = {stack[i].node : i \in {j \in DOMAIN stack : stack[j].call = "run"}} OBVIOUS
<1>2. /\ Running("throw") /\ stack' = <<>> /\ moved' = moved \cup ran
      /\ UNCHANGED <<calls, value, state, graph, pendingEffects, batchDepth, life, saw>>
  BY <1>1 DEF RunThrow
<1>3. ASSUME NEW n \in ran PROVE state[n] = DIRTY
  <2>1. PICK i \in DOMAIN stack : stack[i].call = "run" /\ stack[i].node = n BY <1>1
  <2>2. i \in 1 .. Len(stack)
    <3>1. PICK s : s = stack OBVIOUS
    <3>2. s \in Seq(Frames) BY <3>1 DEF TypeOK
    <3>3. DOMAIN s = 1 .. Len(s) BY <3>2, LenProperties
    <3> QED BY <3>1, <3>3
  <2> QED BY <2>1, <2>2, RunUnder
<1>4. stack' \in Seq(Frames) /\ Len(stack') = 0 /\ Idle' BY <1>2, EmptySeq DEF Idle
<1>5. In("run") /\ ~In("mark") /\ ~In("mark")' /\ ReadInv' BY <1>2, <1>4 DEF Running, In, ReadInv
<1>6. \A x, c : ~Marked(x, c) /\ ~Marked(x, c)' BY <1>5, NoMarks
<1>7. \A x : ~MaybeMarked(x) /\ ~MaybeMarked(x)' BY <1>6 DEF MaybeMarked
<1>8. sources' = sources /\ saw' = saw /\ life' = life /\ value' = value /\ state' = state
  BY <1>2 DEF graph
<1>9. ASSUME NEW n \in K PROVE NodeOK(n)'
  <2>1. NodeOK(n) /\ n \in Reactions BY NodeKinds DEF ColourInv
  <2>2. CASE n \in ran
    <3>1. state'[n] = DIRTY BY <1>3, <1>8, <2>2
    <3> QED BY <3>1 DEF NodeOK, DIRTY, CLEAN
  <2>3. CASE n \notin ran
    <3>1. Disposed(n) => Disposed(n)' BY <1>8 DEF Disposed
    <3>2. n \in moved' => n \in moved BY <1>2, <2>3
    <3> QED BY <1>6, <1>7, <1>8, <2>1, <3>1, <3>2, NodeKept
  <2> QED BY <2>2, <2>3
<1>10. \A i \in 1 .. Len(stack') : FALSE BY <1>4
<1> QED BY <1>5, <1>9, <1>10 DEF ColourInv

\* No function is marked by what it did while it runs.
NoneMarkedRunning ==
  (In("mark") /\ Top.left # <<>>) =>
    \A i \in 1 .. Len(stack) : stack[i].call = "run" => stack[i].node # Head(Top.left)[1]

\* Every step keeps what the colours claim, of computeds and, when no function is marked by
\* what it did, of effects.
LEMMA ColourKeeps ==
  ASSUME TypeOK, EdgesInv, StackInv, QueueInv, NEW K \in {Computeds, Reactions},
         K = Reactions => NoneMarkedRunning, ColourInv(K), Next
  PROVE  ColourInv(K)'
<1>1. ASSUME NEW s \in Sigs, NEW v \in Domain(s), Set(s, v) PROVE ColourInv(K)'
  BY <1>1, SetColours
<1>2. ASSUME NEW n \in Computeds, Read(n) PROVE ColourInv(K)'
  <2>1. n \in Nodes BY NodeKinds
  <2>2. UNCHANGED <<value, state, graph, saw, moved>> /\ stack' = <<Pull(n)>> /\ Idle /\ life' = life
    BY <1>2 DEF Read, Called, history
  <2> QED BY <2>1, <2>2, ReadColours
<1>3. ASSUME NEW e \in Effects, CreateEffect(e) PROVE ColourInv(K)'
  <2>1. /\ Idle /\ life[e] = "none" /\ life' = [life EXCEPT ![e] = "live"]
        /\ UNCHANGED <<value, state, graph, saw, moved>>
        /\ stack' = stack \/ stack' = <<Pull(e)>>
    BY <1>3 DEF CreateEffect, Called, history
  <2>2. \A x \in Effects : life'[x] # life[x] => state[x] = DIRTY
    BY <2>1 DEF QueueInv, LifeInv, TypeOK
  <2>3. e \in Nodes BY NodeKinds
  <2>4. CASE stack' = stack BY <2>1, <2>2, <2>4, SameColours
  <2>5. CASE stack' = <<Pull(e)>> BY <2>1, <2>2, <2>3, <2>5, ReadColours
  <2> QED BY <2>1, <2>4, <2>5
<1>4. ASSUME NEW e \in Effects, Dispose(e) PROVE ColourInv(K)' BY <1>4, DisposeColours
<1>5. CASE BatchBegin
  <2>1. UNCHANGED <<value, state, graph, saw, moved, stack>> /\ life' = life
    BY <1>5 DEF BatchBegin, history
  <2> QED BY <2>1, SameColours
<1>6. CASE BatchEnd BY <1>6, BatchEndColours
<1>7. CASE MarkStale
  <2>1. ASSUME NEW i \in 1 .. Len(stack), stack[i].call = "run", stack[i].node \in K
        PROVE  stack[i].node # Head(Top.left)[1]
    <3>1. In("mark") /\ Top.left # <<>> BY <1>7 DEF MarkStale
    <3>2. CASE K = Reactions BY <2>1, <3>1, <3>2 DEF NoneMarkedRunning
    <3>3. CASE K = Computeds
      <4>1. Pure(stack[i]) BY <2>1, <3>3, NodeKinds DEF Pure
      <4>2. ~Idle /\ ~Pure(Top) BY <3>1 DEF In, Pure
      <4> QED BY <4>1, <4>2, NothingPure
    <3> QED BY <3>2, <3>3
  <2> QED BY <1>7, <2>1, MarkStaleColours
<1>8. CASE MarkDone \/ FlushDone BY <1>8, DoneColours
<1>9. CASE FlushTake \/ FlushNext BY <1>9, FlushColours
<1>10. CASE PullSource BY <1>10, PullSourceColours
<1>11. CASE PullUpdate BY <1>11, PullUpdateColours
<1>12. CASE PullDone BY <1>12, PullDoneColours
<1>13. CASE RunRead
  <2>1. Running(IF TRUE THEN "read" ELSE "peek") /\ Reads(NextOp(Top).node, TRUE) BY <1>13 DEF RunRead
  <2> QED BY <2>1, ReadsColours
<1>14. CASE RunPeek
  <2>1. Running(IF FALSE THEN "read" ELSE "peek") /\ Reads(NextOp(Top).node, FALSE) BY <1>14 DEF RunPeek
  <2> QED BY <2>1, ReadsColours
<1>15. CASE RunGets BY <1>15, RunGetsColours
<1>16. CASE RunWrite BY <1>16, RunWriteColours
<1>17. CASE RunReturn BY <1>17, RunReturnColours
<1>18. CASE RunThrow BY <1>18, RunThrowColours
<1> QED BY <1>1, <1>2, <1>3, <1>4, <1>5, <1>6, <1>7, <1>8, <1>9, <1>10, <1>11, <1>12, <1>13,
           <1>14, <1>15, <1>16, <1>17, <1>18 DEF Next, UserStep

-----------------------------------------------------------------------------
(* Why a function runs again.                                              *)

Reading(n, m) ==
  \E i \in 1 .. Len(stack) : stack[i].call = "run" /\ stack[i].node = n /\ stack[i].reading = m

\* A node has seen its sources, unless it is to run again, or is at it.
SeenInv ==
  \A n \in Reactions, m \in Readable : Contains(sources[n], m) =>
    saw[n][m] # Undefined \/ (state[n] = DIRTY /\ (~Updating(n) \/ Reading(n, m)))

\* A node is DIRTY because a source changed, or because it never ran to its end.
MovedInv ==
  \A n \in Reactions : (state[n] = DIRTY \/ Marked(n, DIRTY)) => n \in moved \/ Updating(n)

\* Whatever the innermost call does, the calls on other nodes than x go on.
LEMMA TopMoves ==
  ASSUME TypeOK, ~Idle, stack' \in Seq(Frames), NEW l, l = Len(stack), Len(stack') >= l - 1, NEW x,
         \A i \in 1 .. l - 1 : stack'[i] = stack[i],
         \A i \in 1 .. Len(stack') :
           i >= l => stack'[i].call # "pull" \/ ~stack'[i].done \/ stack'[i].node = x,
         Top.call # "pull" \/ ~Top.done \/ Top.node = x,
         Top.call # "run" \/ Top.reading = Undefined \/ Top.node = x
  PROVE  \A n \in Reactions \ {x} :
           /\ Updating(n)' <=> Updating(n)
           /\ \A m \in Readable : Reading(n, m) => Reading(n, m)'
<1> SUFFICES ASSUME NEW n \in Reactions, n # x
             PROVE  /\ Updating(n)' <=> Updating(n)
                    /\ \A m \in Readable : Reading(n, m) => Reading(n, m)'
  OBVIOUS
<1>1. Top = stack[l] /\ l \in Nat \ {0} BY TopFacts
<1>2. Len(stack') \in Nat BY NewIndexFacts
<1>3. ASSUME Updating(n) PROVE Updating(n)'
  <2>1. PICK i \in 1 .. Len(stack) : IsPull(n, i) /\ stack[i].done BY <1>3 DEF Updating
  <2>2. i # l BY <1>1, <2>1 DEF IsPull
  <2>3. i \in 1 .. l - 1 /\ i \in 1 .. Len(stack') BY <1>1, <1>2, <2>2
  <2> QED BY <2>1, <2>3 DEF Updating, IsPull
<1>4. ASSUME Updating(n)' PROVE Updating(n)
  <2>1. PICK i \in 1 .. Len(stack') : stack'[i].call = "pull" /\ stack'[i].node = n /\ stack'[i].done
    BY <1>4 DEF Updating, IsPull
  <2>2. ~(i >= l) BY <2>1
  <2>3. i \in 1 .. l - 1 /\ i \in 1 .. Len(stack) BY <1>1, <1>2, <2>2
  <2> QED BY <2>1, <2>3 DEF Updating, IsPull
<1>5. ASSUME NEW m \in Readable, Reading(n, m) PROVE Reading(n, m)'
  <2>1. PICK i \in 1 .. Len(stack) :
          stack[i].call = "run" /\ stack[i].node = n /\ stack[i].reading = m
    BY <1>5 DEF Reading
  <2>2. m # Undefined BY NodeKinds
  <2>3. i # l BY <1>1, <2>1, <2>2
  <2>4. i \in 1 .. l - 1 /\ i \in 1 .. Len(stack') BY <1>1, <1>2, <2>3
  <2> QED BY <2>1, <2>4 DEF Reading
<1> QED BY <1>3, <1>4, <1>5

\* What a node has seen survives a step that leaves it alone.
LEMMA SeenKept ==
  ASSUME NEW n \in Reactions, SeenInv,
         sources'[n] = sources[n], saw'[n] = saw[n], state[n] = DIRTY => state'[n] = DIRTY,
         Updating(n)' => Updating(n), \A m \in Readable : Reading(n, m) => Reading(n, m)' \/ ~Updating(n)'
  PROVE  \A m \in Readable : Contains(sources'[n], m) =>
           saw'[n][m] # Undefined \/ (state'[n] = DIRTY /\ (~Updating(n)' \/ Reading(n, m)'))
BY DEF SeenInv

\* Why a node is DIRTY survives a step that leaves it alone.
LEMMA MovedKept ==
  ASSUME NEW n \in Reactions, MovedInv,
         state'[n] = DIRTY => state[n] = DIRTY \/ Marked(n, DIRTY) \/ n \in moved',
         Marked(n, DIRTY)' => Marked(n, DIRTY) \/ state[n] = DIRTY \/ n \in moved',
         n \in moved => n \in moved', Updating(n) => Updating(n)' \/ n \in moved'
  PROVE  (state'[n] = DIRTY \/ Marked(n, DIRTY)') => n \in moved' \/ Updating(n)'
BY DEF MovedInv

\* Both, when nothing moves for any node.
LEMMA BothKept ==
  ASSUME SeenInv, MovedInv, sources' = sources, saw' = saw, moved \subseteq moved',
         \A n \in Reactions :
           /\ state[n] = DIRTY => state'[n] = DIRTY
           /\ state'[n] = DIRTY => state[n] = DIRTY \/ Marked(n, DIRTY) \/ n \in moved'
           /\ Marked(n, DIRTY)' => Marked(n, DIRTY) \/ state[n] = DIRTY \/ n \in moved'
           /\ Updating(n)' <=> Updating(n)
           /\ \A m \in Readable : Reading(n, m) => Reading(n, m)'
  PROVE  SeenInv' /\ MovedInv'
<1>1. ASSUME NEW n \in Reactions
      PROVE  \A m \in Readable : Contains(sources'[n], m) =>
               saw'[n][m] # Undefined \/ (state'[n] = DIRTY /\ (~Updating(n)' \/ Reading(n, m)'))
  BY SeenKept
<1>2. ASSUME NEW n \in Reactions
      PROVE  (state'[n] = DIRTY \/ Marked(n, DIRTY)') => n \in moved' \/ Updating(n)'
  BY MovedKept
<1> QED BY <1>1, <1>2 DEF SeenInv, MovedInv

\* An observer of m that has not read it is DIRTY.
LEMMA ObserverMoved ==
  ASSUME TypeOK, EdgesInv, SeenInv, NEW m \in Readable, NEW n \in Reactions, Contains(observers[m], n)
  PROVE  n \in ReadersOf(m) \/ state[n] = DIRTY
<1>1. Contains(sources[n], m) BY NodeKinds DEF EdgesInv
<1> QED BY <1>1 DEF SeenInv, ReadersOf

\* The calls of the user.
LEMMA UserSeen ==
  ASSUME TypeOK, EdgesInv, SeenInv, MovedInv, Idle, UserStep
  PROVE  SeenInv' /\ MovedInv'
<1>1. Len(stack) = 0 /\ ~In("mark") BY IndexFacts DEF In
<1>2. \A n, c : ~Marked(n, c) BY <1>1, NoMarks
<1>3. \A n : ~Updating(n) /\ \A m : ~Reading(n, m) BY <1>1 DEF Updating, Reading
<1>4. ASSUME NEW s \in Sigs, NEW v \in Domain(s), Set(s, v) PROVE SeenInv' /\ MovedInv'
  <2>1. /\ stack' \in Seq(Frames)
        /\ batchDepth = 0 => Len(stack') = 2 /\ Top' = stack'[2] /\ stack'[1] = Flush
        /\ batchDepth # 0 => Len(stack') = 1 /\ Top' = stack'[1]
        /\ Top'.call = "mark"
        /\ \A n, c : Contains(Top'.left, <<n, c>>) <=> Contains(observers[s], n) /\ c = DIRTY
        /\ moved' = moved \cup ReadersOf(s)
        /\ UNCHANGED <<state, graph, pendingEffects, batchDepth, life, saw, lost>>
    BY <1>4, SetIs
  <2>2. Flush.call = "flush" BY DEF Flush
  <2>3. ASSUME NEW i \in 1 .. Len(stack') PROVE stack'[i].call # "pull"
    <3>1. CASE batchDepth = 0
      <4>1. Len(stack') = 2 BY <2>1, <3>1
      <4>2. i = 1 \/ i = 2 BY <4>1
      <4> QED BY <2>1, <2>2, <3>1, <4>2
    <3>2. CASE batchDepth # 0
      <4>1. Len(stack') = 1 BY <2>1, <3>2
      <4>2. i = 1 BY <4>1
      <4> QED BY <2>1, <3>2, <4>2
    <3> QED BY <3>1, <3>2
  <2>4. \A n : ~Updating(n)' BY <2>3 DEF Updating, IsPull
  <2>5. s \in Readable BY NodeKinds
  <2>6. ASSUME NEW n \in Reactions, Marked(n, DIRTY)' PROVE state[n] = DIRTY \/ n \in moved'
    <3>1. Contains(observers[s], n) BY <2>1, <2>6 DEF Marked
    <3> QED BY <2>1, <2>5, <3>1, ObserverMoved
  <2>7. sources' = sources /\ state' = state /\ saw' = saw /\ moved \subseteq moved' BY <2>1 DEF graph
  <2> QED BY <1>3, <2>4, <2>6, <2>7, BothKept
<1>5. ASSUME UNCHANGED <<state, graph, saw, moved>>,
             stack' = stack \/ (stack' \in Seq(Frames) /\ Len(stack') = 1 /\ Top' = stack'[1]
                                /\ (stack'[1].call = "flush" \/ \E n \in Nodes : stack'[1] = Pull(n)))
      PROVE  SeenInv' /\ MovedInv'
  <2>1. sources' = sources /\ state' = state /\ saw' = saw /\ moved' = moved BY <1>5 DEF graph
  <2>2. \A n : Pull(n).call = "pull" /\ Pull(n).done = FALSE BY DEF Pull
  <2>3. \A n : ~Updating(n)'
    <3>1. CASE stack' = stack BY <1>1, <3>1 DEF Updating
    <3>2. CASE stack' # stack
      <4>1. \A i \in 1 .. Len(stack') : i = 1 BY <1>5, <3>2
      <4>2. stack'[1].call = "flush" \/ stack'[1].done = FALSE BY <1>5, <2>2, <3>2
      <4> QED BY <4>1, <4>2 DEF Updating, IsPull
    <3> QED BY <3>1, <3>2
  <2>4. ~In("mark")'
    <3>1. CASE stack' = stack BY <3>1 DEF In, Idle
    <3>2. CASE stack' # stack BY <1>5, <2>2, <3>2 DEF In
    <3> QED BY <3>1, <3>2
  <2>5. \A n, c : ~Marked(n, c)' BY <2>4, NoMarks
  <2> QED BY <1>3, <2>1, <2>3, <2>5, BothKept
<1>6. ASSUME NEW n \in Computeds, Read(n) PROVE SeenInv' /\ MovedInv'
  <2>1. n \in Nodes BY NodeKinds
  <2>2. UNCHANGED <<state, graph, saw, moved>> /\ stack' = <<Pull(n)>> BY <1>6 DEF Read, history
  <2>3. stack' \in Seq(Frames) /\ Len(stack') = 1 /\ stack'[1] = Pull(n) /\ Top' = Pull(n)
    BY <2>1, <2>2, UserCallIs
  <2> QED BY <1>5, <2>1, <2>2, <2>3
<1>7. ASSUME NEW e \in Effects, CreateEffect(e) PROVE SeenInv' /\ MovedInv'
  <2>1. e \in Nodes BY NodeKinds
  <2>2. UNCHANGED <<state, graph, saw, moved>> /\ (stack' = stack \/ stack' = <<Pull(e)>>)
    BY <1>7 DEF CreateEffect, history
  <2>3. CASE stack' = <<Pull(e)>>
    <3>1. stack' \in Seq(Frames) /\ Len(stack') = 1 /\ stack'[1] = Pull(e) /\ Top' = Pull(e)
      BY <2>1, <2>3, UserCallIs
    <3> QED BY <1>5, <2>1, <2>2, <3>1
  <2> QED BY <1>5, <2>2, <2>3
<1>8. ASSUME NEW e \in Effects, Dispose(e) PROVE SeenInv' /\ MovedInv'
  <2>1. /\ sources' = [sources EXCEPT ![e] = <<>>] /\ state' = [state EXCEPT ![e] = CLEAN]
        /\ UNCHANGED <<stack, saw, history>>
    BY <1>8 DEF Dispose
  <2>2. Effects \subseteq Nodes /\ Reactions \subseteq Nodes BY NodeKinds
  <2>3. /\ sources'[e] = <<>> /\ state'[e] = CLEAN
        /\ \A n \in Reactions \ {e} : state'[n] = state[n] /\ sources'[n] = sources[n]
    BY <2>1, <2>2 DEF TypeOK
  <2>4. \A n : ~Updating(n)' BY <1>1, <2>1 DEF Updating
  <2>5. ~In("mark")' BY <2>1 DEF In, Idle
  <2>6. \A n, c : ~Marked(n, c)' BY <2>5, NoMarks
  <2>7. saw' = saw /\ moved' = moved BY <2>1 DEF history
  <2>8. ASSUME NEW n \in Reactions
        PROVE  /\ \A m \in Readable : Contains(sources'[n], m) => saw'[n][m] # Undefined \/ state'[n] = DIRTY
               /\ (state'[n] = DIRTY \/ Marked(n, DIRTY)') => n \in moved'
    <3>1. CASE n = e BY <2>3, <2>6, <3>1, Empty DEF CLEAN, DIRTY
    <3>2. CASE n # e BY <1>3, <2>3, <2>6, <2>7, <3>2 DEF SeenInv, MovedInv
    <3> QED BY <3>1, <3>2
  <2> QED BY <2>4, <2>8 DEF SeenInv, MovedInv
<1>9. CASE BatchBegin BY <1>5, <1>9 DEF BatchBegin, history
<1>10. CASE BatchEnd
  <2>1. /\ \/ stack' \in Seq(Frames) /\ Len(stack') = 1 /\ stack'[1] = Flush /\ Top' = Flush /\ Flush.call = "flush"
           \/ stack' = stack
        /\ UNCHANGED <<value, state, graph, pendingEffects, life, saw, history>>
    BY <1>10, BatchEndIs
  <2> QED BY <1>5, <2>1 DEF history
<1> QED BY <1>4, <1>6, <1>7, <1>8, <1>9, <1>10 DEF UserStep

\* Only the stack moves, and nobody is marked after it.
LEMMA QuietSeen ==
  ASSUME TypeOK, SeenInv, MovedInv, ~Idle, UNCHANGED <<state, graph, saw, moved>>,
         stack' \in Seq(Frames), NEW l, l = Len(stack), Len(stack') >= l - 1,
         \A i \in 1 .. l - 1 : stack'[i] = stack[i],
         \A i \in 1 .. Len(stack') : i >= l => stack'[i].call # "pull" \/ ~stack'[i].done,
         Top.call # "pull" \/ ~Top.done,
         Top.call # "run" \/ Top.reading = Undefined,
         ~In("mark")'
  PROVE  SeenInv' /\ MovedInv'
<1>1. \A n \in Reactions \ {Undefined} :
           /\ Updating(n)' <=> Updating(n)
           /\ \A m \in Readable : Reading(n, m) => Reading(n, m)'
  BY TopMoves
<1>2. Undefined \notin Reactions BY NodeKinds
<1>3. \A n, c : ~Marked(n, c)' BY NoMarks
<1>4. sources' = sources /\ saw' = saw /\ moved' = moved /\ state' = state BY DEF graph
<1> QED BY <1>1, <1>2, <1>3, <1>4, BothKept

\* markStale makes DIRTY what it was called to make DIRTY.
LEMMA MarkStaleSeen ==
  ASSUME TypeOK, SeenInv, MovedInv, MarkStale
  PROVE  SeenInv' /\ MovedInv'
<1>1. PICK h : h = Head(Top.left)[1] OBVIOUS
<1>2. PICK c : c = Head(Top.left)[2] OBVIOUS
<1>3. PICK l : l = Len(stack) OBVIOUS
<1>4. /\ In("mark") /\ h \in Reactions /\ c \in {CHECK, DIRTY}
      /\ \A x : Contains(Top.left, x) <=> x = <<h, c>> \/ Contains(Tail(Top.left), x)
      /\ stack' \in Seq(Frames) /\ Len(stack') = l
      /\ l \in Nat \ {0}
      /\ stack'[l] = Top' /\ Top'.call = "mark"
      /\ \A i \in 1 .. l - 1 : stack'[i] = stack[i]
      /\ \/ Top'.left = Tail(Top.left) /\ UNCHANGED state
         \/ /\ ~(state[h] >= c) /\ state' = [state EXCEPT ![h] = c]
            /\ \A x : Contains(Top'.left, x) <=>
                 (\E k \in Reactions : x = <<k, CHECK>> /\ Contains(observers[h], k))
                   \/ Contains(Tail(Top.left), x)
      /\ UNCHANGED <<graph, saw, moved>>
  BY <1>1, <1>2, <1>3, MarkStaleIs DEF history
<1>5. ~Idle /\ Top.call = "mark" BY <1>4 DEF In
<1>6. ASSUME NEW i \in 1 .. Len(stack'), i >= l PROVE stack'[i].call = "mark"
  <2>1. i = l BY <1>4, <1>6
  <2> QED BY <1>4, <2>1
<1>7. \A n \in Reactions \ {Undefined} :
           /\ Updating(n)' <=> Updating(n)
           /\ \A m \in Readable : Reading(n, m) => Reading(n, m)'
  <2>1. Len(stack') >= l - 1 BY <1>4
  <2> QED BY <1>3, <1>4, <1>5, <1>6, <2>1, TopMoves
<1>8. Undefined \notin Reactions /\ Reactions \subseteq Nodes BY NodeKinds
<1>9. ASSUME NEW n \in Reactions
      PROVE  /\ state[n] = DIRTY => state'[n] = DIRTY
             /\ state'[n] = DIRTY => state[n] = DIRTY \/ Marked(n, DIRTY)
  <2>1. CASE state' = state BY <2>1
  <2>2. CASE ~(state[h] >= c) /\ state' = [state EXCEPT ![h] = c]
    <3>1. n # h => state'[n] = state[n] BY <1>8, <2>2 DEF TypeOK
    <3>2. state'[h] = c BY <1>4, <1>8, <2>2 DEF TypeOK
    <3>3. state[h] # DIRTY BY <1>4, <2>2 DEF DIRTY, CHECK
    <3>4. c = DIRTY => Marked(h, DIRTY) BY <1>4 DEF Marked
    <3> QED BY <3>1, <3>2, <3>3, <3>4
  <2> QED BY <1>4, <2>1, <2>2
<1>10. ASSUME NEW n \in Reactions, Marked(n, DIRTY)' PROVE Marked(n, DIRTY)
  <2>1. Contains(Top'.left, <<n, DIRTY>>) BY <1>10 DEF Marked
  <2>2. \A k : <<n, DIRTY>> # <<k, CHECK>> BY DEF DIRTY, CHECK
  <2>3. Contains(Tail(Top.left), <<n, DIRTY>>) BY <1>4, <2>1, <2>2
  <2> QED BY <1>4, <2>3 DEF Marked
<1>11. sources' = sources /\ saw' = saw /\ moved \subseteq moved' BY <1>4 DEF graph
<1> QED BY <1>7, <1>8, <1>9, <1>10, <1>11, BothKept

\* markStale and flush return.
LEMMA DoneSeen ==
  ASSUME TypeOK, StackInv, SeenInv, MovedInv, MarkDone \/ FlushDone
  PROVE  SeenInv' /\ MovedInv'
<1>0. PICK l : l = Len(stack) OBVIOUS
<1>1. /\ ~Idle /\ Top = stack[l] /\ l \in Nat \ {0}
      /\ In("mark") \/ In("flush")
      /\ stack' \in Seq(Frames) /\ Len(stack') = l - 1
      /\ \A i \in 1 .. l - 1 : stack'[i] = stack[i]
      /\ ~Idle' => l > 1 /\ Top' = stack[l - 1]
      /\ UNCHANGED <<calls, value, state, graph, pendingEffects, batchDepth, life, saw, history>>
  BY <1>0, DoneIs
<1>2. Top.call \in {"mark", "flush"} BY <1>1 DEF In
<1>3. Idle' \/ Top'.call = "flush" \/ (Top'.call = "run" /\ Top'.reading = Undefined)
  BY <1>0, <1>1, <1>2, BelowMark
<1>4. ~In("mark")' BY <1>3 DEF In
<1>5. \A i \in 1 .. Len(stack') : ~(i >= l) BY <1>1
<1>6. UNCHANGED <<state, graph, saw, moved>> BY <1>1 DEF history
<1>7. Len(stack') >= l - 1 BY <1>1
<1> QED BY <1>0, <1>1, <1>2, <1>4, <1>5, <1>6, <1>7, QuietSeen

\* A flush takes the queue, or comes to its next effect.
LEMMA FlushSeen ==
  ASSUME TypeOK, SeenInv, MovedInv, FlushTake \/ FlushNext
  PROVE  SeenInv' /\ MovedInv'
<1>0. PICK l : l = Len(stack) OBVIOUS
<1>1. CASE FlushTake
  <2>1. /\ In("flush") /\ ~Idle /\ l \in Nat \ {0}
        /\ stack' \in Seq(Frames) /\ Len(stack') = l /\ Top' = stack'[l]
        /\ stack'[l].call = "flush"
        /\ \A i \in 1 .. l - 1 : stack'[i] = stack[i]
        /\ UNCHANGED <<calls, value, state, graph, batchDepth, life, saw, history>>
    BY <1>0, <1>1, FlushTakeIs
  <2>2. Top.call = "flush" /\ ~In("mark")' BY <2>1 DEF In
  <2>3. ASSUME NEW i \in 1 .. Len(stack'), i >= l PROVE stack'[i].call = "flush"
    <3>1. i = l BY <2>1, <2>3
    <3> QED BY <2>1, <3>1
  <2>4. UNCHANGED <<state, graph, saw, moved>> BY <2>1 DEF history
  <2>5. Len(stack') >= l - 1 BY <2>1
  <2> QED BY <1>0, <2>1, <2>2, <2>3, <2>4, <2>5, QuietSeen
<1>2. CASE FlushNext
  <2>0. PICK e : e = Head(Top.left) OBVIOUS
  <2>1. /\ In("flush") /\ ~Idle /\ l \in Nat \ {0}
        /\ stack' \in Seq(Frames)
        /\ stack'[l].call = "flush"
        /\ \A i \in 1 .. l - 1 : stack'[i] = stack[i]
        /\ \/ Len(stack') = l /\ Top' = stack'[l]
           \/ Len(stack') = l + 1 /\ Top' = stack'[l + 1] /\ stack'[l + 1] = Pull(e)
        /\ UNCHANGED <<calls, value, state, graph, pendingEffects, batchDepth, life, saw, history>>
    BY <1>0, <1>2, <2>0, FlushNextIs
  <2>2. Pull(e).call = "pull" /\ Pull(e).done = FALSE BY DEF Pull
  <2>3. Top.call = "flush" /\ ~In("mark")' BY <2>1, <2>2 DEF In
  <2>4. ASSUME NEW i \in 1 .. Len(stack'), i >= l PROVE stack'[i].call # "pull" \/ ~stack'[i].done
    <3>1. CASE Len(stack') = l
      <4>1. i = l BY <2>1, <2>4, <3>1
      <4> QED BY <2>1, <4>1
    <3>2. CASE Len(stack') = l + 1 /\ stack'[l + 1] = Pull(e)
      <4>1. i = l \/ i = l + 1 BY <2>1, <2>4, <3>2
      <4> QED BY <2>1, <2>2, <3>2, <4>1
    <3> QED BY <2>1, <3>1, <3>2
  <2>5. UNCHANGED <<state, graph, saw, moved>> BY <2>1 DEF history
  <2>6. Len(stack') >= l - 1 BY <2>1
  <2> QED BY <1>0, <2>1, <2>3, <2>4, <2>5, <2>6, QuietSeen
<1> QED BY <1>1, <1>2

\* updateIfNecessary pulls the next source.
LEMMA PullSourceSeen ==
  ASSUME TypeOK, SeenInv, MovedInv, PullSource
  PROVE  SeenInv' /\ MovedInv'
<1>0. PICK l : l = Len(stack) OBVIOUS
<1>1. PICK k : k = Head(Top.left) OBVIOUS
<1>2. /\ In("pull") /\ ~Idle /\ l \in Nat \ {0} /\ ~Top.done
      /\ stack' \in Seq(Frames) /\ Len(stack') = l + 1 /\ Top' = stack'[l + 1]
      /\ stack'[l].call = "pull" /\ stack'[l].done = FALSE
      /\ stack'[l + 1] = Pull(k)
      /\ \A i \in 1 .. l - 1 : stack'[i] = stack[i]
      /\ UNCHANGED <<calls, value, state, graph, pendingEffects, batchDepth, life, saw, history>>
  BY <1>0, <1>1, PullSourceIs
<1>3. Pull(k).call = "pull" /\ Pull(k).done = FALSE BY DEF Pull
<1>4. Top.call = "pull" /\ ~In("mark")' BY <1>2, <1>3 DEF In
<1>5. ASSUME NEW i \in 1 .. Len(stack'), i >= l PROVE stack'[i].call # "pull" \/ ~stack'[i].done
  <2>1. i = l \/ i = l + 1 BY <1>2, <1>5
  <2> QED BY <1>2, <1>3, <2>1
<1>6. UNCHANGED <<state, graph, saw, moved>> BY <1>2 DEF history
<1>7. Len(stack') >= l - 1 BY <1>2
<1> QED BY <1>0, <1>2, <1>4, <1>5, <1>6, <1>7, QuietSeen

\* The function on top of the stack has seen all it read but what it is reading.
LEMMA RunSees ==
  ASSUME TypeOK, StackInv, QueueInv, SeenInv, In("run")
  PROVE  /\ Updating(Top.node) /\ state[Top.node] = DIRTY
         /\ \A m \in Readable : Reading(Top.node, m) => m = Top.reading
         /\ \A m \in Readable : (Contains(sources[Top.node], m) /\ m # Top.reading) =>
              saw[Top.node][m] # Undefined
         /\ Len(stack) - 1 \in 1 .. Len(stack) /\ IsPull(Top.node, Len(stack) - 1)
         /\ stack[Len(stack) - 1].done
<1>0. PICK l : l = Len(stack) OBVIOUS
<1>1. ~Idle /\ Top = stack[l] /\ l \in Nat \ {0} /\ Top.call = "run" /\ Top.node \in Reactions
  BY <1>0, RunFacts, TopFacts DEF In
<1>2. l \in 1 .. Len(stack) BY <1>0, <1>1
<1>3. /\ l - 1 \in 1 .. Len(stack) /\ stack[l - 1].call = "pull" /\ stack[l - 1].done
      /\ stack[l - 1].node = Top.node /\ state[Top.node] = DIRTY
  BY <1>1, <1>2, RunUnder
<1>4. IsPull(Top.node, l - 1) BY <1>3 DEF IsPull
<1>5. Updating(Top.node) BY <1>3, <1>4 DEF Updating
<1>6. ASSUME NEW m \in Readable, Reading(Top.node, m) PROVE m = Top.reading
  <2>1. PICK i \in 1 .. Len(stack) :
          stack[i].call = "run" /\ stack[i].node = Top.node /\ stack[i].reading = m
    BY <1>6 DEF Reading
  <2>2. i = l BY <1>1, <1>2, <2>1, AloneRun
  <2> QED BY <1>1, <2>1, <2>2
<1>7. ASSUME NEW m \in Readable, Contains(sources[Top.node], m), m # Top.reading
      PROVE  saw[Top.node][m] # Undefined
  BY <1>1, <1>5, <1>6, <1>7 DEF SeenInv
<1> QED BY <1>0, <1>3, <1>4, <1>5, <1>6, <1>7

\* A function reads: it is at it.
LEMMA ReadsSeen ==
  ASSUME TypeOK, EdgesInv, StackInv, QueueInv, SeenInv, MovedInv, NEW tracked \in BOOLEAN,
         Running(IF tracked THEN "read" ELSE "peek"), Reads(NextOp(Top).node, tracked)
  PROVE  SeenInv' /\ MovedInv'
<1>0. PICK l : l = Len(stack) OBVIOUS
<1>1. PICK m : m = NextOp(Top).node OBVIOUS
<1>2. PICK t : t = Top.node OBVIOUS
<1>3. /\ In("run") /\ ~Idle /\ l \in Nat \ {0} /\ Top.reading = Undefined /\ t \in Reactions
      /\ m \in Readable
      /\ stack' \in Seq(Frames)
      /\ stack'[l].call = "run" /\ stack'[l].node = t /\ stack'[l].reading = m
      /\ \A i \in 1 .. l - 1 : stack'[i] = stack[i]
      /\ m \in Sigs => Len(stack') = l /\ Top' = stack'[l]
      /\ m \notin Sigs => Len(stack') = l + 1 /\ Top' = stack'[l + 1] /\ stack'[l + 1] = Pull(m)
      /\ \A k \in Nodes \ {t} : sources'[k] = sources[k]
      /\ \A k : Contains(sources'[t], k) => Contains(sources[t], k) \/ k = m
      /\ \A k \in Readable \ {m} : saw'[t][k] = saw[t][k]
      /\ \A n \in Reactions \ {t} : saw'[n] = saw[n]
      /\ UNCHANGED <<calls, value, state, pendingEffects, batchDepth, life, history>>
  BY <1>0, <1>1, <1>2, ReadsIs, Zenon
<1>4. Pull(m).call = "pull" /\ Pull(m).done = FALSE BY DEF Pull
<1>5. Top.call = "run" /\ ~In("mark")' BY <1>3, <1>4 DEF In
<1>6. ASSUME NEW i \in 1 .. Len(stack'), i >= l PROVE stack'[i].call # "pull" \/ ~stack'[i].done
  <2>1. CASE m \in Sigs
    <3>1. Len(stack') = l BY <1>3, <2>1
    <3>2. i = l BY <1>3, <1>6, <3>1
    <3> QED BY <1>3, <3>2
  <2>2. CASE m \notin Sigs
    <3>1. Len(stack') = l + 1 /\ stack'[l + 1] = Pull(m) BY <1>3, <2>2
    <3>2. i = l \/ i = l + 1 BY <1>3, <1>6, <3>1
    <3> QED BY <1>3, <1>4, <3>1, <3>2
  <2> QED BY <2>1, <2>2
<1>7. Len(stack') >= l - 1 /\ l \in 1 .. Len(stack')
  <2>1. Len(stack') = l \/ Len(stack') = l + 1 BY <1>3
  <2> QED BY <1>3, <2>1
<1>8. \A n \in Reactions \ {Undefined} :
           /\ Updating(n)' <=> Updating(n)
           /\ \A k \in Readable : Reading(n, k) => Reading(n, k)'
  BY <1>0, <1>3, <1>5, <1>6, <1>7, TopMoves
<1>9. Undefined \notin Reactions /\ Reactions \subseteq Nodes BY NodeKinds
<1>10. \A n, c : ~Marked(n, c)' BY <1>5, NoMarks
<1>11. state' = state /\ moved' = moved BY <1>3 DEF history
<1>12. ASSUME NEW n \in Reactions PROVE (state'[n] = DIRTY \/ Marked(n, DIRTY)') => n \in moved' \/ Updating(n)'
  BY <1>8, <1>9, <1>10, <1>11, MovedKept
<1>13. ASSUME NEW n \in Reactions, NEW k \in Readable, Contains(sources'[n], k)
       PROVE  saw'[n][k] # Undefined \/ (state'[n] = DIRTY /\ (~Updating(n)' \/ Reading(n, k)'))
  <2>1. CASE n # t BY <1>3, <1>8, <1>9, <1>11, <1>13, <2>1, SeenKept
  <2>2. CASE n = t /\ k = m
    <3>1. Reading(t, m)' BY <1>3, <1>7 DEF Reading
    <3>2. state[t] = DIRTY BY <1>2, <1>3, RunSees
    <3> QED BY <1>11, <2>2, <3>1, <3>2
  <2>3. CASE n = t /\ k # m
    <3>1. Contains(sources[t], k) /\ saw'[t][k] = saw[t][k] BY <1>3, <1>13, <2>3
    <3>2. k # Top.reading BY <1>3, NodeKinds
    <3>3. saw[t][k] # Undefined BY <1>2, <1>3, <3>1, <3>2, RunSees
    <3> QED BY <2>3, <3>1, <3>3
  <2> QED BY <2>1, <2>2, <2>3
<1> QED BY <1>12, <1>13 DEF SeenInv, MovedInv

\* A function has read: it has seen a value.
LEMMA RunGetsSeen ==
  ASSUME TypeOK, StackInv, QueueInv, ColourInv(Computeds), SeenInv, MovedInv, RunGets
  PROVE  SeenInv' /\ MovedInv'
<1>0. PICK l : l = Len(stack) OBVIOUS
<1>1. PICK m : m = Top.reading OBVIOUS
<1>2. PICK t : t = Top.node OBVIOUS
<1>3. /\ In("run") /\ ~Idle /\ Top = stack[l] /\ l \in Nat \ {0} /\ t \in Reactions /\ m \in Readable
      /\ stack' \in Seq(Frames) /\ Len(stack') = l /\ Top' = stack'[l]
      /\ stack'[l].call = "run"
      /\ \A i \in 1 .. l - 1 : stack'[i] = stack[i]
      /\ saw'[t][m] = value[m]
      /\ \A k \in Readable \ {m} : saw'[t][k] = saw[t][k]
      /\ \A n \in Reactions \ {t} : saw'[n] = saw[n]
      /\ UNCHANGED <<calls, value, state, graph, pendingEffects, batchDepth, life, history>>
  BY <1>0, <1>1, <1>2, RunGetsIs
<1>4. Top.call = "run" /\ ~In("mark")' BY <1>3 DEF In
<1>5. ASSUME NEW i \in 1 .. Len(stack'), i >= l PROVE stack'[i].call = "run"
  <2>1. i = l BY <1>3, <1>5
  <2> QED BY <1>3, <2>1
<1>6. \A n \in Reactions \ {t} :
           /\ Updating(n)' <=> Updating(n)
           /\ \A k \in Readable : Reading(n, k) => Reading(n, k)'
  <2>1. Len(stack') >= l - 1 BY <1>3
  <2> QED BY <1>0, <1>2, <1>3, <1>4, <1>5, <2>1, TopMoves
<1>7. \A n, c : ~Marked(n, c)' BY <1>4, NoMarks
<1>8. state' = state /\ moved' = moved /\ sources' = sources BY <1>3 DEF history, graph
<1>9. Updating(t)'
  <2>1. l - 1 \in 1 .. Len(stack) /\ IsPull(t, l - 1) /\ stack[l - 1].done
    BY <1>0, <1>2, <1>3, RunSees
  <2>2. l - 1 \in 1 .. l - 1 /\ l - 1 \in 1 .. Len(stack') BY <1>0, <1>3, <2>1
  <2> QED BY <1>3, <2>1, <2>2 DEF Updating, IsPull
<1>10. value[m] # Undefined
  <2>1. CASE m \in Sigs BY <2>1, NodeKinds DEF TypeOK
  <2>2. CASE m \notin Sigs
    <3>1. m \in Computeds BY <1>3, <2>2, NodeKinds
    <3>2. m # Undefined BY <1>3, NodeKinds
    <3>3. state[m] = CLEAN BY <1>1, <1>3, <3>2 DEF ColourInv, ReadInv
    <3>4. Ran(m) BY <3>1, <3>3 DEF ColourInv, NodeOK, CLEAN, DIRTY
    <3> QED BY <3>1, <3>4, NodeKinds DEF Ran
  <2> QED BY <2>1, <2>2
<1>11. ASSUME NEW n \in Reactions PROVE (state'[n] = DIRTY \/ Marked(n, DIRTY)') => n \in moved' \/ Updating(n)'
  <2>1. CASE n = t BY <1>9, <2>1
  <2>2. CASE n # t BY <1>6, <1>7, <1>8, <2>2, MovedKept
  <2> QED BY <2>1, <2>2
<1>12. ASSUME NEW n \in Reactions, NEW k \in Readable, Contains(sources'[n], k)
       PROVE  saw'[n][k] # Undefined \/ (state'[n] = DIRTY /\ (~Updating(n)' \/ Reading(n, k)'))
  <2>1. CASE n # t BY <1>3, <1>6, <1>8, <1>12, <2>1, SeenKept
  <2>2. CASE n = t /\ k = m BY <1>3, <1>10, <2>2
  <2>3. CASE n = t /\ k # m
    <3>1. Contains(sources[t], k) /\ saw'[t][k] = saw[t][k] BY <1>3, <1>8, <1>12, <2>3
    <3>2. saw[t][k] # Undefined BY <1>1, <1>2, <1>3, <2>3, <3>1, RunSees
    <3> QED BY <2>3, <3>1, <3>2
  <2> QED BY <2>1, <2>2, <2>3
<1> QED BY <1>11, <1>12 DEF SeenInv, MovedInv

\* set() by an effect: who observes the signal has read it, or is DIRTY.
LEMMA RunWriteSeen ==
  ASSUME TypeOK, EdgesInv, SeenInv, MovedInv, RunWrite
  PROVE  SeenInv' /\ MovedInv'
<1>0. PICK l : l = Len(stack) OBVIOUS
<1>1. PICK s : s = NextOp(Top).node OBVIOUS
<1>2. /\ In("run") /\ ~Idle /\ l \in Nat \ {0} /\ Top.reading = Undefined /\ s \in Sigs
      /\ stack' \in Seq(Frames)
      /\ stack'[l].call = "run"
      /\ \A i \in 1 .. l - 1 : stack'[i] = stack[i]
      /\ \/ Len(stack') = l /\ Top' = stack'[l] /\ UNCHANGED <<value, moved>>
         \/ /\ batchDepth = 0 =>
                  Len(stack') = l + 2 /\ Top' = stack'[l + 2] /\ stack'[l + 1] = Flush
            /\ batchDepth # 0 => Len(stack') = l + 1 /\ Top' = stack'[l + 1]
            /\ Top'.call = "mark"
            /\ \A n, c : Contains(Top'.left, <<n, c>>) <=> Contains(observers[s], n) /\ c = DIRTY
            /\ moved' = moved \cup ReadersOf(s)
      /\ UNCHANGED <<calls, state, graph, pendingEffects, batchDepth, life, saw, lost>>
  BY <1>0, <1>1, RunWriteIs
<1>3. Top.call = "run" /\ Flush.call = "flush" BY <1>2 DEF In, Flush
<1>4. CASE Len(stack') = l /\ Top' = stack'[l] /\ UNCHANGED <<value, moved>>
  <2>1. ASSUME NEW i \in 1 .. Len(stack'), i >= l PROVE stack'[i].call = "run"
    <3>1. i = l BY <1>2, <1>4, <2>1
    <3> QED BY <1>2, <3>1
  <2>2. ~In("mark")' BY <1>2, <1>4 DEF In
  <2>3. Len(stack') >= l - 1 BY <1>2, <1>4
  <2> QED BY <1>0, <1>2, <1>3, <1>4, <2>1, <2>2, <2>3, QuietSeen
<1>5. CASE /\ batchDepth = 0 =>
                  Len(stack') = l + 2 /\ Top' = stack'[l + 2] /\ stack'[l + 1] = Flush
           /\ batchDepth # 0 => Len(stack') = l + 1 /\ Top' = stack'[l + 1]
           /\ Top'.call = "mark"
           /\ \A n, c : Contains(Top'.left, <<n, c>>) <=> Contains(observers[s], n) /\ c = DIRTY
           /\ moved' = moved \cup ReadersOf(s)
  <2>1. ASSUME NEW i \in 1 .. Len(stack'), i >= l PROVE stack'[i].call # "pull"
    <3>1. CASE batchDepth = 0
      <4>1. Len(stack') = l + 2 BY <1>5, <3>1
      <4>2. i = l \/ i = l + 1 \/ i = l + 2 BY <1>2, <2>1, <4>1
      <4> QED BY <1>2, <1>3, <1>5, <3>1, <4>2
    <3>2. CASE batchDepth # 0
      <4>1. Len(stack') = l + 1 BY <1>5, <3>2
      <4>2. i = l \/ i = l + 1 BY <1>2, <2>1, <4>1
      <4> QED BY <1>2, <1>5, <3>2, <4>2
    <3> QED BY <3>1, <3>2
  <2>2. Len(stack') >= l - 1
    <3>1. Len(stack') = l + 2 \/ Len(stack') = l + 1 BY <1>5
    <3> QED BY <1>2, <3>1
  <2>3. \A n \in Reactions \ {Undefined} :
             /\ Updating(n)' <=> Updating(n)
             /\ \A k \in Readable : Reading(n, k) => Reading(n, k)'
    BY <1>0, <1>2, <1>3, <2>1, <2>2, TopMoves
  <2>4. Undefined \notin Reactions /\ s \in Readable BY <1>2, NodeKinds
  <2>5. ASSUME NEW n \in Reactions, Marked(n, DIRTY)' PROVE state[n] = DIRTY \/ n \in moved'
    <3>1. Contains(observers[s], n) BY <1>5, <2>5 DEF Marked
    <3> QED BY <1>5, <2>4, <3>1, ObserverMoved
  <2>6. sources' = sources /\ state' = state /\ saw' = saw /\ moved \subseteq moved'
    BY <1>2, <1>5 DEF graph
  <2> QED BY <2>3, <2>4, <2>5, <2>6, BothKept
<1> QED BY <1>2, <1>4, <1>5

\* A computed returns a new value: who observes it has read it, or is DIRTY.
LEMMA RunReturnSeen ==
  ASSUME TypeOK, EdgesInv, StackInv, QueueInv, SeenInv, MovedInv, RunReturn
  PROVE  SeenInv' /\ MovedInv'
<1>0. PICK l : l = Len(stack) OBVIOUS
<1>1. PICK t : t = Top.node OBVIOUS
<1>2. /\ In("run") /\ ~Idle /\ l \in Nat \ {0} /\ Top.reading = Undefined /\ t \in Reactions
      /\ stack' \in Seq(Frames) /\ Len(stack') = l - 1
      /\ \A i \in 1 .. l - 1 : stack'[i] = stack[i]
      /\ ~Idle' => l > 1 /\ Top' = stack[l - 1]
      /\ \/ UNCHANGED <<value, state, moved>>
         \/ /\ t \in Computeds
            /\ \A n \in Nodes : Contains(observers[t], n) => state'[n] = DIRTY
            /\ \A n \in Nodes : ~Contains(observers[t], n) => state'[n] = state[n]
            /\ moved' = moved \cup ReadersOf(t)
      /\ UNCHANGED <<calls, graph, pendingEffects, batchDepth, life, saw, lost>>
  BY <1>0, <1>1, RunReturnIs
<1>3. Top.call = "run" BY <1>2 DEF In
<1>4. \A i \in 1 .. Len(stack') : ~(i >= l) BY <1>2
<1>5. Len(stack') >= l - 1 BY <1>2
<1>6. \A n \in Reactions \ {Undefined} :
           /\ Updating(n)' <=> Updating(n)
           /\ \A k \in Readable : Reading(n, k) => Reading(n, k)'
  BY <1>0, <1>2, <1>3, <1>4, <1>5, TopMoves
<1>7. stack[l - 1].call = "pull" BY <1>0, <1>1, <1>2, RunSees DEF IsPull
<1>8. ~In("mark")' BY <1>2, <1>7 DEF In
<1>9. \A n, c : ~Marked(n, c)' BY <1>8, NoMarks
<1>10. Undefined \notin Reactions /\ Reactions \subseteq Nodes /\ Computeds \subseteq Readable BY NodeKinds
<1>11. ASSUME NEW n \in Reactions
       PROVE  /\ state[n] = DIRTY => state'[n] = DIRTY
              /\ state'[n] = DIRTY => state[n] = DIRTY \/ n \in moved'
  <2>1. CASE UNCHANGED <<value, state, moved>> BY <2>1
  <2>2. CASE /\ t \in Computeds
             /\ \A k \in Nodes : Contains(observers[t], k) => state'[k] = DIRTY
             /\ \A k \in Nodes : ~Contains(observers[t], k) => state'[k] = state[k]
             /\ moved' = moved \cup ReadersOf(t)
    <3>1. CASE Contains(observers[t], n)
      <4>1. t \in Readable BY <1>10, <2>2
      <4>2. n \in ReadersOf(t) \/ state[n] = DIRTY BY <3>1, <4>1, ObserverMoved
      <4> QED BY <1>10, <2>2, <3>1, <4>2
    <3>2. CASE ~Contains(observers[t], n) BY <1>10, <2>2, <3>2
    <3> QED BY <3>1, <3>2
  <2> QED BY <1>2, <2>1, <2>2
<1>12. moved \subseteq moved' /\ sources' = sources /\ saw' = saw BY <1>2 DEF graph
<1> QED BY <1>6, <1>9, <1>10, <1>11, <1>12, BothKept

\* update(): the node forgets its sources.
LEMMA PullUpdateSeen ==
  ASSUME TypeOK, EdgesInv, SeenInv, MovedInv, PullUpdate
  PROVE  SeenInv' /\ MovedInv'
<1>0. PICK l : l = Len(stack) OBVIOUS
<1>1. PICK t : t = Top.node OBVIOUS
<1>2. /\ In("pull") /\ ~Idle /\ l \in Nat \ {0} /\ ~Top.done /\ t \in Reactions
      /\ stack' \in Seq(Frames) /\ Len(stack') = l + 1 /\ Top' = stack'[l + 1]
      /\ stack'[l].call = "pull" /\ stack'[l].node = t /\ stack'[l].done = TRUE
      /\ stack'[l + 1].call = "run"
      /\ \A i \in 1 .. l - 1 : stack'[i] = stack[i]
      /\ sources'[t] = <<>> /\ \A m \in Nodes \ {t} : sources'[m] = sources[m]
      /\ \A n \in Reactions \ {t} : saw'[n] = saw[n]
      /\ moved' = moved \ {t}
      /\ UNCHANGED <<calls, value, state, pendingEffects, batchDepth, life, lost>>
  BY <1>0, <1>1, PullUpdateIs
<1>3. Top.call = "pull" /\ ~In("mark")' BY <1>2 DEF In
<1>4. ASSUME NEW i \in 1 .. Len(stack'), i >= l PROVE stack'[i].call # "pull" \/ stack'[i].node = t
  <2>1. i = l \/ i = l + 1 BY <1>2, <1>4
  <2> QED BY <1>2, <2>1
<1>5. Len(stack') >= l - 1 /\ l \in 1 .. Len(stack') BY <1>2
<1>6. \A n \in Reactions \ {t} :
           /\ Updating(n)' <=> Updating(n)
           /\ \A k \in Readable : Reading(n, k) => Reading(n, k)'
  BY <1>0, <1>2, <1>3, <1>4, <1>5, TopMoves
<1>7. \A n, c : ~Marked(n, c)' BY <1>3, NoMarks
<1>8. Updating(t)' BY <1>2, <1>5 DEF Updating, IsPull
<1>9. Reactions \subseteq Nodes /\ state' = state BY <1>2, NodeKinds
<1>10. ASSUME NEW n \in Reactions PROVE (state'[n] = DIRTY \/ Marked(n, DIRTY)') => n \in moved' \/ Updating(n)'
  <2>1. CASE n = t BY <1>8, <2>1
  <2>2. CASE n # t BY <1>2, <1>6, <1>7, <1>9, <2>2, MovedKept
  <2> QED BY <2>1, <2>2
<1>11. ASSUME NEW n \in Reactions, NEW k \in Readable, Contains(sources'[n], k)
       PROVE  saw'[n][k] # Undefined \/ (state'[n] = DIRTY /\ (~Updating(n)' \/ Reading(n, k)'))
  <2>1. CASE n = t BY <1>2, <1>11, <2>1, Empty
  <2>2. CASE n # t BY <1>2, <1>6, <1>9, <1>11, <2>2, SeenKept
  <2> QED BY <2>1, <2>2
<1> QED BY <1>10, <1>11 DEF SeenInv, MovedInv

\* updateIfNecessary returns: its node has seen its sources.
LEMMA PullDoneSeen ==
  ASSUME TypeOK, StackInv, QueueInv, SeenInv, MovedInv, PullDone
  PROVE  SeenInv' /\ MovedInv'
<1>0. PICK l : l = Len(stack) OBVIOUS
<1>1. PICK t : t = Top.node OBVIOUS
<1>2. /\ In("pull") /\ ~Idle /\ Top = stack[l] /\ l \in Nat \ {0} /\ Top.done \in BOOLEAN /\ t \in Nodes
      /\ Top.done \/ (state[t] # DIRTY /\ Top.left = <<>>)
      /\ stack' \in Seq(Frames) /\ Len(stack') = l - 1
      /\ \A i \in 1 .. l - 1 : stack'[i] = stack[i]
      /\ ~Idle' => l > 1 /\ Top' = stack[l - 1]
      /\ state'[t] = CLEAN /\ \A n \in Nodes \ {t} : state'[n] = state[n]
      /\ UNCHANGED <<calls, value, graph, pendingEffects, batchDepth, life, saw, history>>
  BY <1>0, <1>1, PullDoneIs
<1>3. Top.call = "pull" BY <1>2 DEF In
<1>4. \A i \in 1 .. Len(stack') : ~(i >= l) BY <1>2
<1>5. Len(stack') >= l - 1 BY <1>2
<1>6. \A n \in Reactions \ {t} :
           /\ Updating(n)' <=> Updating(n)
           /\ \A k \in Readable : Reading(n, k) => Reading(n, k)'
  BY <1>0, <1>1, <1>2, <1>3, <1>4, <1>5, TopMoves
<1>7. ~In("mark")'
  <2>1. ASSUME ~Idle' PROVE Top'.call # "mark"
    <3>1. l > 1 /\ Top' = stack[l - 1] BY <1>2, <2>1
    <3>2. l - 1 \in 1 .. Len(stack) - 1 /\ l - 1 + 1 = l BY <1>0, <1>2, <3>1
    <3>3. Over(stack[l], stack[l - 1]) BY <3>2 DEF StackInv
    <3> QED BY <3>1, <3>3 DEF Over
  <2> QED BY <2>1 DEF In
<1>8. \A n, c : ~Marked(n, c)' BY <1>7, NoMarks
<1>9. Reactions \subseteq Nodes /\ sources' = sources /\ saw' = saw /\ moved' = moved
  BY <1>2, NodeKinds DEF graph, history
<1>10. ASSUME NEW n \in Reactions PROVE (state'[n] = DIRTY \/ Marked(n, DIRTY)') => n \in moved' \/ Updating(n)'
  <2>1. CASE n = t BY <1>2, <1>8, <2>1 DEF CLEAN, DIRTY
  <2>2. CASE n # t BY <1>2, <1>6, <1>8, <1>9, <2>2, MovedKept
  <2> QED BY <2>1, <2>2
<1>11. ASSUME NEW n \in Reactions, NEW k \in Readable, Contains(sources'[n], k)
       PROVE  saw'[n][k] # Undefined \/ (state'[n] = DIRTY /\ (~Updating(n)' \/ Reading(n, k)'))
  <2>1. CASE n = t
    <3>1. saw[t][k] # Undefined \/ (state[t] = DIRTY /\ (~Updating(t) \/ Reading(t, k)))
      BY <1>9, <1>11, <2>1 DEF SeenInv
    <3>2. ASSUME state[t] = DIRTY, Reading(t, k) \/ ~Updating(t) PROVE FALSE
      <4>1. Top.done /\ l \in 1 .. Len(stack) BY <1>0, <1>2, <3>2
      <4>2. Updating(t) BY <1>1, <1>2, <1>3, <4>1 DEF Updating, IsPull
      <4>3. PICK i \in 1 .. Len(stack) : stack[i].call = "run" /\ stack[i].node = t
        BY <3>2, <4>2 DEF Reading
      <4>4. i \in Nat /\ i - 1 \in 1 .. Len(stack) - 1 /\ i - 1 \in 1 .. Len(stack)
            /\ stack[i - 1].call = "pull" /\ stack[i - 1].node = t
        BY <4>3, RunUnder
      <4>5. i - 1 = l BY <1>1, <1>2, <1>3, <4>1, <4>4, Alone
      <4> QED BY <1>0, <1>2, <4>4, <4>5
    <3> QED BY <1>9, <2>1, <3>1, <3>2
  <2>2. CASE n # t BY <1>2, <1>6, <1>9, <1>11, <2>2, SeenKept
  <2> QED BY <2>1, <2>2
<1> QED BY <1>10, <1>11 DEF SeenInv, MovedInv

\* An exception: whoever was running has not run to its end.
LEMMA RunThrowSeen ==
  ASSUME TypeOK, StackInv, QueueInv, SeenInv, MovedInv, RunThrow
  PROVE  SeenInv' /\ MovedInv'
<1>1. PICK ran : ran = {stack[i].node : i \in {j \in DOMAIN stack : stack[j].call = "run"}} OBVIOUS
<1>2. /\ Running("throw") /\ stack' = <<>> /\ moved' = moved \cup ran
      /\ UNCHANGED <<calls, value, state, graph, pendingEffects, batchDepth, life, saw>>
  BY <1>1 DEF RunThrow
<1>3. stack' \in Seq(Frames) /\ Len(stack') = 0 /\ Idle' BY <1>2, EmptySeq DEF Idle
<1>4. ~In("mark")' BY <1>3 DEF In
<1>5. \A n, c : ~Marked(n, c)' BY <1>4, NoMarks
<1>6. \A n : ~Updating(n)' BY <1>3 DEF Updating
<1>7. ASSUME NEW n \in Reactions, Updating(n) PROVE n \in ran
  <2>1. PICK i \in 1 .. Len(stack) : stack[i].call = "pull" /\ stack[i].node = n /\ stack[i].done
    BY <1>7 DEF Updating, IsPull
  <2>2. Top.call = "run" /\ ~Idle BY <1>2 DEF Running, In
  <2>3. Top = stack[Len(stack)] /\ Len(stack) \in Nat \ {0} BY <2>2, TopFacts
  <2>4. i # Len(stack) BY <2>1, <2>2, <2>3
  <2>5. i \in 1 .. Len(stack) - 1 /\ i + 1 \in 1 .. Len(stack) BY <2>1, <2>3, <2>4
  <2>6. Over(stack[i + 1], stack[i]) BY <2>5 DEF StackInv
  <2>7. stack[i + 1].call = "run" /\ stack[i + 1].node = n BY <2>1, <2>6 DEF Over
  <2>8. i + 1 \in DOMAIN stack
    <3>1. PICK s : s = stack OBVIOUS
    <3>2. s \in Seq(Frames) BY <3>1 DEF TypeOK
    <3>3. DOMAIN s = 1 .. Len(s) BY <3>2, LenProperties
    <3> QED BY <2>5, <3>1, <3>3
  <2> QED BY <1>1, <2>7, <2>8
<1>8. sources' = sources /\ saw' = saw /\ state' = state BY <1>2 DEF graph
<1>9. ASSUME NEW n \in Reactions
      PROVE  (state'[n] = DIRTY \/ Marked(n, DIRTY)') => n \in moved' \/ Updating(n)'
  BY <1>2, <1>5, <1>7, <1>8 DEF MovedInv
<1>10. SeenInv' BY <1>6, <1>8 DEF SeenInv
<1> QED BY <1>9, <1>10 DEF MovedInv

\* Every step keeps both.
LEMMA SeenKeeps ==
  ASSUME TypeOK, EdgesInv, StackInv, QueueInv, ColourInv(Computeds), SeenInv, MovedInv, Next
  PROVE  SeenInv' /\ MovedInv'
<1>1. CASE UserStep
  <2>1. Idle BY <1>1 DEF UserStep, Set, Read, CreateEffect, Dispose, BatchBegin, BatchEnd, Called
  <2> QED BY <1>1, <2>1, UserSeen
<1>2. CASE MarkStale BY <1>2, MarkStaleSeen
<1>3. CASE MarkDone \/ FlushDone BY <1>3, DoneSeen
<1>4. CASE FlushTake \/ FlushNext BY <1>4, FlushSeen
<1>5. CASE PullSource BY <1>5, PullSourceSeen
<1>6. CASE PullUpdate BY <1>6, PullUpdateSeen
<1>7. CASE PullDone BY <1>7, PullDoneSeen
<1>8. CASE RunRead
  <2>1. Running(IF TRUE THEN "read" ELSE "peek") /\ Reads(NextOp(Top).node, TRUE) BY <1>8 DEF RunRead
  <2> QED BY <2>1, ReadsSeen
<1>9. CASE RunPeek
  <2>1. Running(IF FALSE THEN "read" ELSE "peek") /\ Reads(NextOp(Top).node, FALSE) BY <1>9 DEF RunPeek
  <2> QED BY <2>1, ReadsSeen
<1>10. CASE RunGets BY <1>10, RunGetsSeen
<1>11. CASE RunWrite BY <1>11, RunWriteSeen
<1>12. CASE RunReturn BY <1>12, RunReturnSeen
<1>13. CASE RunThrow BY <1>13, RunThrowSeen
<1> QED BY <1>1, <1>2, <1>3, <1>4, <1>5, <1>6, <1>7, <1>8, <1>9, <1>10, <1>11, <1>12, <1>13 DEF Next

-----------------------------------------------------------------------------
(* The invariants of every behaviour.                                      *)

GraphInv ==
  TypeOK /\ EdgesInv /\ StackInv /\ QueueInv /\ ColourInv(Computeds) /\ SeenInv /\ MovedInv

\* At the start nothing is connected.
LEMMA InitTypes == Init => TypeOK /\ EdgesInv
<1> SUFFICES ASSUME Init PROVE TypeOK /\ EdgesInv OBVIOUS
<1>1. \A S : <<>> \in Seq(S) BY EmptySeq
<1>2. /\ value \in [Nodes -> Values \cup {Undefined}]
      /\ \A s \in Sigs : value[s] \in Values
      /\ state \in [Nodes -> Colours]
      /\ \A s \in Sigs : state[s] = CLEAN
  BY NodesAssumption, NodeKinds DEF Init, Colours
<1>3. sources \in [Nodes -> Seq(Readable)] /\ observers \in [Nodes -> Seq(Reactions)]
  BY <1>1 DEF Init
<1>4. saw \in [Reactions -> Seens] BY DEF Init, Unread, Seens
<1>5. /\ pendingEffects \in Seq(Effects) /\ batchDepth \in Nat /\ stack \in Seq(Frames)
      /\ life \in [Effects -> {"none", "live", "disposed"}]
      /\ moved \in SUBSET Reactions /\ lost \in SUBSET Effects
  BY <1>1 DEF Init
<1>6. \A n \in Nodes : sources[n] = <<>> /\ observers[n] = <<>> BY DEF Init
<1>7. Distinct(<<>>) BY EmptySeq DEF Distinct
<1>8. EdgesInv BY <1>6, <1>7, Empty, NodeKinds DEF EdgesInv
<1> QED BY <1>2, <1>3, <1>4, <1>5, <1>8 DEF TypeOK

\* At the start no computed and no effect has run.
LEMMA InitInv == Init => GraphInv /\ ColourInv(Reactions)
<1> SUFFICES ASSUME Init PROVE GraphInv /\ ColourInv(Reactions) OBVIOUS
<1>1. TypeOK /\ EdgesInv BY InitTypes
<1>2. stack = <<>> /\ Len(stack) = 0 /\ Idle /\ ~In("mark") /\ ~In("run")
  BY EmptySeq DEF Init, Idle, In
<1>3. StackInv BY <1>2 DEF StackInv
<1>4. /\ pendingEffects = <<>> /\ Len(pendingEffects) = 0
      /\ \A n \in Reactions : state[n] = DIRTY /\ sources[n] = <<>> /\ n \in moved
      /\ \A e \in Effects : life[e] = "none"
  BY EmptySeq, NodeKinds DEF Init
<1>5. \A e : ~Waits(e) /\ ~Pulled(e) BY <1>2, <1>4, Empty DEF Waits, Pulled
<1>6. PlacesInv BY <1>2, <1>4, <1>5 DEF PlacesInv, Distinct
<1>7. LifeInv BY <1>2, <1>4, <1>5, NodeKinds DEF LifeInv
<1>8. QueueInv BY <1>2, <1>6, <1>7 DEF QueueInv, RunsDirty
<1>9. \A n \in Reactions : NodeOK(n) BY <1>4 DEF NodeOK, DIRTY, CLEAN
<1>10. ReadInv BY <1>2 DEF ReadInv
<1>11. ColourInv(Reactions) /\ ColourInv(Computeds) BY <1>2, <1>9, <1>10, NodeKinds DEF ColourInv
<1>12. SeenInv BY <1>4, Empty DEF SeenInv
<1>13. MovedInv BY <1>4 DEF MovedInv
<1> QED BY <1>1, <1>3, <1>8, <1>11, <1>12, <1>13 DEF GraphInv

\* A stuttering step leaves the stack.
LEMMA SameTop ==
  ASSUME UNCHANGED vars
  PROVE  /\ Top' = Top /\ stack' = stack /\ (Idle' <=> Idle)
         /\ \A c : In(c)' <=> In(c)
         /\ \A n, c : Marked(n, c)' <=> Marked(n, c)
         /\ \A n, i : IsPull(n, i)' <=> IsPull(n, i)
<1>1. stack' = stack BY DEF vars
<1>2. Top' = Top BY <1>1 DEF Top
<1>3. Idle' <=> Idle BY <1>1 DEF Idle
<1>4. \A c : In(c)' <=> In(c) BY <1>2, <1>3 DEF In
<1>5. \A n, c : Marked(n, c)' <=> Marked(n, c) BY <1>2, <1>4 DEF Marked
<1>6. \A n, i : IsPull(n, i)' <=> IsPull(n, i) BY <1>1 DEF IsPull
<1> QED BY <1>1, <1>2, <1>3, <1>4, <1>5, <1>6

\* It leaves what the colours claim.
LEMMA SameColour ==
  ASSUME NEW K, ColourInv(K), UNCHANGED vars
  PROVE  ColourInv(K)'
<1>1. /\ \A n : Marked(n, CHECK)' <=> Marked(n, CHECK)
      /\ \A n : Marked(n, DIRTY)' <=> Marked(n, DIRTY)
      /\ \A n, i : IsPull(n, i)' <=> IsPull(n, i)
  BY SameTop
<1>2. \A n : NodeOK(n) => NodeOK(n)'
  BY <1>1 DEF NodeOK, Ran, Agrees, SourcesClean, Disposed, Tracked, MaybeMarked, vars, graph, history
<1>3. \A i : RunOK(i) => RunOK(i)'
  BY <1>1 DEF RunOK, SourceRead, ComputedRun, Tracked, MaybeMarked, vars, graph, history
<1>4. \A i : PullOK(i) => PullOK(i)'
  BY <1>1 DEF PullOK, Checked, Ran, Agrees, SourcesClean, Tracked, vars, graph, history
<1>5. ReadInv' BY SameTop DEF ColourInv, ReadInv, vars
<1> QED BY <1>2, <1>3, <1>4, <1>5 DEF ColourInv, vars

\* It leaves all the invariants.
LEMMA SameInv ==
  ASSUME GraphInv, UNCHANGED vars
  PROVE  GraphInv'
<1>1. TypeOK' BY DEF GraphInv, TypeOK, vars, graph, history
<1>2. EdgesInv' BY DEF GraphInv, EdgesInv, vars, graph
<1>3. StackInv' BY DEF GraphInv, StackInv, Idle, vars
<1>4. \A n, i : Taken(n, i)' <=> Taken(n, i) BY DEF vars, Taken
<1>5. \A n, i : IsPull(n, i)' <=> IsPull(n, i) BY DEF vars, IsPull
<1>6. \A n : Waits(n)' <=> Waits(n) BY <1>4 DEF vars, Waits
<1>7. \A n : Pulled(n)' <=> Pulled(n) BY <1>5 DEF vars, Pulled
<1>8. PlacesInv' BY <1>4, <1>5, <1>6, <1>7 DEF GraphInv, QueueInv, PlacesInv, vars
<1>9. LifeInv' BY <1>6, <1>7, SameTop DEF GraphInv, QueueInv, LifeInv, vars, graph
<1>10. RunsDirty' BY DEF GraphInv, QueueInv, RunsDirty, vars
<1>11. ColourInv(Computeds)' BY SameColour DEF GraphInv
<1>12. \A n : Updating(n)' <=> Updating(n) BY <1>5 DEF vars, Updating
<1>13. \A n, m : Reading(n, m)' <=> Reading(n, m) BY DEF vars, Reading
<1>14. \A n : Marked(n, DIRTY)' <=> Marked(n, DIRTY) BY SameTop
<1>15. SeenInv' BY <1>12, <1>13 DEF GraphInv, SeenInv, vars, graph
<1>16. MovedInv' BY <1>12, <1>14 DEF GraphInv, MovedInv, vars, history
<1> QED BY <1>1, <1>2, <1>3, <1>8, <1>9, <1>10, <1>11, <1>15, <1>16 DEF GraphInv, QueueInv

\* Every step keeps the invariants; a computed is never running when something is marked.
LEMMA NextInv ==
  ASSUME GraphInv, Next
  PROVE  GraphInv'
<1>1. TypeOK /\ EdgesInv /\ StackInv /\ QueueInv /\ ColourInv(Computeds) /\ SeenInv /\ MovedInv
  BY DEF GraphInv
<1>2. TypeOK' /\ EdgesInv' BY <1>1, TypeKeeps
<1>3. StackInv' BY <1>1, StackKeeps
<1>4. QueueInv' BY <1>1, QueueKeeps
<1>5. ColourInv(Computeds)'
  <2>1. Computeds = Reactions => NoneMarkedRunning
    <3>1. ASSUME Computeds = Reactions, NEW i \in 1 .. Len(stack), In("mark"), Top.left # <<>>,
                 stack[i].call = "run"
          PROVE  FALSE
      <4>1. Pure(stack[i]) BY <1>1, <3>1, FrameTypes, NodeKinds DEF Pure
      <4>2. ~Idle /\ ~Pure(Top) BY <3>1 DEF In, Pure
      <4> QED BY <1>1, <4>1, <4>2, NothingPure
    <3> QED BY <3>1 DEF NoneMarkedRunning
  <2> QED BY <1>1, <2>1, ColourKeeps
<1>6. SeenInv' /\ MovedInv' BY <1>1, SeenKeeps
<1> QED BY <1>2, <1>3, <1>4, <1>5, <1>6 DEF GraphInv

\* Theorem.  The invariants hold of every behaviour: the edges are there in both directions
\* (get, update, dispose), the calls in progress go down the graph, each effect is in one place
\* (markStale, flush), and a CLEAN or CHECK computed holds what its function returned for the
\* values it read (markStale, updateIfNecessary, update).
THEOREM GraphHolds == Spec => []GraphInv
<1>1. Init => GraphInv BY InitInv
<1>2. GraphInv /\ [Next]_vars => GraphInv' BY NextInv, SameInv
<1> QED BY <1>1, <1>2, PTL DEF Spec

\* Theorem.  What an effect that is CLEAN has read is current, when no function is marked by what
\* it did while it runs (markStale returns at once from a node that is DIRTY, as a running one is).
THEOREM EffectsHold == Spec /\ []NoneMarkedRunning => []ColourInv(Reactions)
<1>1. Init => ColourInv(Reactions) BY InitInv
<1>2. GraphInv /\ NoneMarkedRunning /\ ColourInv(Reactions) /\ [Next]_vars => ColourInv(Reactions)'
  <2>1. ASSUME GraphInv, NoneMarkedRunning, ColourInv(Reactions), Next PROVE ColourInv(Reactions)'
    BY <2>1, ColourKeeps DEF GraphInv
  <2>2. ASSUME ColourInv(Reactions), UNCHANGED vars PROVE ColourInv(Reactions)' BY <2>2, SameColour
  <2> QED BY <2>1, <2>2
<1> QED BY <1>1, <1>2, GraphHolds, PTL DEF Spec

-----------------------------------------------------------------------------
(* What a node is worth.                                                   *)

\* How many nodes can be read.
LEMMA Count == IsFiniteSet(Readable) /\ Cardinality(Readable) \in Nat
<1>1. Readable \in SUBSET Nodes BY NodeKinds
<1>2. IsFiniteSet(Readable) BY <1>1, NodesAssumption, FS_Subset
<1> QED BY <1>2, FS_CardinalityType

\* What the function of a computed does next.
LEMMA NextIs ==
  ASSUME NEW n \in Computeds, NEW s \in Seens
  PROVE  LET next == Body(n, s, FALSE)
         IN  \/ /\ next.op = "read" /\ next.node \in Readable
                /\ s[next.node] = Undefined /\ Depth(next.node) < Depth(n)
             \/ next.op = "return" /\ next.to \in Values
             \/ next.op = "throw"
<1>1. PICK next : next = Body(n, s, FALSE) OBVIOUS
<1>2. n \in Reactions /\ n \notin Effects BY NodeKinds
<1>3. /\ s \in [Readable -> Values \cup {Undefined}]
      /\ FALSE \in BOOLEAN
  BY DEF Seens
<1>4. \/ /\ next.op \in IF n \in Computeds THEN {"read"} ELSE {"read", "peek"}
         /\ next.node \in Readable
         /\ n \in Computeds => s[next.node] = Undefined /\ Depth(next.node) < Depth(n)
      \/ n \in Effects /\ next.op = "write" /\ next.node \in Sigs /\ next.to \in Values
      \/ next.op = "return" /\ (n \in Computeds => next.to \in Values)
      \/ next.op = "throw"
  BY <1>1, <1>2, <1>3, BodyAssumption
<1>5. \/ /\ next.op = "read" /\ next.node \in Readable
         /\ s[next.node] = Undefined /\ Depth(next.node) < Depth(n)
      \/ next.op = "return" /\ next.to \in Values
      \/ next.op = "throw"
  BY <1>2, <1>4
<1> QED BY <1>1, <1>5

\* What was shown, and what a read of m shows.
With(s, m, w) == [s EXCEPT ![m] = w[m]]

\* What a computed may read is a value, or that of a computed that throws.
Below(n, w) == \A m \in Readable : Depth(m) < Depth(n) => w[m] \in Values \cup {Undefined}

\* Every state of the nodes is one that a computed may read.
LEMMA SeenBelow ==
  ASSUME NEW w \in Seens
  PROVE  \A n : Below(n, w)
BY DEF Seens, Below

\* One more read.
LEMMA AfterIs ==
  ASSUME NEW n \in Computeds, NEW s \in Seens, NEW w, Below(n, w)
  PROVE  /\ After(n, s, w) \in Seens
         /\ \/ After(n, s, w) = s
            \/ \E m \in Readable : /\ Body(n, s, FALSE).op = "read" /\ Body(n, s, FALSE).node = m
                                   /\ s[m] = Undefined /\ w[m] # Undefined
                                   /\ After(n, s, w) = With(s, m, w)
<1>1. PICK next : next = Body(n, s, FALSE) OBVIOUS
<1>2. After(n, s, w) = IF next.op = "read" /\ w[next.node] # Undefined
                       THEN [s EXCEPT ![next.node] = w[next.node]] ELSE s
  BY <1>1 DEF After
<1>3. CASE next.op = "read" /\ w[next.node] # Undefined
  <2>1. next.node \in Readable /\ s[next.node] = Undefined /\ Depth(next.node) < Depth(n)
    <3>1. "read" # "return" /\ "read" # "throw" OBVIOUS
    <3> QED BY <1>1, <1>3, <3>1, NextIs
  <2>2. w[next.node] \in Values \cup {Undefined} BY <2>1 DEF Below
  <2>3. [s EXCEPT ![next.node] = w[next.node]] \in Seens BY <2>2 DEF Seens
  <2>4. After(n, s, w) = With(s, next.node, w) BY <1>2, <1>3 DEF With
  <2>5. After(n, s, w) \in Seens BY <2>3, <2>4 DEF With
  <2> QED BY <1>1, <1>3, <2>1, <2>4, <2>5
<1>4. CASE ~(next.op = "read" /\ w[next.node] # Undefined) BY <1>2, <1>4
<1> QED BY <1>3, <1>4

\* What the reads of a computed show it, one by one.
Shown(n, w, f) ==
  /\ f \in [0 .. Cardinality(Readable) -> Seens]
  /\ f[0] = Unread
  /\ \A i \in 0 .. Cardinality(Readable) - 1 : f[i + 1] = After(n, f[i], w)

\* Having read nothing is a state of what was read.
LEMMA UnreadSeen == Unread \in Seens
BY DEF Unread, Seens

\* The reads of a computed follow one another.
LEMMA ShownExists ==
  ASSUME NEW n \in Computeds, NEW w, Below(n, w), NEW N \in Nat
  PROVE  \E f \in [0 .. N -> Seens] :
           f = [i \in 0 .. N |-> IF i = 0 THEN Unread ELSE After(n, f[i - 1], w)]
<1> DEFINE Q(k) == \E f \in [0 .. k -> Seens] :
                     f = [i \in 0 .. k |-> IF i = 0 THEN Unread ELSE After(n, f[i - 1], w)]
           T == {k \in Nat : Q(k)}
<1>1. 0 \in T
  <2> DEFINE f == [i \in 0 .. 0 |-> Unread]
  <2>1. f \in [0 .. 0 -> Seens] BY UnreadSeen
  <2>2. \A i \in 0 .. 0 : i = 0 OBVIOUS
  <2>3. f = [i \in 0 .. 0 |-> IF i = 0 THEN Unread ELSE After(n, f[i - 1], w)] BY <2>2
  <2> HIDE DEF f
  <2>4. Q(0) BY <2>1, <2>3
  <2> QED BY <2>4
<1>2. ASSUME NEW k \in T PROVE k + 1 \in T
  <2>1. k \in Nat /\ k + 1 \in Nat /\ k \in 0 .. k OBVIOUS
  <2>2. PICK f \in [0 .. k -> Seens] :
          f = [i \in 0 .. k |-> IF i = 0 THEN Unread ELSE After(n, f[i - 1], w)]
    BY <1>2
  <2>3. After(n, f[k], w) \in Seens BY <2>1, AfterIs
  <2> DEFINE g == [i \in 0 .. k + 1 |-> IF i = k + 1 THEN After(n, f[k], w) ELSE f[i]]
  <2>4. \A i \in 0 .. k + 1 : i \in 0 .. k \/ i = k + 1 BY <2>1
  <2>5. g \in [0 .. k + 1 -> Seens] BY <2>3, <2>4
  <2>6. ASSUME NEW i \in 0 .. k + 1
        PROVE  g[i] = IF i = 0 THEN Unread ELSE After(n, g[i - 1], w)
    <3>1. CASE i = k + 1
      <4>1. i # 0 /\ i - 1 = k /\ k \in 0 .. k + 1 /\ k # k + 1 BY <2>1, <3>1
      <4>2. g[k] = f[k] BY <4>1
      <4>3. g[i] = After(n, f[k], w) BY <3>1
      <4> QED BY <4>1, <4>2, <4>3
    <3>2. CASE i # k + 1
      <4>1. i \in 0 .. k BY <2>4, <3>2
      <4>2. g[i] = f[i] BY <3>2
      <4>3. f[i] = IF i = 0 THEN Unread ELSE After(n, f[i - 1], w) BY <2>2, <4>1
      <4>4. i # 0 => i - 1 \in 0 .. k + 1 /\ i - 1 # k + 1 BY <2>1, <4>1
      <4>5. i # 0 => g[i - 1] = f[i - 1] BY <4>4
      <4> HIDE DEF g
      <4> QED BY <4>2, <4>3, <4>5
    <3> QED BY <3>1, <3>2
  <2>7. g = [i \in 0 .. k + 1 |-> g[i]] OBVIOUS
  <2> HIDE DEF g
  <2>8. g = [i \in 0 .. k + 1 |-> IF i = 0 THEN Unread ELSE After(n, g[i - 1], w)]
    <3> DEFINE h == [i \in 0 .. k + 1 |-> IF i = 0 THEN Unread ELSE After(n, g[i - 1], w)]
    <3>1. \A i \in 0 .. k + 1 : g[i] = h[i] BY <2>6
    <3>2. h = [i \in 0 .. k + 1 |-> h[i]] OBVIOUS
    <3> HIDE DEF h
    <3>3. g = h BY <2>7, <3>1, <3>2
    <3> QED BY <3>3 DEF h
  <2>9. Q(k + 1) BY <2>5, <2>8
  <2> QED BY <2>1, <2>9
<1> HIDE DEF Q
<1>3. T \in SUBSET Nat OBVIOUS
<1>4. T = Nat BY <1>1, <1>2, <1>3, Upwards
<1>5. Q(N) BY <1>4
<1> QED BY <1>5 DEF Q

\* An outcome is a value or an exception, and comes after all the reads.
LEMMA OutcomeIs ==
  ASSUME NEW n \in Computeds, NEW w, Below(n, w)
  PROVE  /\ Outcome(n, w) \in Values \cup {Undefined}
         /\ \E f : /\ Shown(n, w, f)
                   /\ LET last == Body(n, f[Cardinality(Readable)], FALSE)
                      IN  Outcome(n, w) = IF last.op = "return" THEN last.to ELSE Undefined
<1> DEFINE N == Cardinality(Readable)
           seen[i \in 0 .. Cardinality(Readable)] == IF i = 0 THEN Unread ELSE After(n, seen[i - 1], w)
           last == Body(n, seen[Cardinality(Readable)], FALSE)
<1>1. Outcome(n, w) = IF last.op = "return" THEN last.to ELSE Undefined BY DEF Outcome
<1>2. N \in Nat BY Count
<1>3. PICK g \in [0 .. N -> Seens] :
        g = [i \in 0 .. N |-> IF i = 0 THEN Unread ELSE After(n, g[i - 1], w)]
  <2> HIDE DEF N
  <2> QED BY <1>2, ShownExists
<1>4. seen = [i \in 0 .. N |-> IF i = 0 THEN Unread ELSE After(n, seen[i - 1], w)]
  <2>1. \E h : h = [i \in 0 .. Cardinality(Readable) |-> IF i = 0 THEN Unread ELSE After(n, h[i - 1], w)]
    BY <1>3
  <2> QED BY <2>1
<1> HIDE DEF N, seen
<1>5. \A k \in Nat : k <= N => seen[k] \in Seens
  <2> DEFINE T == {k \in Nat : k <= N => seen[k] \in Seens}
  <2>1. 0 \in T BY <1>2, <1>4, UnreadSeen
  <2>2. ASSUME NEW k \in T PROVE k + 1 \in T
    <3>1. CASE k + 1 <= N
      <4>0. PICK j : j = k + 1 OBVIOUS
      <4>1. j \in 0 .. N /\ j # 0 /\ j - 1 = k /\ k <= N BY <1>2, <3>1, <4>0
      <4>2. seen[j] = After(n, seen[j - 1], w) BY <1>4, <4>1
      <4>3. seen[k] \in Seens BY <4>1
      <4>4. After(n, seen[k], w) \in Seens BY <4>3, AfterIs
      <4>5. seen[j - 1] = seen[k] BY <4>1
      <4>6. seen[j] \in Seens BY <4>2, <4>4, <4>5
      <4> QED BY <4>0, <4>6
    <3>2. CASE ~(k + 1 <= N) BY <3>2
    <3> QED BY <3>1, <3>2
  <2>3. T \in SUBSET Nat OBVIOUS
  <2> HIDE DEF T
  <2>4. T = Nat BY <2>1, <2>2, <2>3, Upwards
  <2> QED BY <2>4 DEF T
<1>6. seen \in [0 .. N -> Seens]
  <2>1. \A i \in 0 .. N : seen[i] \in Seens BY <1>2, <1>5
  <2>2. seen = [i \in 0 .. N |-> seen[i]] BY <1>4
  <2> QED BY <2>1, <2>2
<1>7. seen[0] = Unread BY <1>2, <1>4
<1>8. ASSUME NEW i \in 0 .. N - 1 PROVE seen[i + 1] = After(n, seen[i], w)
  <2>1. PICK j : j = i + 1 OBVIOUS
  <2>2. j \in 0 .. N /\ j # 0 /\ j - 1 = i BY <1>2, <2>1
  <2>3. seen[j] = After(n, seen[j - 1], w) BY <1>4, <2>2
  <2> QED BY <2>1, <2>2, <2>3
<1>9. Shown(n, w, seen) BY <1>6, <1>7, <1>8 DEF Shown, N
<1>10. last.op = "return" => last.to \in Values
  <2>1. N \in 0 .. N BY <1>2
  <2>2. seen[N] \in Seens BY <1>6, <2>1
  <2>3. "read" # "return" /\ "throw" # "return" OBVIOUS
  <2> QED BY <2>2, <2>3, NextIs DEF N
<1> QED BY <1>1, <1>9, <1>10

\* A read that shows something shows a node not read before.
LEMMA AfterMoves ==
  ASSUME NEW n \in Computeds, NEW s \in Seens, NEW w, Below(n, w), After(n, s, w) # s
  PROVE  \E m \in Readable : /\ Body(n, s, FALSE).op = "read" /\ Body(n, s, FALSE).node = m
                             /\ s[m] = Undefined /\ w[m] # Undefined
                             /\ After(n, s, w) = With(s, m, w)
BY AfterIs

Shows(s) == {m \in Readable : s[m] # Undefined}

\* Each read that shows something shows a new node, so the reads come to an end.
LEMMA ShownEnds ==
  ASSUME NEW n \in Computeds, NEW w, Below(n, w), NEW f, Shown(n, w, f)
  PROVE  After(n, f[Cardinality(Readable)], w) = f[Cardinality(Readable)]
<1> DEFINE P(k) == After(n, f[k], w) = f[k] \/ Cardinality(Shows(f[k])) = k
           T == {k \in Nat : k <= Cardinality(Readable) => P(k)}
<1>0. PICK N : N = Cardinality(Readable) OBVIOUS
<1>1. N \in Nat BY <1>0, Count
<1>2. f \in [0 .. N -> Seens] /\ f[0] = Unread /\ \A i \in 0 .. N - 1 : f[i + 1] = After(n, f[i], w)
  BY <1>0 DEF Shown
<1>3. 0 \in T
  <2>1. Shows(Unread) = {} BY DEF Shows, Unread
  <2> QED BY <1>2, <2>1, FS_EmptySet
<1>4. ASSUME NEW k \in T PROVE k + 1 \in T
  <2>0. PICK j : j = k + 1 OBVIOUS
  <2>1. CASE j <= N
    <3>1. k \in 0 .. N - 1 /\ k \in 0 .. N /\ k <= N /\ j \in 0 .. N /\ k \in Nat BY <1>1, <2>0, <2>1
    <3>2. f[k] \in Seens /\ f[j] \in Seens /\ f[j] = After(n, f[k], w) BY <1>2, <2>0, <3>1
    <3>3. P(k) BY <1>0, <3>1
    <3>4. CASE After(n, f[k], w) = f[k] BY <2>0, <3>2, <3>4
    <3>5. CASE After(n, f[k], w) # f[k]
      <4>1. Cardinality(Shows(f[k])) = k BY <3>3, <3>5
      <4>2. PICK m \in Readable : /\ f[k][m] = Undefined /\ w[m] # Undefined
                                  /\ f[j] = With(f[k], m, w)
        <5>1. PICK s : s = f[k] OBVIOUS
        <5>2. s \in Seens /\ After(n, s, w) # s BY <3>2, <3>5, <5>1
        <5>3. PICK m \in Readable : /\ s[m] = Undefined /\ w[m] # Undefined
                                    /\ After(n, s, w) = With(s, m, w)
          BY <5>2, AfterMoves
        <5> QED BY <3>2, <5>1, <5>3
      <4>3. Shows(f[j]) = Shows(f[k]) \cup {m} /\ m \notin Shows(f[k])
        BY <3>2, <4>2 DEF Shows, Seens, With
      <4>4. IsFiniteSet(Shows(f[k])) BY Count, FS_Subset DEF Shows
      <4>5. Cardinality(Shows(f[k]) \cup {m}) = Cardinality(Shows(f[k])) + 1
        BY <4>3, <4>4, FS_AddElement
      <4>6. Cardinality(Shows(f[j])) = k + 1 BY <4>1, <4>3, <4>5
      <4> QED BY <2>0, <3>1, <4>6
    <3> QED BY <3>4, <3>5
  <2>2. CASE ~(j <= N) BY <1>0, <2>0, <2>2
  <2> QED BY <2>1, <2>2
<1>5. T \in SUBSET Nat OBVIOUS
<1> HIDE DEF P, T
<1>6. T = Nat BY <1>3, <1>4, <1>5, Upwards
<1>7. P(N) BY <1>0, <1>1, <1>6 DEF T
<1>8. CASE Cardinality(Shows(f[N])) = N
  <2>1. Shows(f[N]) \in SUBSET Readable BY DEF Shows
  <2>2. Shows(f[N]) = Readable BY <1>0, <1>8, <2>1, Count, FS_Subset
  <2>3. \A m \in Readable : f[N][m] # Undefined BY <2>2 DEF Shows
  <2>4. PICK s : s = f[N] OBVIOUS
  <2>5. s \in Seens BY <1>1, <1>2, <2>4
  <2>6. \A m \in Readable : s[m] # Undefined BY <2>3, <2>4
  <2>7. After(n, s, w) = s
    <3> SUFFICES ASSUME After(n, s, w) # s PROVE FALSE OBVIOUS
    <3>1. \E m \in Readable : s[m] = Undefined BY <2>5, AfterMoves
    <3> QED BY <2>6, <3>1
  <2> QED BY <1>0, <2>4, <2>7
<1> QED BY <1>0, <1>7, <1>8 DEF P

\* A computed that read nodes at their worth, and returned, returned its outcome.
LEMMA OutcomeReached ==
  ASSUME NEW n \in Computeds, NEW w, Below(n, w), NEW s \in Seens, Reached(n, s),
         \A m \in Readable : s[m] # Undefined => s[m] = w[m],
         Body(n, s, FALSE).op = "return"
  PROVE  Outcome(n, w) = Body(n, s, FALSE).to
<1>0. PICK N : N = Cardinality(Readable) OBVIOUS
<1>1. N \in Nat BY <1>0, Count
<1>2. PICK f : /\ Shown(n, w, f)
               /\ Outcome(n, w) = IF Body(n, f[N], FALSE).op = "return"
                                  THEN Body(n, f[N], FALSE).to ELSE Undefined
  BY <1>0, OutcomeIs
<1>3. f \in [0 .. N -> Seens] /\ f[0] = Unread /\ \A i \in 0 .. N - 1 : f[i + 1] = After(n, f[i], w)
  BY <1>0, <1>2 DEF Shown
<1> DEFINE T == {f[i] : i \in 0 .. N}
<1>4. T \in SUBSET Seens /\ Unread \in T
  <2>1. 0 \in 0 .. N BY <1>1
  <2> QED BY <1>3, <2>1
<1>5. ASSUME NEW t \in T PROVE After(n, t, s) \in T
  <2>1. PICK i \in 0 .. N : t = f[i] OBVIOUS
  <2>2. t \in Seens BY <1>4
  <2>3. CASE After(n, t, s) = t BY <2>1, <2>3
  <2>4. CASE After(n, t, s) # t
    <3>1. PICK m \in Readable : /\ Body(n, t, FALSE).op = "read" /\ Body(n, t, FALSE).node = m
                                /\ s[m] # Undefined /\ After(n, t, s) = With(t, m, s)
      <4>1. PICK r : r = t OBVIOUS
      <4>2. r \in Seens /\ After(n, r, s) # r BY <2>2, <2>4, <4>1
      <4>0. Below(n, s) BY SeenBelow
      <4>3. PICK m \in Readable : /\ Body(n, r, FALSE).op = "read" /\ Body(n, r, FALSE).node = m
                                  /\ s[m] # Undefined /\ After(n, r, s) = With(r, m, s)
        BY <4>0, <4>2, AfterMoves
      <4> HIDE DEF T
      <4> QED BY <4>1, <4>3
    <3>2. s[m] = w[m] BY <3>1
    <3>3. After(n, t, w) = With(t, m, w) BY <3>1, <3>2 DEF After, With
    <3>4. After(n, t, s) = After(n, f[i], w) BY <2>1, <3>1, <3>2, <3>3 DEF With
    <3>5. CASE i = N
      <4>1. After(n, f[N], w) = f[N] BY <1>0, <1>2, ShownEnds
      <4> QED BY <2>1, <3>4, <3>5, <4>1
    <3>6. CASE i # N
      <4>1. i \in 0 .. N - 1 /\ i + 1 \in 0 .. N BY <1>1, <3>6
      <4> QED BY <1>3, <3>4, <4>1
    <3> QED BY <3>5, <3>6
  <2> QED BY <2>3, <2>4
<1>6. s \in T
  <2> HIDE DEF T
  <2> QED BY <1>4, <1>5 DEF Reached
<1>7. PICK j \in 0 .. N : s = f[j] BY <1>6
<1>8. After(n, s, w) = s
  <2>1. "return" # "read" OBVIOUS
  <2> QED BY <2>1 DEF After
<1>9. f[N] = s
  <2> DEFINE U == {k \in Nat : j + k <= N => f[j + k] = s}
  <2>1. 0 \in U
    <3>1. j + 0 = j BY <1>1
    <3> QED BY <1>7, <3>1
  <2>2. ASSUME NEW k \in U PROVE k + 1 \in U
    <3>1. PICK i : i = j + k OBVIOUS
    <3>2. i \in Nat /\ j + (k + 1) = i + 1 BY <1>1, <3>1
    <3>3. CASE i + 1 <= N
      <4>1. i \in 0 .. N - 1 /\ i <= N BY <1>1, <3>2, <3>3
      <4>2. f[i] = s BY <3>1, <4>1
      <4>3. f[i + 1] = s BY <1>3, <1>8, <4>1, <4>2
      <4> QED BY <3>2, <4>3
    <3>4. CASE ~(i + 1 <= N) BY <3>2, <3>4
    <3> QED BY <3>3, <3>4
  <2>3. U \in SUBSET Nat OBVIOUS
  <2> HIDE DEF U
  <2>4. U = Nat BY <2>1, <2>2, <2>3, Upwards
  <2>5. N - j \in U /\ j + (N - j) = N BY <1>1, <2>4
  <2> QED BY <1>1, <2>5 DEF U
<1> QED BY <1>2, <1>9

\* An outcome depends on what lies below the node alone.
LEMMA OutcomeDepends ==
  ASSUME NEW n \in Computeds, NEW w, Below(n, w), NEW v, Below(n, v),
         \A m \in Readable : Depth(m) < Depth(n) => w[m] = v[m]
  PROVE  Outcome(n, w) = Outcome(n, v)
<1>0. PICK N : N = Cardinality(Readable) OBVIOUS
<1>1. N \in Nat BY <1>0, Count
<1>2. PICK f : /\ Shown(n, w, f)
               /\ Outcome(n, w) = IF Body(n, f[N], FALSE).op = "return"
                                  THEN Body(n, f[N], FALSE).to ELSE Undefined
  BY <1>0, OutcomeIs
<1>3. PICK g : /\ Shown(n, v, g)
               /\ Outcome(n, v) = IF Body(n, g[N], FALSE).op = "return"
                                  THEN Body(n, g[N], FALSE).to ELSE Undefined
  BY <1>0, OutcomeIs
<1>4. f \in [0 .. N -> Seens] /\ f[0] = Unread /\ \A i \in 0 .. N - 1 : f[i + 1] = After(n, f[i], w)
  BY <1>0, <1>2 DEF Shown
<1>5. g \in [0 .. N -> Seens] /\ g[0] = Unread /\ \A i \in 0 .. N - 1 : g[i + 1] = After(n, g[i], v)
  BY <1>0, <1>3 DEF Shown
<1>6. ASSUME NEW s \in Seens PROVE After(n, s, w) = After(n, s, v)
  <2>1. PICK next : next = Body(n, s, FALSE) OBVIOUS
  <2>2. "return" # "read" /\ "throw" # "read" OBVIOUS
  <2>3. next.op = "read" => w[next.node] = v[next.node] BY <2>1, <2>2, NextIs
  <2> QED BY <2>1, <2>3 DEF After
<1> DEFINE T == {k \in Nat : k <= N => f[k] = g[k]}
<1>7. 0 \in T BY <1>4, <1>5
<1>8. ASSUME NEW k \in T PROVE k + 1 \in T
  <2>1. CASE k + 1 <= N
    <3>1. k \in 0 .. N - 1 /\ k \in 0 .. N /\ k <= N BY <1>1, <2>1
    <3>2. f[k] = g[k] /\ f[k] \in Seens BY <1>4, <3>1
    <3>3. f[k + 1] = g[k + 1] BY <1>4, <1>5, <1>6, <3>1, <3>2
    <3> QED BY <3>3
  <2>2. CASE ~(k + 1 <= N) BY <2>2
  <2> QED BY <2>1, <2>2
<1>9. T \in SUBSET Nat OBVIOUS
<1> HIDE DEF T
<1>10. T = Nat BY <1>7, <1>8, <1>9, Upwards
<1>11. f[N] = g[N] BY <1>1, <1>10 DEF T
<1> QED BY <1>2, <1>3, <1>11

\* What a node is worth, given what the others are.
Worthy(n, val, w) == IF n \in Sigs THEN val[n] ELSE Outcome(n, w)

\* No node is deeper than some number.
LEMMA Deepest == \E d \in Nat : \A n \in Readable : Depth(n) < d
<1>1. IsFiniteSet(Readable) /\ Cardinality(Readable) \in Nat BY Count
<1>2. PICK N \in Nat : ExistsBijection(1 .. N, Readable) BY <1>1, FS_CardinalityType
<1>3. PICK g : g \in [1 .. N -> Readable] /\ \A n \in Readable : \E i \in 1 .. N : g[i] = n
  BY <1>2 DEF ExistsBijection, Bijection, Surjection
<1> DEFINE Q(k) == \E d \in Nat : \A i \in 1 .. N : i <= k => Depth(g[i]) < d
           T == {k \in Nat : Q(k)}
<1>4. 0 \in T
  <2>1. \A i \in 1 .. N : ~(i <= 0) OBVIOUS
  <2>2. Q(0) BY <2>1
  <2> QED BY <2>2
<1>5. ASSUME NEW k \in T PROVE k + 1 \in T
  <2>1. k \in Nat /\ Q(k) OBVIOUS
  <2>2. PICK d \in Nat : \A i \in 1 .. N : i <= k => Depth(g[i]) < d BY <2>1
  <2>3. CASE k + 1 \in 1 .. N
    <3>1. PICK e : e = Depth(g[k + 1]) OBVIOUS
    <3>2. e \in Nat BY <1>3, <2>3, <3>1, NodeKinds
    <3>3. d + e + 1 \in Nat BY <3>2
    <3>4. ASSUME NEW i \in 1 .. N, i <= k + 1 PROVE Depth(g[i]) < d + e + 1
      <4>1. CASE i = k + 1 BY <3>1, <3>2, <4>1
      <4>2. CASE i # k + 1
        <5>1. i <= k BY <2>1, <3>4, <4>2
        <5>2. Depth(g[i]) < d /\ Depth(g[i]) \in Nat BY <1>3, <2>2, <5>1, NodeKinds
        <5> QED BY <3>2, <5>2
      <4> QED BY <4>1, <4>2
    <3>5. Q(k + 1) BY <3>3, <3>4
    <3> QED BY <2>1, <3>5
  <2>4. CASE k + 1 \notin 1 .. N
    <3>1. \A i \in 1 .. N : i <= k + 1 => i <= k BY <2>1, <2>4
    <3>2. Q(k + 1) BY <2>2, <3>1
    <3> QED BY <2>1, <3>2
  <2> QED BY <2>3, <2>4
<1> HIDE DEF Q
<1>6. T \in SUBSET Nat OBVIOUS
<1>7. T = Nat BY <1>4, <1>5, <1>6, Upwards
<1>8. Q(N) BY <1>7
<1>9. PICK d \in Nat : \A i \in 1 .. N : i <= N => Depth(g[i]) < d BY <1>8 DEF Q
<1>10. ASSUME NEW n \in Readable PROVE Depth(n) < d
  <2>1. PICK i \in 1 .. N : g[i] = n BY <1>3
  <2> QED BY <1>9, <2>1
<1> QED BY <1>10

\* Depth by depth, the worth of every node is found.
LEMMA WorthUpTo ==
  ASSUME NEW val, val \in [Nodes -> Values \cup {Undefined}], NEW d \in Nat
  PROVE  \E w \in Seens : \A n \in Readable : Depth(n) < d => w[n] = Worthy(n, val, w)
<1> DEFINE Q(k) == \E w \in Seens : \A n \in Readable : Depth(n) < k => w[n] = Worthy(n, val, w)
           T == {k \in Nat : Q(k)}
<1>1. \A n \in Readable : Depth(n) \in Nat BY NodeKinds
<1>2. 0 \in T
  <2>1. \A n \in Readable : ~(Depth(n) < 0) BY <1>1
  <2>2. Q(0) BY <2>1, UnreadSeen
  <2> QED BY <2>2
<1>3. ASSUME NEW k \in T PROVE k + 1 \in T
  <2>1. k \in Nat /\ Q(k) OBVIOUS
  <2>2. PICK w \in Seens : \A n \in Readable : Depth(n) < k => w[n] = Worthy(n, val, w) BY <2>1
  <2>3. \A n \in Readable : Worthy(n, val, w) \in Values \cup {Undefined}
    <3>1. \A n \in Computeds : Outcome(n, w) \in Values \cup {Undefined} BY SeenBelow, OutcomeIs
    <3>2. ASSUME NEW n \in Readable, n \in Sigs PROVE val[n] \in Values \cup {Undefined} BY <3>2, NodeKinds
    <3> QED BY <3>1, <3>2, NodeKinds DEF Worthy
  <2>4. PICK v : v = [n \in Readable |-> IF Depth(n) < k THEN w[n] ELSE Worthy(n, val, w)] OBVIOUS
  <2>5. v \in Seens BY <2>3, <2>4 DEF Seens
  <2>6. \A n \in Readable : Depth(n) < k => v[n] = w[n] BY <2>4
  <2>7. ASSUME NEW n \in Readable, Depth(n) < k + 1 PROVE v[n] = Worthy(n, val, v)
    <3>1. v[n] = Worthy(n, val, w) BY <2>2, <2>4
    <3>2. CASE n \in Sigs BY <3>1, <3>2 DEF Worthy
    <3>3. CASE n \notin Sigs
      <4>1. n \in Computeds BY <3>3, NodeKinds
      <4>2. \A m \in Readable : Depth(m) < Depth(n) => w[m] = v[m]
        <5>1. \A m \in Readable : Depth(m) < Depth(n) => Depth(m) < k BY <1>1, <2>1, <2>7
        <5> QED BY <2>6, <5>1
      <4>3. Outcome(n, w) = Outcome(n, v) BY <2>5, <4>1, <4>2, SeenBelow, OutcomeDepends
      <4> QED BY <3>1, <3>3, <4>3 DEF Worthy
    <3> QED BY <3>2, <3>3
  <2>8. Q(k + 1) BY <2>5, <2>7
  <2> QED BY <2>1, <2>8
<1> HIDE DEF Q
<1>4. T \in SUBSET Nat OBVIOUS
<1>5. T = Nat BY <1>2, <1>3, <1>4, Upwards
<1>6. Q(d) BY <1>5
<1> QED BY <1>6 DEF Q

\* The worth of the nodes satisfies its definition.
LEMMA WorthIs ==
  ASSUME NEW val, val \in [Nodes -> Values \cup {Undefined}]
  PROVE  /\ Worth(val) \in Seens
         /\ \A n \in Readable :
              Worth(val)[n] = IF n \in Sigs THEN val[n] ELSE Outcome(n, Worth(val))
<1> DEFINE worth[n \in Readable] == IF n \in Sigs THEN val[n] ELSE Outcome(n, worth)
<1>1. Worth(val) = worth BY DEF Worth
<1>2. PICK d \in Nat : \A n \in Readable : Depth(n) < d BY Deepest
<1>3. PICK w \in Seens : \A n \in Readable : Depth(n) < d => w[n] = Worthy(n, val, w)
  BY WorthUpTo
<1>4. w = [n \in Readable |-> IF n \in Sigs THEN val[n] ELSE Outcome(n, w)]
  <2>1. \A n \in Readable : w[n] = IF n \in Sigs THEN val[n] ELSE Outcome(n, w)
    BY <1>2, <1>3 DEF Worthy
  <2>2. w = [n \in Readable |-> w[n]] BY DEF Seens
  <2> QED BY <2>1, <2>2
<1>5. worth = [n \in Readable |-> IF n \in Sigs THEN val[n] ELSE Outcome(n, worth)]
  <2>1. \E h : h = [n \in Readable |-> IF n \in Sigs THEN val[n] ELSE Outcome(n, h)] BY <1>4
  <2> QED BY <2>1
<1> HIDE DEF worth
<1>6. Worth(val) = [n \in Readable |-> IF n \in Sigs THEN val[n] ELSE Outcome(n, Worth(val))]
  BY <1>1, <1>5
<1> DEFINE T == {k \in Nat : \A n \in Readable : Depth(n) < k => worth[n] \in Values \cup {Undefined}}
<1>7. \A n \in Readable : Depth(n) \in Nat BY NodeKinds
<1>8. 0 \in T
  <2>1. \A n \in Readable : ~(Depth(n) < 0) BY <1>7
  <2> QED BY <2>1
<1>9. ASSUME NEW k \in T PROVE k + 1 \in T
  <2>1. ASSUME NEW n \in Readable, Depth(n) < k + 1 PROVE worth[n] \in Values \cup {Undefined}
    <3>1. CASE n \in Sigs
      <4>1. worth[n] = val[n] /\ n \in Nodes BY <1>5, <3>1, NodeKinds
      <4> QED BY <4>1
    <3>2. CASE n \notin Sigs
      <4>1. n \in Computeds /\ worth[n] = Outcome(n, worth) BY <1>5, <3>2, NodeKinds
      <4>2. \A m \in Readable : Depth(m) < Depth(n) => Depth(m) < k BY <1>7, <2>1
      <4>3. Below(n, worth) BY <4>2 DEF Below
      <4> QED BY <4>1, <4>3, OutcomeIs
    <3> QED BY <3>1, <3>2
  <2> QED BY <2>1
<1>10. T \in SUBSET Nat OBVIOUS
<1> HIDE DEF T
<1>11. T = Nat BY <1>8, <1>9, <1>10, Upwards
<1>12. \A n \in Readable : worth[n] \in Values \cup {Undefined} BY <1>2, <1>11 DEF T
<1>13. worth = [n \in Readable |-> worth[n]] BY <1>5
<1>14. worth \in Seens BY <1>12, <1>13 DEF Seens
<1> QED BY <1>1, <1>6, <1>14

-----------------------------------------------------------------------------
(* What the user and the functions see.                                    *)

\* Whoever is CLEAN is worth what it holds, depth by depth.
LEMMA CurrentNow ==
  ASSUME GraphInv, ~In("mark")
  PROVE  \A n \in Readable : state[n] = CLEAN => value[n] = Worth(value)[n]
<1> DEFINE T == {k \in Nat : \A n \in Readable :
                   Depth(n) < k /\ state[n] = CLEAN => value[n] = Worth(value)[n]}
<1>1. TypeOK /\ EdgesInv /\ ColourInv(Computeds) BY DEF GraphInv
<1>2. value \in [Nodes -> Values \cup {Undefined}] BY <1>1 DEF TypeOK
<1>3. /\ Worth(value) \in Seens
      /\ \A n \in Readable : Worth(value)[n] = IF n \in Sigs THEN value[n] ELSE Outcome(n, Worth(value))
  BY <1>2, WorthIs
<1>4. \A n \in Readable : Depth(n) \in Nat BY NodeKinds
<1>5. \A n, c : ~Marked(n, c) BY NoMarks
<1>6. 0 \in T
  <2>1. \A n \in Readable : ~(Depth(n) < 0) BY <1>4
  <2> QED BY <2>1
<1>7. ASSUME NEW k \in T PROVE k + 1 \in T
  <2>1. ASSUME NEW n \in Readable, Depth(n) < k + 1, state[n] = CLEAN
        PROVE  value[n] = Worth(value)[n]
    <3>1. CASE n \in Sigs BY <1>3, <3>1
    <3>2. CASE n \notin Sigs
      <4>1. n \in Computeds /\ n \in Reactions BY <3>2, NodeKinds
      <4>2. NodeOK(n) /\ state[n] # DIRTY BY <1>1, <2>1, <4>1 DEF ColourInv, CLEAN, DIRTY
      <4>3. /\ Body(n, saw[n], FALSE).op = "return" /\ Body(n, saw[n], FALSE).to = value[n]
            /\ Tracked(n) /\ Reached(n, saw[n])
        BY <4>1, <4>2 DEF NodeOK, Ran
      <4>4. Agrees(n) /\ SourcesClean(n) BY <1>5, <2>1, <4>2 DEF NodeOK, MaybeMarked
      <4>5. saw[n] \in Seens BY <1>1, <4>1 DEF TypeOK
      <4>6. ASSUME NEW m \in Readable, saw[n][m] # Undefined PROVE saw[n][m] = Worth(value)[m]
        <5>1. Contains(sources[n], m) BY <4>3, <4>6 DEF Tracked
        <5>2. saw[n][m] = value[m] /\ state[m] = CLEAN BY <4>4, <5>1 DEF Agrees, SourcesClean
        <5>3. Depth(m) < Depth(n) BY <1>1, <4>1, <5>1 DEF EdgesInv
        <5>4. Depth(m) < k BY <1>4, <2>1, <5>3
        <5> QED BY <5>2, <5>4
      <4>7. Below(n, Worth(value)) BY <1>3, SeenBelow
      <4>8. Outcome(n, Worth(value)) = Body(n, saw[n], FALSE).to
        BY <4>1, <4>3, <4>5, <4>6, <4>7, OutcomeReached
      <4> QED BY <1>3, <3>2, <4>3, <4>8
    <3> QED BY <3>1, <3>2
  <2> QED BY <2>1
<1>8. T \in SUBSET Nat OBVIOUS
<1> HIDE DEF T
<1>9. T = Nat BY <1>6, <1>7, <1>8, Upwards
<1>10. PICK d \in Nat : \A n \in Readable : Depth(n) < d BY Deepest
<1> QED BY <1>9, <1>10 DEF T

\* Theorem.  A computed that is CLEAN holds its value as of the latest write
\* (updateIfNecessary, update, markStale), whatever the graph and its functions.
THEOREM CleanIsCurrentHolds == Spec => []CleanIsCurrent
<1>1. GraphInv => CleanIsCurrent BY CurrentNow, NodeKinds DEF CleanIsCurrent
<1> QED BY <1>1, GraphHolds, PTL

\* What a step shows a function, if anything.
LEMMA NewlySeen ==
  ASSUME GraphInv, Next, NEW n \in Reactions, NEW m \in Readable,
         saw'[n][m] # saw[n][m], saw'[n][m] # Undefined
  PROVE  RunGets /\ saw'[n][m] = value[m] /\ state[m] = CLEAN /\ value' = value
<1>1. TypeOK /\ EdgesInv /\ ColourInv(Computeds) BY DEF GraphInv
<1>2. ~UserStep /\ ~MarkStale /\ ~MarkDone /\ ~FlushTake /\ ~FlushNext /\ ~FlushDone
  BY DEF UserStep, Set, Read, CreateEffect, Dispose, BatchBegin, BatchEnd, MarkStale, MarkDone,
         FlushTake, FlushNext, FlushDone
<1>3. ~PullSource /\ ~PullDone /\ ~RunWrite /\ ~RunReturn
  BY DEF PullSource, PullDone, RunWrite, RunReturn
<1>4. ~RunThrow
  <2>1. RunThrow => saw' = saw BY DEF RunThrow
  <2> QED BY <2>1
<1>5. ~PullUpdate
  <2>1. ASSUME PullUpdate PROVE saw'[Top.node] = Unread /\ \A k \in Reactions \ {Top.node} : saw'[k] = saw[k]
    BY <1>1, <2>1, PullUpdateIs
  <2>2. Unread[m] = Undefined BY DEF Unread
  <2> QED BY <2>1, <2>2
<1>6. ~RunRead /\ ~RunPeek
  <2>1. ASSUME NEW tracked \in BOOLEAN, Running(IF tracked THEN "read" ELSE "peek"),
               Reads(NextOp(Top).node, tracked)
        PROVE  FALSE
    <3>1. PICK k : k = NextOp(Top).node OBVIOUS
    <3>2. PICK t : t = Top.node OBVIOUS
    <3>3. /\ saw'[t][k] = Undefined
          /\ \A j \in Readable \ {k} : saw'[t][j] = saw[t][j]
          /\ \A j \in Reactions \ {t} : saw'[j] = saw[j]
      BY <1>1, <2>1, <3>1, <3>2, ReadsIs, Zenon
    <3> QED BY <3>3
  <2>2. RunRead => Running(IF TRUE THEN "read" ELSE "peek") /\ Reads(NextOp(Top).node, TRUE) BY DEF RunRead
  <2>3. RunPeek => Running(IF FALSE THEN "read" ELSE "peek") /\ Reads(NextOp(Top).node, FALSE) BY DEF RunPeek
  <2> QED BY <2>1, <2>2, <2>3
<1>7. RunGets BY <1>2, <1>3, <1>4, <1>5, <1>6 DEF Next
<1>8. PICK r : r = Top.reading OBVIOUS
<1>9. PICK t : t = Top.node OBVIOUS
<1>10. /\ In("run") /\ r \in Readable
       /\ saw'[t][r] = value[r]
       /\ \A k \in Readable \ {r} : saw'[t][k] = saw[t][k]
       /\ \A k \in Reactions \ {t} : saw'[k] = saw[k]
       /\ value' = value
  BY <1>1, <1>7, <1>8, <1>9, RunGetsIs
<1>11. n = t /\ m = r BY <1>10
<1>12. r # Undefined BY <1>10, NodeKinds
<1>13. state[r] = CLEAN BY <1>1, <1>8, <1>10, <1>12 DEF ColourInv, ReadInv
<1> QED BY <1>7, <1>10, <1>11, <1>13

\* Theorem.  No function is ever shown a value that is not current (get, which pulls a
\* computed before it returns), whatever the graph and its functions.
THEOREM NoGlitchHolds == Spec => NoGlitch
<1>1. GraphInv /\ [Next]_vars =>
        [\A n \in Reactions, m \in Readable :
           (saw'[n][m] # saw[n][m] /\ saw'[n][m] # Undefined)
             => saw'[n][m] = Worth(value')[m]]_vars
  <2> SUFFICES ASSUME GraphInv, Next, NEW n \in Reactions, NEW m \in Readable,
                      saw'[n][m] # saw[n][m], saw'[n][m] # Undefined
               PROVE  saw'[n][m] = Worth(value')[m]
    OBVIOUS
  <2>1. RunGets /\ saw'[n][m] = value[m] /\ state[m] = CLEAN /\ value' = value BY NewlySeen
  <2>2. ~In("mark") BY <2>1 DEF RunGets, In
  <2>3. value[m] = Worth(value)[m] BY <2>1, <2>2, CurrentNow
  <2> QED BY <2>1, <2>3
<1> QED BY <1>1, GraphHolds, PTL DEF Spec, NoGlitch

\* Only update() calls a function.
LEMMA NewRun ==
  ASSUME GraphInv, Next, NEW l, l = Len(stack), Len(stack') > l, Top'.call = "run"
  PROVE  PullUpdate
<1>1. TypeOK /\ EdgesInv BY DEF GraphInv
<1>2. l \in Nat /\ ~(l > l) /\ ~(l - 1 > l) /\ ~(0 > l)
  <2>1. l \in Nat BY <1>1, IndexFacts
  <2> QED BY <2>1
<1>3. /\ \A n : Pull(n).call = "pull"
      /\ Flush.call = "flush"
  BY DEF Pull, Flush
<1>4. ASSUME NEW s \in Sigs, NEW v \in Domain(s) PROVE ~Set(s, v)
  <2>1. Set(s, v) => Top'.call = "mark" BY <1>1, <1>4, SetIs
  <2> QED BY <2>1
<1>5. ASSUME NEW n \in Computeds PROVE ~Read(n)
  <2>1. n \in Nodes BY NodeKinds
  <2>2. Read(n) => Top' = Pull(n) BY <1>1, <2>1, UserCallIs DEF Read
  <2> QED BY <1>3, <2>2
<1>6. ASSUME NEW e \in Effects PROVE ~CreateEffect(e) /\ ~Dispose(e)
  <2>1. e \in Nodes BY NodeKinds
  <2>2. CreateEffect(e) => stack' = stack \/ stack' = <<Pull(e)>> BY DEF CreateEffect
  <2>3. stack' = <<Pull(e)>> => Top' = Pull(e) BY <1>1, <2>1, UserCallIs
  <2>4. stack' # stack BY <1>2
  <2>5. ~Dispose(e) BY <2>4 DEF Dispose
  <2> QED BY <1>3, <2>2, <2>3, <2>4, <2>5
<1>7. ~BatchBegin
  <2>1. stack' # stack BY <1>2
  <2> QED BY <2>1 DEF BatchBegin
<1>8. ~BatchEnd
  <2>1. stack' # stack BY <1>2
  <2>2. BatchEnd => Top' = Flush BY <1>1, <2>1, BatchEndIs
  <2> QED BY <1>3, <2>2
<1>9. ~MarkStale
  <2>1. MarkStale => Len(stack') = l BY <1>1, MarkStaleIs
  <2> QED BY <1>2, <2>1
<1>10. ~(MarkDone \/ FlushDone)
  <2>1. MarkDone \/ FlushDone => Len(stack') = l - 1 BY <1>1, DoneIs
  <2> QED BY <1>2, <2>1
<1>11. ~FlushTake
  <2>1. FlushTake => Len(stack') = l BY <1>1, FlushTakeIs
  <2> QED BY <1>2, <2>1
<1>12. ~FlushNext
  <2> SUFFICES ASSUME FlushNext PROVE FALSE OBVIOUS
  <2>1. PICK e : e = Head(Top.left) OBVIOUS
  <2>2. \/ Len(stack') = l
        \/ Top' = Pull(e)
    <3>1. /\ state[e] = CLEAN => Len(stack') = l
          /\ state[e] # CLEAN => Top' = stack'[l + 1] /\ stack'[l + 1] = Pull(e)
      BY <1>1, <2>1, FlushNextIs
    <3> QED BY <3>1
  <2> QED BY <1>2, <1>3, <2>2
<1>13. ~PullSource
  <2> SUFFICES ASSUME PullSource PROVE FALSE OBVIOUS
  <2>1. PICK k : k = Head(Top.left) OBVIOUS
  <2>2. Top' = stack'[l + 1] /\ stack'[l + 1] = Pull(k) BY <1>1, <2>1, PullSourceIs
  <2> QED BY <1>3, <2>2
<1>14. ~PullDone
  <2>1. PullDone => Len(stack') = l - 1 BY <1>1, PullDoneIs
  <2> QED BY <1>2, <2>1
<1>15. ~RunRead /\ ~RunPeek
  <2>1. ASSUME NEW tracked \in BOOLEAN, Running(IF tracked THEN "read" ELSE "peek"),
               Reads(NextOp(Top).node, tracked)
        PROVE  FALSE
    <3>1. PICK k : k = NextOp(Top).node OBVIOUS
    <3>2. /\ k \in Sigs => Len(stack') = l
          /\ k \notin Sigs => Top' = stack'[l + 1] /\ stack'[l + 1] = Pull(k)
      BY <1>1, <2>1, <3>1, ReadsIs, Zenon
    <3> QED BY <1>2, <1>3, <3>2
  <2>2. RunRead => Running(IF TRUE THEN "read" ELSE "peek") /\ Reads(NextOp(Top).node, TRUE) BY DEF RunRead
  <2>3. RunPeek => Running(IF FALSE THEN "read" ELSE "peek") /\ Reads(NextOp(Top).node, FALSE) BY DEF RunPeek
  <2> QED BY <2>1, <2>2, <2>3
<1>16. ~RunGets
  <2>1. RunGets => Len(stack') = l BY <1>1, RunGetsIs
  <2> QED BY <1>2, <2>1
<1>17. ~RunWrite
  <2>1. RunWrite => Len(stack') = l \/ Top'.call = "mark" BY <1>1, RunWriteIs
  <2> QED BY <1>2, <2>1
<1>18. ~RunReturn
  <2>1. RunReturn => Len(stack') = l - 1 BY <1>1, RunReturnIs
  <2> QED BY <1>2, <2>1
<1>19. ~RunThrow
  <2>1. RunThrow => stack' = <<>> BY DEF RunThrow
  <2>2. Len(<<>>) = 0 BY EmptySeq
  <2> QED BY <1>2, <2>1, <2>2
<1> QED BY <1>4, <1>5, <1>6, <1>7, <1>8, <1>9, <1>10, <1>11, <1>12, <1>13, <1>14, <1>15, <1>16,
           <1>17, <1>18, <1>19 DEF Next, UserStep

\* Theorem.  A function that ran to its end runs again only when a value it read has changed
\* (the equality cutoff of update, and CHECK), whatever the graph and its functions.
THEOREM NoRedundantRunHolds == Spec => NoRedundantRun
<1>1. GraphInv /\ [Next]_vars =>
        [\A n \in Reactions :
           (Len(stack') > Len(stack) /\ Last(stack').call = "run" /\ Last(stack').node = n)
             => n \in moved]_vars
  <2> SUFFICES ASSUME GraphInv, Next, NEW n \in Reactions,
                      Len(stack') > Len(stack), Last(stack').call = "run", Last(stack').node = n
               PROVE  n \in moved
    OBVIOUS
  <2>1. TypeOK /\ EdgesInv /\ StackInv /\ QueueInv /\ MovedInv BY DEF GraphInv
  <2>2. Top' = Last(stack') BY DEF Top
  <2>3. PICK l : l = Len(stack) OBVIOUS
  <2>4. PullUpdate BY <2>2, <2>3, NewRun
  <2>5. /\ In("pull") /\ Top = stack[l] /\ l \in Nat \ {0} /\ ~Top.done
        /\ state[Top.node] = DIRTY /\ Top' = stack'[l + 1] /\ stack'[l + 1].node = Top.node
    BY <2>1, <2>3, <2>4, PullUpdateIs
  <2>6. Top.node = n /\ Top.call = "pull" BY <2>2, <2>5 DEF In
  <2>7. ~Updating(n)
    <3> SUFFICES ASSUME Updating(n) PROVE FALSE OBVIOUS
    <3>1. PICK i \in 1 .. Len(stack) : stack[i].call = "pull" /\ stack[i].node = n /\ stack[i].done
      BY DEF Updating, IsPull
    <3>2. l \in 1 .. Len(stack) BY <2>3, <2>5
    <3>3. i = l BY <2>1, <2>5, <2>6, <3>1, <3>2, Alone
    <3> QED BY <2>5, <3>1, <3>3
  <2> QED BY <2>1, <2>5, <2>6, <2>7 DEF MovedInv
<1> QED BY <1>1, GraphHolds, PTL DEF Spec, NoRedundantRun

-----------------------------------------------------------------------------
(* That no effect is forgotten.                                            *)

\* Outside a batch, what is queued is about to be taken.
PendInv ==
  batchDepth = 0 =>
    /\ pendingEffects # <<>> => In("mark") \/ (In("flush") /\ Top.left = <<>>)
    /\ In("mark") => Len(stack) > 1 /\ stack[Len(stack) - 1].call = "flush"
                     /\ stack[Len(stack) - 1].left = <<>>

\* The calls of the user.
LEMMA UserPend ==
  ASSUME TypeOK, PendInv, UserStep
  PROVE  PendInv'
<1>1. Idle BY DEF UserStep, Set, Read, CreateEffect, Dispose, BatchBegin, BatchEnd, Called
<1>2. ~In("mark") /\ ~In("flush") BY <1>1 DEF In
<1>3. batchDepth = 0 => pendingEffects = <<>> BY <1>2 DEF PendInv
<1>4. Flush.call = "flush" /\ Flush.left = <<>> /\ \A n : Pull(n).call = "pull" BY DEF Flush, Pull
<1>5. ASSUME NEW s \in Sigs, NEW v \in Domain(s), Set(s, v) PROVE PendInv'
  <2>1. /\ batchDepth = 0 => Len(stack') = 2 /\ stack'[1] = Flush
        /\ Top'.call = "mark" /\ stack' \in Seq(Frames)
        /\ batchDepth' = batchDepth
    BY <1>5, SetIs
  <2>2. CASE batchDepth = 0
    <3>1. Len(stack') > 1 /\ Len(stack') - 1 = 1 BY <2>1, <2>2
    <3>2. ~Idle' BY <2>1, <2>2, NewIndexFacts
    <3>3. In("mark")' BY <2>1, <3>2 DEF In
    <3> QED BY <1>4, <2>1, <2>2, <3>1, <3>3 DEF PendInv
  <2>3. CASE batchDepth # 0 BY <2>1, <2>3 DEF PendInv
  <2> QED BY <2>2, <2>3
<1>6. ASSUME batchDepth' = batchDepth, batchDepth = 0 => pendingEffects' = pendingEffects,
             stack' = stack \/ Top'.call = "pull"
      PROVE  PendInv'
  <2>1. ~In("mark")'
    <3>1. CASE stack' = stack BY <1>1, <3>1 DEF In, Idle
    <3>2. CASE Top'.call = "pull" BY <3>2 DEF In
    <3> QED BY <1>6, <3>1, <3>2
  <2> QED BY <1>3, <1>6, <2>1 DEF PendInv
<1>7. ASSUME NEW n \in Computeds, Read(n) PROVE PendInv'
  <2>1. n \in Nodes BY NodeKinds
  <2>2. Top' = Pull(n) BY <1>7, <2>1, UserCallIs DEF Read
  <2> QED BY <1>4, <1>6, <1>7, <2>2 DEF Read
<1>8. ASSUME NEW e \in Effects, CreateEffect(e) PROVE PendInv'
  <2>1. e \in Nodes BY NodeKinds
  <2>2. stack' = <<Pull(e)>> => Top' = Pull(e) BY <2>1, UserCallIs
  <2>3. /\ batchDepth' = batchDepth
        /\ batchDepth > 0 \/ pendingEffects' = pendingEffects
        /\ stack' = stack \/ stack' = <<Pull(e)>>
    BY <1>8 DEF CreateEffect
  <2> QED BY <1>4, <1>6, <2>2, <2>3
<1>9. ASSUME NEW e \in Effects, Dispose(e) PROVE PendInv' BY <1>6, <1>9 DEF Dispose
<1>10. CASE BatchBegin
  <2>1. batchDepth' # 0 BY <1>10 DEF BatchBegin, TypeOK
  <2> QED BY <2>1 DEF PendInv
<1>11. CASE BatchEnd
  <2>1. \/ /\ stack' \in Seq(Frames) /\ Len(stack') = 1 /\ Top' = Flush
        \/ batchDepth' # 0
    BY <1>11, BatchEndIs
  <2>2. CASE stack' \in Seq(Frames) /\ Len(stack') = 1 /\ Top' = Flush
    <3>1. ~Idle' BY <2>2, NewIndexFacts
    <3>2. In("flush")' /\ Top'.left = <<>> /\ ~In("mark")' BY <1>4, <2>2, <3>1 DEF In
    <3> QED BY <3>2 DEF PendInv
  <2>3. CASE batchDepth' # 0 BY <2>3 DEF PendInv
  <2> QED BY <2>1, <2>2, <2>3
<1> QED BY <1>5, <1>7, <1>8, <1>9, <1>10, <1>11 DEF UserStep

\* Every step keeps the queue about to be taken.
LEMMA PendKeeps ==
  ASSUME TypeOK, EdgesInv, StackInv, QueueInv, PendInv, Next
  PROVE  PendInv'
<1>0. PICK l : l = Len(stack) OBVIOUS
<1>1. /\ \A n : Pull(n).call = "pull"
      /\ Flush.call = "flush" /\ Flush.left = <<>>
  BY DEF Pull, Flush
<1>2. ASSUME ~In("mark"), ~(In("flush") /\ Top.left = <<>>), UNCHANGED <<pendingEffects, batchDepth>>,
             ~In("mark")'
      PROVE  PendInv'
  BY <1>2 DEF PendInv
<1>3. CASE UserStep BY <1>3, UserPend
<1>4. CASE MarkStale
  <2>1. /\ In("mark") /\ stack' \in Seq(Frames) /\ stack' # <<>> /\ Len(stack') = l /\ Top'.call = "mark"
        /\ l \in Nat \ {0}
        /\ \A i \in 1 .. l - 1 : stack'[i] = stack[i]
        /\ batchDepth' = batchDepth
    BY <1>0, <1>4, MarkStaleIs
  <2>2. In("mark")' BY <2>1 DEF In, Idle
  <2>3. CASE batchDepth = 0
    <3>1. l > 1 /\ stack[l - 1].call = "flush" /\ stack[l - 1].left = <<>>
      BY <1>0, <2>1, <2>3 DEF PendInv
    <3>2. l - 1 \in 1 .. l - 1 BY <2>1, <3>1
    <3>3. stack'[l - 1] = stack[l - 1] BY <2>1, <3>2
    <3>4. stack'[Len(stack') - 1] = stack'[l - 1] /\ Len(stack') > 1 BY <2>1, <3>1
    <3> QED BY <2>2, <3>1, <3>3, <3>4 DEF PendInv
  <2>4. CASE batchDepth # 0 BY <2>1, <2>4 DEF PendInv
  <2> QED BY <2>3, <2>4
<1>5. CASE MarkDone
  <2>1. /\ l \in Nat \ {0} /\ Len(stack') = l - 1 /\ stack' \in Seq(Frames)
        /\ ~Idle' => Top' = stack[l - 1]
        /\ batchDepth' = batchDepth
    BY <1>0, <1>5, DoneIs
  <2>2. In("mark") BY <1>5 DEF MarkDone
  <2>3. CASE batchDepth = 0
    <3>1. l > 1 /\ stack[l - 1].call = "flush" /\ stack[l - 1].left = <<>>
      BY <1>0, <2>2, <2>3 DEF PendInv
    <3>2. Len(stack') # 0 BY <2>1, <3>1
    <3>3. ~Idle' BY <2>1, <3>2, NewIndexFacts
    <3>4. In("flush")' /\ Top'.left = <<>> /\ ~In("mark")' BY <2>1, <3>1, <3>3 DEF In
    <3> QED BY <3>4 DEF PendInv
  <2>4. CASE batchDepth # 0 BY <2>1, <2>4 DEF PendInv
  <2> QED BY <2>3, <2>4
<1>6. CASE FlushTake
  <2>1. pendingEffects' = <<>> /\ Top'.call = "flush"
    <3>1. pendingEffects' = <<>> /\ Top' = stack'[l] /\ stack'[l].call = "flush"
      BY <1>0, <1>6, FlushTakeIs
    <3> QED BY <3>1
  <2> QED BY <2>1 DEF PendInv, In
<1>7. CASE FlushNext
  <2>1. PICK e : e = Head(Top.left) OBVIOUS
  <2>2. /\ In("flush") /\ Top.left # <<>> /\ UNCHANGED <<pendingEffects, batchDepth>>
        /\ stack'[l].call = "flush"
        /\ Top' = stack'[l] \/ (Top' = stack'[l + 1] /\ stack'[l + 1] = Pull(e))
    BY <1>0, <1>7, <2>1, FlushNextIs
  <2>3. ~In("mark") /\ ~In("mark")' BY <1>1, <2>2 DEF In
  <2> QED BY <1>2, <2>2, <2>3
<1>8. CASE FlushDone
  <2>1. /\ ~Idle /\ Top = stack[l] /\ l \in Nat \ {0}
        /\ ~Idle' => l > 1 /\ Top' = stack[l - 1]
        /\ UNCHANGED <<pendingEffects, batchDepth>>
    BY <1>0, <1>8, DoneIs
  <2>2. pendingEffects = <<>> /\ In("flush") BY <1>8 DEF FlushDone
  <2>3. Top.call = "flush" BY <2>2 DEF In
  <2>4. Idle' \/ Top'.call = "flush" \/ Top'.call = "run" BY <1>0, <2>1, <2>3, BelowMark
  <2>5. ~In("mark")' BY <2>4 DEF In
  <2> QED BY <2>1, <2>2, <2>5 DEF PendInv
<1>9. CASE PullSource
  <2>1. PICK k : k = Head(Top.left) OBVIOUS
  <2>2. /\ In("pull") /\ UNCHANGED <<pendingEffects, batchDepth>>
        /\ Top' = stack'[l + 1] /\ stack'[l + 1] = Pull(k)
    BY <1>0, <1>9, <2>1, PullSourceIs
  <2>3. ~In("mark") /\ ~In("flush") /\ ~In("mark")' BY <1>1, <2>2 DEF In
  <2> QED BY <1>2, <2>2, <2>3
<1>10. CASE PullUpdate
  <2>1. /\ In("pull") /\ UNCHANGED <<pendingEffects, batchDepth>>
        /\ Top' = stack'[l + 1] /\ stack'[l + 1].call = "run"
    BY <1>0, <1>10, PullUpdateIs
  <2>2. ~In("mark") /\ ~In("flush") /\ ~In("mark")' BY <2>1 DEF In
  <2> QED BY <1>2, <2>1, <2>2
<1>11. CASE PullDone
  <2>1. /\ In("pull") /\ ~Idle /\ Top = stack[l] /\ l \in Nat \ {0}
        /\ ~Idle' => l > 1 /\ Top' = stack[l - 1]
        /\ UNCHANGED <<pendingEffects, batchDepth>>
    BY <1>0, <1>11, PullDoneIs
  <2>2. ~In("mark")'
    <3>1. ASSUME ~Idle' PROVE Top'.call # "mark"
      <4>1. l > 1 /\ Top' = stack[l - 1] BY <2>1, <3>1
      <4>2. l - 1 \in 1 .. Len(stack) - 1 /\ l - 1 + 1 = l BY <1>0, <2>1, <4>1
      <4>3. Over(stack[l], stack[l - 1]) BY <4>2 DEF StackInv
      <4> QED BY <4>1, <4>3 DEF Over
    <3> QED BY <3>1 DEF In
  <2>3. ~In("mark") /\ ~In("flush") BY <2>1 DEF In
  <2> QED BY <1>2, <2>1, <2>2, <2>3
<1>12. CASE RunRead \/ RunPeek
  <2>1. ASSUME NEW tracked \in BOOLEAN, Running(IF tracked THEN "read" ELSE "peek"),
               Reads(NextOp(Top).node, tracked)
        PROVE  PendInv'
    <3>1. PICK k : k = NextOp(Top).node OBVIOUS
    <3>2. /\ In("run") /\ UNCHANGED <<pendingEffects, batchDepth>>
          /\ stack'[l].call = "run"
          /\ Top' = stack'[l] \/ (Top' = stack'[l + 1] /\ stack'[l + 1] = Pull(k))
      BY <1>0, <2>1, <3>1, ReadsIs, Zenon
    <3>3. ~In("mark") /\ ~In("flush") /\ ~In("mark")' BY <1>1, <3>2 DEF In
    <3> QED BY <1>2, <3>2, <3>3
  <2>2. RunRead => Running(IF TRUE THEN "read" ELSE "peek") /\ Reads(NextOp(Top).node, TRUE) BY DEF RunRead
  <2>3. RunPeek => Running(IF FALSE THEN "read" ELSE "peek") /\ Reads(NextOp(Top).node, FALSE) BY DEF RunPeek
  <2> QED BY <1>12, <2>1, <2>2, <2>3
<1>13. CASE RunGets
  <2>1. /\ In("run") /\ UNCHANGED <<pendingEffects, batchDepth>>
        /\ Top' = stack'[l] /\ stack'[l].call = "run"
    BY <1>0, <1>13, RunGetsIs
  <2>2. ~In("mark") /\ ~In("flush") /\ ~In("mark")' BY <2>1 DEF In
  <2> QED BY <1>2, <2>1, <2>2
<1>14. CASE RunWrite
  <2>1. /\ In("run") /\ UNCHANGED <<pendingEffects, batchDepth>> /\ l \in Nat \ {0}
        /\ stack'[l].call = "run"
        /\ \/ Top' = stack'[l]
           \/ /\ batchDepth = 0 => Len(stack') = l + 2 /\ stack'[l + 1] = Flush
              /\ Top'.call = "mark"
    BY <1>0, <1>14, RunWriteIs
  <2>2. ~In("mark") /\ ~In("flush") BY <2>1 DEF In
  <2>3. CASE Top' = stack'[l]
    <3>1. ~In("mark")' BY <2>1, <2>3 DEF In
    <3> QED BY <1>2, <2>1, <2>2, <3>1
  <2>4. CASE Top' # stack'[l]
    <3>1. pendingEffects' = <<>> \/ batchDepth # 0 BY <2>1, <2>2 DEF PendInv
    <3>2. CASE batchDepth = 0
      <4>1. Len(stack') - 1 = l + 1 /\ Len(stack') > 1 BY <2>1, <2>4, <3>2
      <4>2. stack'[Len(stack') - 1] = Flush BY <2>1, <2>4, <3>2, <4>1
      <4> QED BY <1>1, <3>1, <3>2, <4>1, <4>2 DEF PendInv
    <3>3. CASE batchDepth # 0 BY <2>1, <3>3 DEF PendInv
    <3> QED BY <3>2, <3>3
  <2> QED BY <2>3, <2>4
<1>15. CASE RunReturn
  <2>1. /\ In("run") /\ UNCHANGED <<pendingEffects, batchDepth>> /\ ~Idle /\ Top = stack[l]
        /\ l \in Nat \ {0}
        /\ ~Idle' => Top' = stack[l - 1]
    BY <1>0, <1>15, RunReturnIs
  <2>2. Top.call = "run" /\ l \in 1 .. Len(stack) BY <1>0, <2>1 DEF In
  <2>3. stack[l - 1].call = "pull" BY <2>1, <2>2, RunUnder
  <2>4. ~In("mark") /\ ~In("flush") /\ ~In("mark")' BY <2>1, <2>3 DEF In
  <2> QED BY <1>2, <2>1, <2>4
<1>16. CASE RunThrow
  <2>1. In("run") /\ stack' = <<>> /\ UNCHANGED <<pendingEffects, batchDepth>>
    BY <1>16 DEF RunThrow, Running
  <2>2. ~In("mark") /\ ~In("flush") BY <2>1 DEF In
  <2>3. ~In("mark")' BY <2>1 DEF In, Idle
  <2> QED BY <1>2, <2>1, <2>2, <2>3
<1> QED BY <1>3, <1>4, <1>5, <1>6, <1>7, <1>8, <1>9, <1>10, <1>11, <1>12, <1>13, <1>14, <1>15,
           <1>16 DEF Next

\* A live effect that is not CLEAN waits for a flush, or is being run.
LiveInv ==
  \A e \in Effects : (life[e] = "live" /\ e \notin lost /\ state[e] # CLEAN) => Waits(e) \/ Pulled(e)

\* An effect keeps its place when a step does not put it out of it.
LEMMA LiveKept ==
  ASSUME LiveInv, life' = life, lost \subseteq lost',
         \A e \in Effects : e \notin lost' /\ life[e] = "live" /\ state'[e] # CLEAN =>
           /\ state[e] # CLEAN \/ Waits(e)' \/ Pulled(e)'
           /\ Waits(e) \/ Pulled(e) => Waits(e)' \/ Pulled(e)'
  PROVE  LiveInv'
BY DEF LiveInv

\* Whatever the innermost call does, those below it keep their effects.
LEMMA StillPlaced ==
  ASSUME TypeOK, ~Idle, stack' \in Seq(Frames), NEW l, l = Len(stack), Len(stack') >= l - 1,
         \A i \in 1 .. l - 1 : stack'[i] = stack[i], NEW e,
         Contains(pendingEffects, e) => Waits(e)',
         Taken(e, l) => Waits(e)' \/ Pulled(e)',
         IsPull(e, l) => Waits(e)' \/ Pulled(e)',
         Waits(e) \/ Pulled(e)
  PROVE  Waits(e)' \/ Pulled(e)'
<1>1. l \in Nat \ {0} BY TopFacts
<1>2. Len(stack') \in Nat BY NewIndexFacts
<1>3. ASSUME NEW i \in 1 .. Len(stack), i # l PROVE i \in 1 .. Len(stack') /\ stack'[i] = stack[i]
  <2>1. i \in 1 .. l - 1 BY <1>1, <1>3
  <2>2. i \in 1 .. Len(stack') BY <1>1, <1>2, <2>1
  <2> QED BY <2>1, <2>2
<1>4. ASSUME NEW i \in 1 .. Len(stack), Taken(e, i) PROVE Waits(e)' \/ Pulled(e)'
  <2>1. CASE i = l BY <1>4, <2>1
  <2>2. CASE i # l BY <1>3, <1>4, <2>2 DEF Taken, Waits
  <2> QED BY <2>1, <2>2
<1>5. ASSUME NEW i \in 1 .. Len(stack), IsPull(e, i) PROVE Waits(e)' \/ Pulled(e)'
  <2>1. CASE i = l BY <1>5, <2>1
  <2>2. CASE i # l BY <1>3, <1>5, <2>2 DEF IsPull, Pulled
  <2> QED BY <2>1, <2>2
<1> QED BY <1>4, <1>5 DEF Waits, Pulled

\* The calls of the user.
LEMMA UserLive ==
  ASSUME TypeOK, LiveInv, UserStep
  PROVE  LiveInv'
<1>1. Idle BY DEF UserStep, Set, Read, CreateEffect, Dispose, BatchBegin, BatchEnd, Called
<1>2. \A i \in 1 .. Len(stack) : FALSE
  <2>1. Len(stack) = 0 BY <1>1, IndexFacts
  <2> QED BY <2>1
<1>3. \A e : ~Pulled(e) /\ (Waits(e) <=> Contains(pendingEffects, e)) BY <1>2 DEF Pulled, Waits
<1>4. Effects \subseteq Nodes BY NodeKinds
<1>5. ASSUME state' = state, pendingEffects' = pendingEffects, life' = life, lost' = lost PROVE LiveInv'
  <2>1. \A e : Waits(e) => Waits(e)' BY <1>3, <1>5 DEF Waits
  <2> QED BY <1>3, <1>5, <2>1, LiveKept
<1>6. ASSUME NEW s \in Sigs, NEW v \in Domain(s), Set(s, v) PROVE LiveInv' BY <1>5, <1>6 DEF Set
<1>7. ASSUME NEW n \in Computeds, Read(n) PROVE LiveInv' BY <1>5, <1>7 DEF Read, history
<1>8. ASSUME NEW e \in Effects, CreateEffect(e) PROVE LiveInv'
  <2>1. /\ life' = [life EXCEPT ![e] = "live"] /\ state' = state /\ lost' = lost
        /\ \/ pendingEffects' = Append(pendingEffects, e)
           \/ pendingEffects' = pendingEffects /\ stack' = <<Pull(e)>>
    BY <1>8 DEF CreateEffect, history
  <2>2. \A x \in Effects \ {e} : life'[x] = life[x] BY <2>1 DEF TypeOK
  <2>3. ASSUME NEW x, Contains(pendingEffects, x) PROVE Contains(pendingEffects', x)
    <3>1. PICK p : p = pendingEffects OBVIOUS
    <3>2. p \in Seq(Effects) BY <3>1 DEF TypeOK
    <3>3. Contains(Append(p, e), x) BY <2>3, <3>1, <3>2, ContainsAppend
    <3> QED BY <2>1, <2>3, <3>1, <3>3
  <2>4. Waits(e)' \/ Pulled(e)'
    <3>1. CASE pendingEffects' = Append(pendingEffects, e)
      <4>1. Contains(pendingEffects', e) BY <3>1, ContainsAppend DEF TypeOK
      <4> QED BY <4>1 DEF Waits
    <3>2. CASE stack' = <<Pull(e)>>
      <4>1. e \in Nodes BY <1>4
      <4>2. Len(stack') = 1 /\ stack'[1] = Pull(e) BY <3>2, <4>1, UserCallIs
      <4>3. IsPull(e, 1)' BY <4>2 DEF IsPull, Pull
      <4>4. 1 \in 1 .. Len(stack') BY <4>2
      <4> QED BY <4>3, <4>4 DEF Pulled
    <3> QED BY <2>1, <3>1, <3>2
  <2>5. \A x \in Effects : Waits(x) => Waits(x)' BY <1>3, <2>3 DEF Waits
  <2> QED BY <1>3, <2>1, <2>2, <2>4, <2>5 DEF LiveInv
<1>9. ASSUME NEW e \in Effects, Dispose(e) PROVE LiveInv'
  <2>1. /\ life' = [life EXCEPT ![e] = "disposed"] /\ state' = [state EXCEPT ![e] = CLEAN]
        /\ UNCHANGED <<pendingEffects, lost>>
    BY <1>9 DEF Dispose, history
  <2>2. \A x \in Effects \ {e} : life'[x] = life[x] /\ state'[x] = state[x] BY <1>4, <2>1 DEF TypeOK
  <2>3. state'[e] = CLEAN BY <1>4, <2>1 DEF TypeOK
  <2>4. \A x \in Effects : Waits(x) => Waits(x)' BY <1>3, <2>1 DEF Waits
  <2> QED BY <1>3, <2>1, <2>2, <2>3, <2>4 DEF LiveInv
<1>10. CASE BatchBegin BY <1>5, <1>10 DEF BatchBegin, history
<1>11. CASE BatchEnd BY <1>5, <1>11 DEF BatchEnd, history
<1> QED BY <1>6, <1>7, <1>8, <1>9, <1>10, <1>11 DEF UserStep

\* A step of the innermost call that queues nothing and takes nothing from a flush.
LEMMA QuietLive ==
  ASSUME TypeOK, LiveInv, ~Idle, life' = life, lost' = lost, pendingEffects' = pendingEffects,
         stack' \in Seq(Frames), NEW l, l = Len(stack), Len(stack') >= l - 1,
         \A i \in 1 .. l - 1 : stack'[i] = stack[i],
         Top.call = "flush" => Top.left = <<>>,
         \A e \in Effects : state'[e] # CLEAN => state[e] # CLEAN,
         \A e \in Effects : state'[e] # CLEAN /\ Top.call = "pull" /\ Top.node = e =>
           Len(stack') >= l /\ stack'[l].call = "pull" /\ stack'[l].node = e
  PROVE  LiveInv'
<1>1. Top = stack[l] /\ l \in Nat \ {0} BY TopFacts
<1>2. ASSUME NEW e \in Effects, state'[e] # CLEAN, Waits(e) \/ Pulled(e) PROVE Waits(e)' \/ Pulled(e)'
  <2>1. Contains(pendingEffects, e) => Waits(e)' BY DEF Waits
  <2>2. ~Taken(e, l) BY <1>1, Empty DEF Taken
  <2>3. ASSUME IsPull(e, l) PROVE Pulled(e)'
    <3>1. Len(stack') >= l /\ stack'[l].call = "pull" /\ stack'[l].node = e
      BY <1>1, <1>2, <2>3 DEF IsPull
    <3>2. l \in 1 .. Len(stack')
      <4>1. Len(stack') \in Nat BY NewIndexFacts
      <4> QED BY <1>1, <3>1, <4>1
    <3> QED BY <3>1, <3>2 DEF Pulled, IsPull
  <2> QED BY <1>2, <2>1, <2>2, <2>3, StillPlaced
<1> QED BY <1>2, LiveKept

\* markStale queues the effects it finds CLEAN.
LEMMA MarkStaleLive ==
  ASSUME TypeOK, LiveInv, MarkStale
  PROVE  LiveInv'
<1>0. PICK l : l = Len(stack) OBVIOUS
<1>1. PICK h : h = Head(Top.left)[1] OBVIOUS
<1>2. PICK c : c = Head(Top.left)[2] OBVIOUS
<1>3. /\ In("mark") /\ h \in Reactions /\ c \in {CHECK, DIRTY}
      /\ stack' \in Seq(Frames) /\ Len(stack') = l /\ l \in Nat \ {0}
      /\ \A i \in 1 .. l - 1 : stack'[i] = stack[i]
      /\ \/ UNCHANGED <<state, pendingEffects>>
         \/ ~(state[h] >= c) /\ state' = [state EXCEPT ![h] = c] /\ Queue(h, c)
      /\ UNCHANGED <<life, moved, lost>>
  BY <1>0, <1>1, <1>2, MarkStaleIs DEF history
<1>4. ~Idle /\ Top = stack[l] /\ Top.call = "mark" BY <1>0, <1>3, TopFacts DEF In
<1>5. Len(stack') >= l - 1 BY <1>3
<1>6. CASE UNCHANGED <<state, pendingEffects>> BY <1>0, <1>3, <1>4, <1>5, <1>6, QuietLive
<1>7. CASE ~(state[h] >= c) /\ state' = [state EXCEPT ![h] = c] /\ Queue(h, c)
  <2>1. \A e \in Effects \ {h} : state'[e] = state[e] BY <1>7, NodeKinds DEF TypeOK
  <2>2. PICK p : p = pendingEffects OBVIOUS
  <2>3. p \in Seq(Effects) BY <2>2 DEF TypeOK
  <2>4. \A e : Contains(p, e) => Contains(pendingEffects', e)
    BY <1>7, <2>2, <2>3, ContainsAppend DEF Queue
  <2>5. ASSUME h \in Effects, state[h] = CLEAN PROVE Contains(pendingEffects', h)
    BY <1>7, <2>2, <2>3, <2>5, ContainsAppend DEF Queue
  <2>6. ASSUME NEW e \in Effects, Waits(e) \/ Pulled(e) PROVE Waits(e)' \/ Pulled(e)'
    <3>1. Contains(pendingEffects, e) => Waits(e)' BY <2>2, <2>4 DEF Waits
    <3>2. ~Taken(e, l) /\ ~IsPull(e, l) BY <1>4 DEF Taken, IsPull
    <3> QED BY <1>0, <1>3, <1>4, <1>5, <2>6, <3>1, <3>2, StillPlaced
  <2>7. ASSUME NEW e \in Effects, state'[e] # CLEAN PROVE state[e] # CLEAN \/ Waits(e)'
    <3>1. CASE e = h BY <2>5, <3>1 DEF Waits
    <3>2. CASE e # h BY <2>1, <2>7, <3>2
    <3> QED BY <3>1, <3>2
  <2> QED BY <1>3, <2>6, <2>7, LiveKept
<1> QED BY <1>3, <1>6, <1>7

\* A flush takes the queue, and runs what it takes unless it is CLEAN.
LEMMA FlushLive ==
  ASSUME TypeOK, LiveInv, FlushTake \/ FlushNext
  PROVE  LiveInv'
<1>0. PICK l : l = Len(stack) OBVIOUS
<1>1. CASE FlushTake
  <2>1. /\ In("flush") /\ ~Idle /\ Top = stack[l] /\ l \in Nat \ {0} /\ Top.left = <<>>
        /\ stack' \in Seq(Frames) /\ Len(stack') = l
        /\ stack'[l].call = "flush" /\ stack'[l].left = pendingEffects
        /\ \A i \in 1 .. l - 1 : stack'[i] = stack[i]
        /\ UNCHANGED <<state, life, history>>
    BY <1>0, <1>1, FlushTakeIs
  <2>2. Top.call = "flush" /\ Len(stack') >= l - 1 /\ l \in 1 .. Len(stack') BY <2>1 DEF In
  <2>3. ASSUME NEW e \in Effects, Waits(e) \/ Pulled(e) PROVE Waits(e)' \/ Pulled(e)'
    <3>1. ASSUME Contains(pendingEffects, e) PROVE Waits(e)'
      <4>1. Taken(e, l)' BY <2>1, <3>1 DEF Taken
      <4> QED BY <2>2, <4>1 DEF Waits
    <3>2. ~Taken(e, l) /\ ~IsPull(e, l) BY <2>1, <2>2, Empty DEF Taken, IsPull
    <3> QED BY <1>0, <2>1, <2>2, <2>3, <3>1, <3>2, StillPlaced
  <2> QED BY <2>1, <2>3, LiveKept DEF history
<1>2. CASE FlushNext
  <2>1. PICK h : h = Head(Top.left) OBVIOUS
  <2>2. PICK r : r = Tail(Top.left) OBVIOUS
  <2>3. /\ In("flush") /\ ~Idle /\ Top = stack[l] /\ l \in Nat \ {0}
        /\ h \in Effects
        /\ \A x : Contains(Top.left, x) <=> x = h \/ Contains(r, x)
        /\ stack' \in Seq(Frames)
        /\ stack'[l].call = "flush" /\ stack'[l].left = r
        /\ \A i \in 1 .. l - 1 : stack'[i] = stack[i]
        /\ state[h] = CLEAN => Len(stack') = l
        /\ state[h] # CLEAN => Len(stack') = l + 1 /\ stack'[l + 1] = Pull(h)
        /\ UNCHANGED <<state, pendingEffects, life, history>>
    BY <1>0, <1>2, <2>1, <2>2, FlushNextIs
  <2>4. Len(stack') = l \/ Len(stack') = l + 1 BY <2>3
  <2>5. Top.call = "flush" /\ Len(stack') >= l - 1 /\ l \in 1 .. Len(stack') BY <2>3, <2>4 DEF In
  <2>6. ASSUME NEW e \in Effects, state[e] # CLEAN, Waits(e) \/ Pulled(e) PROVE Waits(e)' \/ Pulled(e)'
    <3>1. Contains(pendingEffects, e) => Waits(e)' BY <2>3 DEF Waits
    <3>2. ~IsPull(e, l) BY <2>3, <2>5 DEF IsPull
    <3>3. ASSUME Taken(e, l) PROVE Waits(e)' \/ Pulled(e)'
      <4>1. Contains(Top.left, e) BY <2>3, <3>3 DEF Taken
      <4>2. CASE Contains(r, e)
        <5>1. Taken(e, l)' BY <2>3, <4>2 DEF Taken
        <5> QED BY <2>5, <5>1 DEF Waits
      <4>3. CASE e = h
        <5>1. Len(stack') = l + 1 /\ stack'[l + 1] = Pull(e) BY <2>3, <2>6, <4>3
        <5>2. IsPull(e, l + 1)' BY <5>1 DEF IsPull, Pull
        <5>3. l + 1 \in 1 .. Len(stack') BY <2>3, <5>1
        <5> QED BY <5>2, <5>3 DEF Pulled
      <4> QED BY <2>3, <4>1, <4>2, <4>3
    <3> QED BY <1>0, <2>3, <2>5, <2>6, <3>1, <3>2, <3>3, StillPlaced
  <2> QED BY <2>3, <2>6, LiveKept DEF history
<1> QED BY <1>1, <1>2

\* A computed returns a new value: an effect that observes it was not CLEAN, for the computed
\* was not.
LEMMA RunReturnLive ==
  ASSUME TypeOK, EdgesInv, StackInv, QueueInv, ColourInv(Reactions), LiveInv, RunReturn
  PROVE  LiveInv'
<1>0. PICK l : l = Len(stack) OBVIOUS
<1>1. PICK t : t = Top.node OBVIOUS
<1>2. /\ In("run") /\ ~Idle /\ l \in Nat \ {0} /\ t \in Reactions
      /\ stack' \in Seq(Frames) /\ Len(stack') = l - 1
      /\ \A i \in 1 .. l - 1 : stack'[i] = stack[i]
      /\ \/ state' = state
         \/ /\ t \in Computeds
            /\ \A n \in Nodes : Contains(observers[t], n) => state'[n] = DIRTY
            /\ \A n \in Nodes : ~Contains(observers[t], n) => state'[n] = state[n]
      /\ UNCHANGED <<pendingEffects, life, lost>>
  BY <1>0, <1>1, RunReturnIs
<1>3. Top.call = "run" BY <1>2 DEF In
<1>4. Top = stack[l] /\ l \in 1 .. Len(stack) BY <1>0, <1>2, TopFacts
<1>5. state[t] = DIRTY BY <1>1, <1>3, <1>4, RunUnder
<1>6. ~In("mark") BY <1>3 DEF In
<1>7. \A n, c : ~Marked(n, c) BY <1>6, NoMarks
<1>8. ASSUME NEW e \in Effects, state'[e] # CLEAN PROVE state[e] # CLEAN
  <2>1. e \in Nodes /\ e \in Reactions BY NodeKinds
  <2>2. CASE state' = state BY <1>8, <2>2
  <2>3. CASE t \in Computeds /\ Contains(observers[t], e)
    <3>1. t \in Nodes /\ t \in Readable BY <2>3, NodeKinds
    <3>2. Contains(sources[e], t) BY <2>1, <2>3, <3>1 DEF EdgesInv
    <3> SUFFICES ASSUME state[e] = CLEAN PROVE FALSE OBVIOUS
    <3>3. SourcesClean(e) BY <1>7, <2>1 DEF ColourInv, NodeOK, MaybeMarked
    <3>4. state[t] = CLEAN BY <3>1, <3>2, <3>3 DEF SourcesClean
    <3> QED BY <1>5, <3>4 DEF CLEAN, DIRTY
  <2>4. CASE state' # state /\ ~Contains(observers[t], e) BY <1>2, <1>8, <2>1, <2>4
  <2> QED BY <1>2, <2>2, <2>3, <2>4
<1>9. Len(stack') >= l - 1 BY <1>2
<1> QED BY <1>0, <1>2, <1>3, <1>8, <1>9, QuietLive

\* An exception loses what was taken and not run; the queue stays.
LEMMA RunThrowLive ==
  ASSUME TypeOK, LiveInv, RunThrow
  PROVE  LiveInv'
<1>1. DOMAIN stack = 1 .. Len(stack)
  <2>1. PICK s : s = stack OBVIOUS
  <2>2. s \in Seq(Frames) BY <2>1 DEF TypeOK
  <2>3. DOMAIN s = 1 .. Len(s) BY <2>2, LenProperties
  <2> QED BY <2>1, <2>3
<1>2. PICK pulled : pulled = {stack[i].node : i \in {j \in DOMAIN stack : stack[j].call = "pull"}} OBVIOUS
<1>3. PICK taken : taken = UNION {ToSet(stack[i].left) : i \in {j \in DOMAIN stack : stack[j].call = "flush"}}
  OBVIOUS
<1>4. /\ stack' = <<>> /\ lost' = lost \cup ((pulled \cup taken) \cap Effects)
      /\ UNCHANGED <<state, pendingEffects, life>>
  BY <1>2, <1>3 DEF RunThrow
<1>5. ASSUME NEW e \in Effects, e \notin lost', Waits(e) \/ Pulled(e) PROVE Waits(e)'
  <2>1. e \notin pulled /\ e \notin taken BY <1>4, <1>5
  <2>2. ~Pulled(e)
    <3> SUFFICES ASSUME NEW i \in 1 .. Len(stack), IsPull(e, i) PROVE FALSE BY DEF Pulled
    <3>1. e \in pulled BY <1>1, <1>2 DEF IsPull
    <3> QED BY <2>1, <3>1
  <2>3. ASSUME NEW i \in 1 .. Len(stack), Taken(e, i) PROVE FALSE
    <3>1. stack[i].call = "flush" /\ Contains(stack[i].left, e) BY <2>3 DEF Taken
    <3>2. PICK t : t = stack[i].left OBVIOUS
    <3>3. t \in Seq(Effects) BY <3>1, <3>2, FrameTypes
    <3>4. e \in ToSet(t) BY <3>1, <3>2, <3>3 DEF Contains, ToSet
    <3>5. e \in taken BY <1>1, <1>3, <3>1, <3>2, <3>4
    <3> QED BY <2>1, <3>5
  <2>4. Contains(pendingEffects, e) BY <1>5, <2>2, <2>3 DEF Waits
  <2> QED BY <1>4, <2>4 DEF Waits
<1>6. lost \subseteq lost' BY <1>4
<1> QED BY <1>4, <1>5, <1>6, LiveKept

\* Every step keeps live effects in their places.
LEMMA LiveKeeps ==
  ASSUME GraphInv, ColourInv(Reactions), LiveInv, Next
  PROVE  LiveInv'
<1>0. TypeOK /\ EdgesInv /\ StackInv /\ QueueInv BY DEF GraphInv
<1>1. PICK l : l = Len(stack) OBVIOUS
<1>2. CASE UserStep BY <1>0, <1>2, UserLive
<1>3. CASE MarkStale BY <1>0, <1>3, MarkStaleLive
<1>4. CASE MarkDone \/ FlushDone
  <2>1. /\ ~Idle /\ l \in Nat \ {0}
        /\ In("mark") \/ In("flush")
        /\ Top.left = <<>>
        /\ stack' \in Seq(Frames) /\ Len(stack') = l - 1
        /\ \A i \in 1 .. l - 1 : stack'[i] = stack[i]
        /\ UNCHANGED <<state, pendingEffects, life, history>>
    BY <1>0, <1>1, <1>4, DoneIs
  <2>2. Top.call # "pull" /\ Len(stack') >= l - 1 BY <2>1 DEF In
  <2> QED BY <1>0, <1>1, <2>1, <2>2, QuietLive DEF history
<1>5. CASE FlushTake \/ FlushNext BY <1>0, <1>5, FlushLive
<1>6. CASE PullSource
  <2>1. /\ In("pull") /\ ~Idle /\ l \in Nat \ {0}
        /\ stack' \in Seq(Frames) /\ Len(stack') = l + 1
        /\ stack'[l].call = "pull" /\ stack'[l].node = Top.node
        /\ \A i \in 1 .. l - 1 : stack'[i] = stack[i]
        /\ UNCHANGED <<state, pendingEffects, life, history>>
    BY <1>0, <1>1, <1>6, PullSourceIs
  <2>2. Top.call = "pull" /\ Len(stack') >= l - 1 /\ Len(stack') >= l BY <2>1 DEF In
  <2> QED BY <1>0, <1>1, <2>1, <2>2, QuietLive DEF history
<1>7. CASE PullUpdate
  <2>1. /\ In("pull") /\ ~Idle /\ l \in Nat \ {0}
        /\ stack' \in Seq(Frames) /\ Len(stack') = l + 1
        /\ stack'[l].call = "pull" /\ stack'[l].node = Top.node
        /\ \A i \in 1 .. l - 1 : stack'[i] = stack[i]
        /\ UNCHANGED <<state, pendingEffects, life, lost>>
    BY <1>0, <1>1, <1>7, PullUpdateIs
  <2>2. Top.call = "pull" /\ Len(stack') >= l - 1 /\ Len(stack') >= l BY <2>1 DEF In
  <2> QED BY <1>0, <1>1, <2>1, <2>2, QuietLive
<1>8. CASE PullDone
  <2>1. /\ In("pull") /\ ~Idle /\ l \in Nat \ {0} /\ Top.node \in Nodes
        /\ stack' \in Seq(Frames) /\ Len(stack') = l - 1
        /\ \A i \in 1 .. l - 1 : stack'[i] = stack[i]
        /\ state'[Top.node] = CLEAN /\ \A n \in Nodes \ {Top.node} : state'[n] = state[n]
        /\ UNCHANGED <<pendingEffects, life, history>>
    BY <1>0, <1>1, <1>8, PullDoneIs
  <2>2. Top.call = "pull" /\ Len(stack') >= l - 1 BY <2>1 DEF In
  <2>3. ASSUME NEW e \in Effects, state'[e] # CLEAN PROVE state[e] # CLEAN /\ e # Top.node
    BY <2>1, <2>3, NodeKinds
  <2> QED BY <1>0, <1>1, <2>1, <2>2, <2>3, QuietLive DEF history
<1>9. CASE RunRead \/ RunPeek
  <2>1. ASSUME NEW tracked \in BOOLEAN, Running(IF tracked THEN "read" ELSE "peek"),
               Reads(NextOp(Top).node, tracked)
        PROVE  LiveInv'
    <3>1. PICK k : k = NextOp(Top).node OBVIOUS
    <3>2. /\ In("run") /\ ~Idle /\ l \in Nat \ {0} /\ stack' \in Seq(Frames)
          /\ \A i \in 1 .. l - 1 : stack'[i] = stack[i]
          /\ k \in Sigs => Len(stack') = l
          /\ k \notin Sigs => Len(stack') = l + 1
          /\ UNCHANGED <<state, pendingEffects, life, history>>
      BY <1>0, <1>1, <2>1, <3>1, ReadsIs, Zenon
    <3>3. Len(stack') = l \/ Len(stack') = l + 1 BY <3>2
    <3>4. Top.call = "run" /\ Len(stack') >= l - 1 BY <3>2, <3>3 DEF In
    <3>5. life' = life /\ lost' = lost /\ pendingEffects' = pendingEffects /\ state' = state
      BY <3>2 DEF history
    <3> QED BY <1>0, <1>1, <3>2, <3>4, <3>5, QuietLive
  <2>2. RunRead => Running(IF TRUE THEN "read" ELSE "peek") /\ Reads(NextOp(Top).node, TRUE) BY DEF RunRead
  <2>3. RunPeek => Running(IF FALSE THEN "read" ELSE "peek") /\ Reads(NextOp(Top).node, FALSE) BY DEF RunPeek
  <2> QED BY <1>9, <2>1, <2>2, <2>3
<1>10. CASE RunGets
  <2>1. /\ In("run") /\ ~Idle /\ l \in Nat \ {0} /\ stack' \in Seq(Frames) /\ Len(stack') = l
        /\ \A i \in 1 .. l - 1 : stack'[i] = stack[i]
        /\ UNCHANGED <<state, pendingEffects, life, history>>
    BY <1>0, <1>1, <1>10, RunGetsIs
  <2>2. Top.call = "run" /\ Len(stack') >= l - 1 BY <2>1 DEF In
  <2> QED BY <1>0, <1>1, <2>1, <2>2, QuietLive DEF history
<1>11. CASE RunWrite
  <2>1. /\ In("run") /\ ~Idle /\ l \in Nat \ {0} /\ stack' \in Seq(Frames)
        /\ Len(stack') = l \/ Len(stack') = l + 1 \/ Len(stack') = l + 2
        /\ \A i \in 1 .. l - 1 : stack'[i] = stack[i]
        /\ UNCHANGED <<state, pendingEffects, life, lost>>
    <3>1. /\ In("run") /\ ~Idle /\ l \in Nat \ {0} /\ stack' \in Seq(Frames)
          /\ \/ Len(stack') = l
             \/ /\ batchDepth = 0 => Len(stack') = l + 2
                /\ batchDepth # 0 => Len(stack') = l + 1
          /\ \A i \in 1 .. l - 1 : stack'[i] = stack[i]
          /\ UNCHANGED <<state, pendingEffects, life, lost>>
      BY <1>0, <1>1, <1>11, RunWriteIs
    <3> QED BY <3>1
  <2>2. Top.call = "run" /\ Len(stack') >= l - 1 BY <2>1 DEF In
  <2> QED BY <1>0, <1>1, <2>1, <2>2, QuietLive
<1>12. CASE RunReturn BY <1>0, <1>12, RunReturnLive
<1>13. CASE RunThrow BY <1>0, <1>13, RunThrowLive
<1> QED BY <1>2, <1>3, <1>4, <1>5, <1>6, <1>7, <1>8, <1>9, <1>10, <1>11, <1>12, <1>13 DEF Next

\* Nobody is left behind: what an effect has read is current when all calls are over.
LEMMA NobodyLeft ==
  ASSUME GraphInv, ColourInv(Reactions), LiveInv, PendInv
  PROVE  EffectsCurrent
<1> SUFFICES ASSUME Idle, batchDepth = 0, NEW e \in Effects, life[e] = "live", e \notin lost
             PROVE  /\ e \notin moved
                    /\ \A m \in ToSet(sources[e]) : saw[e][m] = Worth(value)[m]
  BY DEF EffectsCurrent
<1>1. TypeOK BY DEF GraphInv
<1>2. ~In("mark") /\ ~In("flush") BY DEF In
<1>3. pendingEffects = <<>> BY <1>2 DEF PendInv
<1>4. \A i \in 1 .. Len(stack) : FALSE
  <2>1. Len(stack) = 0 BY <1>1, IndexFacts
  <2> QED BY <2>1
<1>5. ~Waits(e) /\ ~Pulled(e) BY <1>3, <1>4, Empty DEF Waits, Pulled
<1>6. state[e] = CLEAN BY <1>5 DEF LiveInv
<1>7. \A n, c : ~Marked(n, c) BY <1>2, NoMarks
<1>8. e \in Reactions /\ e \in Nodes BY NodeKinds
<1>9. NodeOK(e) /\ state[e] # DIRTY /\ ~Disposed(e) BY <1>6, <1>8 DEF ColourInv, Disposed, CLEAN, DIRTY
<1>10. e \notin moved BY <1>7, <1>9 DEF NodeOK
<1>11. Agrees(e) /\ SourcesClean(e) BY <1>6, <1>7, <1>9 DEF NodeOK, MaybeMarked
<1>12. ASSUME NEW m \in ToSet(sources[e]) PROVE saw[e][m] = Worth(value)[m]
  <2>1. PICK s : s = sources[e] OBVIOUS
  <2>2. s \in Seq(Readable) BY <1>1, <1>8, <2>1 DEF TypeOK
  <2>3. Contains(s, m) /\ m \in Readable BY <1>12, <2>1, <2>2 DEF Contains, ToSet
  <2>4. saw[e][m] = value[m] /\ state[m] = CLEAN BY <1>11, <2>1, <2>3 DEF Agrees, SourcesClean
  <2>5. value[m] = Worth(value)[m] BY <1>2, <2>3, <2>4, CurrentNow
  <2> QED BY <2>4, <2>5
<1> QED BY <1>10, <1>12

\* So does a stuttering step.
LEMMA SameLive ==
  ASSUME LiveInv, PendInv, UNCHANGED vars
  PROVE  LiveInv' /\ PendInv'
<1>1. \A n, i : Taken(n, i)' <=> Taken(n, i) BY DEF vars, Taken
<1>2. \A n, i : IsPull(n, i)' <=> IsPull(n, i) BY DEF vars, IsPull
<1>3. \A n : Waits(n)' <=> Waits(n) BY <1>1 DEF vars, Waits
<1>4. \A n : Pulled(n)' <=> Pulled(n) BY <1>2 DEF vars, Pulled
<1>5. LiveInv' BY <1>3, <1>4 DEF LiveInv, vars, history
<1>6. PendInv' BY SameTop DEF PendInv, vars
<1> QED BY <1>5, <1>6

\* Theorem.  When no call is in progress and no batch is open, every live effect has run on the
\* current values, except those an exception kept from it (markStale, flush); for programs in
\* which no function is marked by what it did while it runs.
THEOREM EffectsCurrentHolds == Spec /\ []NoneMarkedRunning => []EffectsCurrent
<1>1. Init => LiveInv /\ PendInv
  <2> SUFFICES ASSUME Init PROVE LiveInv /\ PendInv OBVIOUS
  <2>1. \A e \in Effects : life[e] = "none" BY DEF Init
  <2>2. stack = <<>> /\ pendingEffects = <<>> BY DEF Init
  <2>3. ~In("mark") BY <2>2 DEF In, Idle
  <2> QED BY <2>1, <2>2, <2>3 DEF LiveInv, PendInv
<1>2. GraphInv /\ ColourInv(Reactions) /\ LiveInv /\ PendInv /\ [Next]_vars => LiveInv' /\ PendInv'
  <2>1. ASSUME GraphInv, ColourInv(Reactions), LiveInv, PendInv, Next PROVE LiveInv' /\ PendInv'
    <3>1. PendInv' BY <2>1, PendKeeps DEF GraphInv
    <3> QED BY <2>1, <3>1, LiveKeeps
  <2>2. ASSUME LiveInv, PendInv, UNCHANGED vars PROVE LiveInv' /\ PendInv' BY <2>2, SameLive
  <2> QED BY <2>1, <2>2
<1>3. GraphInv /\ ColourInv(Reactions) /\ LiveInv /\ PendInv => EffectsCurrent BY NobodyLeft
<1> QED BY <1>1, <1>2, <1>3, GraphHolds, EffectsHold, PTL DEF Spec
=============================================================================
