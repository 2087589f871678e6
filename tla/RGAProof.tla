------------------------------- MODULE RGAProof -------------------------------
(***************************************************************************)
(* Proofs about RGA, for any replicas and any number of operations: two    *)
(* replicas that have been given the same operations hold the same nodes   *)
(* (Converged), replicas that have not still agree on the order of what    *)
(* they share (OrderAgrees), an element appears where its author put it    *)
(* (InsertLandsAtIndex), and deleted elements stay deleted                 *)
(* (NoResurrection).                                                       *)
(*                                                                         *)
(* Converged is not inductive: it says nothing of replicas in the middle of*)
(* apply, or with different operations behind them.  What is kept is that  *)
(* nodes come from received operations only (Caused), that a received      *)
(* operation is applied, still to be applied, or waits for a node that is  *)
(* missing (Handled), and that chains of predecessors end at the root      *)
(* (Grounded).  The last one takes the place of an induction along such a  *)
(* chain: of the nodes one replica has and another lacks, one follows a    *)
(* node the other has, so nothing there can have kept it waiting.          *)
(*                                                                         *)
(* The order of the text is that of a walk over a tree.  What follows from *)
(* the walk alone is proved of trees first: two of them that agree on the  *)
(* nodes they share are read in one order, and a leaf newer than its       *)
(* siblings comes right after its parent.  That the nodes are such trees   *)
(* is Lamport, that of a replica's own insertions is OwnInv.               *)
(***************************************************************************)
EXTENDS RGA, WellFoundedInduction, SequenceTheorems, FiniteSetTheorems, TLAPS

Ops == [type : {"ins"}, id : Ids, dep : Deps] \cup [type : {"del"}, dep : Ids]
Node == [after : Ids \cup {Root}, deleted : BOOLEAN]

TypeOK ==
  /\ clock \in [Replicas -> Nat]
  /\ DOMAIN nodes = Replicas
  /\ \A r \in Replicas :
       DOMAIN nodes[r] \subseteq Ids /\ nodes[r] \in [DOMAIN nodes[r] -> Node]
  /\ pending \in [Replicas -> [Deps -> Seq(Ops)]]
  /\ todo \in [Replicas -> Seq(Ops)]
  /\ sent \subseteq Ops
  /\ received \in [Replicas -> SUBSET Ops]

\* The clocks are ahead of the ids, so that an id is given once, and behind the
\* number of operations, so that the ids stay within Ids.
IdsInv ==
  /\ IsFiniteSet(sent)
  /\ \A r \in Replicas : clock[r] <= Cardinality(sent)
  /\ \A op \in sent : op.type = "ins" =>
       op.id[1] <= Cardinality(sent) /\ op.id[1] <= clock[op.id[2]]
  /\ \A a, b \in sent : a.type = "ins" /\ b.type = "ins" /\ a.id = b.id => a = b

\* Replica r holds on to received operations only.
Known(r) ==
  /\ received[r] \subseteq sent
  /\ Range(todo[r]) \subseteq received[r]
  /\ \A d \in Deps : Range(pending[r][d]) \subseteq received[r]

Applied(r, op) ==
  IF op.type = "ins" THEN Present(r, op.id)
                     ELSE Present(r, op.dep) /\ nodes[r][op.dep].deleted
Waits(r, op) ==
  op.dep # Root /\ ~Present(r, op.dep) /\ op \in Range(pending[r][op.dep])
Handled(r) ==
  \A op \in received[r] : Applied(r, op) \/ op \in Range(todo[r]) \/ Waits(r, op)

Caused(r) ==
  \A k \in DOMAIN nodes[r] :
    /\ Ins(k, nodes[r][k].after) \in received[r]
    /\ nodes[r][k].deleted => Del(k) \in received[r]

Grounded(r) ==
  /\ \A k \in DOMAIN nodes[r] : nodes[r][k].after = Root \/ Present(r, nodes[r][k].after)
  /\ \A X \in SUBSET DOMAIN nodes[r] : X # {} => \E k \in X : nodes[r][k].after \notin X

Local(r) == Known(r) /\ Handled(r) /\ Caused(r) /\ Grounded(r)
LocalInv == \A r \in Replicas : Local(r)

IInv == TypeOK /\ IdsInv /\ LocalInv

-----------------------------------------------------------------------------
(* Induction: a set that holds zero and all successors is that of the      *)
(* naturals.                                                               *)

\* A set of naturals has a least element.
LEMMA LeastOf ==
  ASSUME NEW T \in SUBSET Nat, T # {}
  PROVE  \E x \in T : \A y \in T : x <= y
<1> DEFINE R == OpToRel(<, Nat)
<1>1. IsWellFoundedOn(R, Nat) BY NatLessThanWellFounded
<1> HIDE DEF R
<1>2. \E x \in T : \A y \in T : <<y, x>> \notin R BY <1>1, WFMin
<1>3. \A x, y \in Nat : y < x => <<y, x>> \in R BY DEF R, OpToRel
<1>4. PICK x \in T : \A y \in T : <<y, x>> \notin R BY <1>2
<1>5. ASSUME NEW y \in T PROVE x <= y
  <2>1. ~(y < x) BY <1>3, <1>4
  <2>2. x \in Int /\ y \in Int OBVIOUS
  <2> QED BY <2>1, <2>2
<1> QED BY <1>5

\* Upwards from 0.
LEMMA Upwards ==
  ASSUME NEW T \in SUBSET Nat, 0 \in T, \A n \in T : n + 1 \in T
  PROVE  T = Nat
<1> SUFFICES ASSUME Nat \ T # {} PROVE FALSE OBVIOUS
<1>1. PICK x \in Nat \ T : \A y \in Nat \ T : x <= y BY LeastOf
<1>2. x - 1 \in T BY <1>1
<1> QED BY <1>1, <1>2

-----------------------------------------------------------------------------
(* Sequences, and the ids of operations.                                   *)

\* The empty sequence.
LEMMA RangeEmpty == ASSUME NEW S PROVE <<>> \in Seq(S) /\ Range(<<>>) = {}
<1> DEFINE e == <<>>
<1>1. e \in Seq(S) /\ Len(e) = 0 OBVIOUS
<1> HIDE DEF e
<1>2. Range(e) = {e[i] : i \in 1 .. Len(e)} BY <1>1, RangeEquality
<1>3. 1 .. Len(e) = {} BY <1>1
<1> QED BY <1>1, <1>2, <1>3 DEF e

\* A sequence of one element.
LEMMA RangeOne == ASSUME NEW S, NEW x \in S PROVE <<x>> \in Seq(S) /\ Range(<<x>>) = {x}
<1> DEFINE e == <<x>>
<1>1. e \in Seq(S) /\ Len(e) = 1 /\ e[1] = x OBVIOUS
<1> HIDE DEF e
<1>2. Range(e) = {e[i] : i \in 1 .. Len(e)} BY <1>1, RangeEquality
<1> QED BY <1>1, <1>2 DEF e

\* Appending.
LEMMA RangeAppend ==
  ASSUME NEW S, NEW s \in Seq(S), NEW x \in S
  PROVE  Append(s, x) \in Seq(S) /\ Range(Append(s, x)) = Range(s) \cup {x}
<1> DEFINE t == Append(s, x)
<1>1. /\ t \in Seq(S) /\ Len(t) = Len(s) + 1 /\ Len(s) \in Nat
      /\ \A i \in 1 .. Len(s) : t[i] = s[i]
      /\ t[Len(s) + 1] = x
  BY AppendProperties, LenProperties
<1> HIDE DEF t
<1>2. Range(s) = {s[i] : i \in 1 .. Len(s)} /\ Range(t) = {t[i] : i \in 1 .. Len(t)}
  BY <1>1, RangeEquality
<1> QED BY <1>1, <1>2 DEF t

\* Taking the first element.
LEMMA RangeHeadTail ==
  ASSUME NEW S, NEW s \in Seq(S), s # <<>>
  PROVE  /\ Head(s) \in S /\ Tail(s) \in Seq(S)
         /\ Range(s) = {Head(s)} \cup Range(Tail(s))
<1>1. Len(s) \in Nat \ {0} BY EmptySeq
<1>2. /\ Head(s) \in S /\ Tail(s) \in Seq(S) /\ Len(Tail(s)) = Len(s) - 1
      /\ \A i \in 1 .. Len(s) - 1 : Tail(s)[i] = s[i + 1]
  BY HeadTailProperties
<1>3. /\ Range(s) = {s[i] : i \in 1 .. Len(s)}
      /\ Range(Tail(s)) = {Tail(s)[i] : i \in 1 .. Len(Tail(s))}
  BY <1>2, RangeEquality
<1>4. Head(s) = s[1] OBVIOUS
<1>5. ASSUME NEW y \in Range(s) PROVE y \in {Head(s)} \cup Range(Tail(s))
  <2>1. PICK i \in 1 .. Len(s) : y = s[i] BY <1>3
  <2>2. CASE i = 1 BY <1>4, <2>1, <2>2
  <2>3. CASE i # 1
    <3>1. i - 1 \in 1 .. Len(s) - 1 /\ (i - 1) + 1 = i BY <1>1, <2>3
    <3>2. y = Tail(s)[i - 1] BY <1>2, <2>1, <3>1
    <3> QED BY <1>2, <1>3, <3>1, <3>2
  <2> QED BY <2>2, <2>3
<1>6. ASSUME NEW y \in Range(Tail(s)) PROVE y \in Range(s)
  <2>1. PICK i \in 1 .. Len(s) - 1 : y = s[i + 1] BY <1>2, <1>3
  <2>2. i + 1 \in 1 .. Len(s) BY <1>1
  <2> QED BY <1>3, <2>1, <2>2
<1>7. Head(s) \in Range(s) BY <1>1, <1>3, <1>4
<1> QED BY <1>2, <1>5, <1>6, <1>7

\* An operation is an insertion, with an id, or a deletion.
LEMMA OpKinds ==
  \A op \in Ops :
    \/ op.type = "ins" /\ op.id \in Ids /\ op.dep \in Deps /\ op = Ins(op.id, op.dep)
    \/ op.type = "del" /\ op.dep \in Ids /\ op.dep \in Deps /\ op = Del(op.dep)
BY DEF Ops, Ins, Del, Deps

\* A new operation, and the sets of operations.
LEMMA NewOps ==
  /\ \A id \in Ids, dep \in Deps :
       /\ Ins(id, dep) \in Ops
       /\ Ins(id, dep).type = "ins" /\ Ins(id, dep).id = id /\ Ins(id, dep).dep = dep
  /\ \A key \in Ids : Del(key) \in Ops /\ Del(key).type = "del" /\ Del(key).dep = key
BY DEF Ops, Ins, Del

-----------------------------------------------------------------------------
(* What stands before what in a sequence.                                  *)

Before(s, a, b) == \E i, j \in 1 .. Len(s) : i < j /\ s[i] = a /\ s[j] = b

\* What is before what in two sequences, one after the other.
LEMMA ConcatOrder ==
  ASSUME NEW S, NEW s \in Seq(S), NEW t \in Seq(S)
  PROVE  /\ s \o t \in Seq(S)
         /\ Range(s \o t) = Range(s) \cup Range(t)
         /\ \A a, b : Before(s \o t, a, b) <=>
              \/ Before(s, a, b)
              \/ Before(t, a, b)
              \/ a \in Range(s) /\ b \in Range(t)
<1> DEFINE u == s \o t
<1>1. /\ u \in Seq(S) /\ Len(u) = Len(s) + Len(t)
      /\ \A i \in 1 .. Len(u) : u[i] = IF i <= Len(s) THEN s[i] ELSE t[i - Len(s)]
  BY ConcatProperties
<1>2. Len(s) \in Nat /\ Len(t) \in Nat BY LenProperties
<1> HIDE DEF u
<1>3. /\ Range(s) = {s[i] : i \in 1 .. Len(s)} /\ Range(t) = {t[i] : i \in 1 .. Len(t)}
      /\ Range(u) = {u[i] : i \in 1 .. Len(u)}
  BY <1>1, RangeEquality
<1>4. \A i \in 1 .. Len(s) : i \in 1 .. Len(u) /\ u[i] = s[i] BY <1>1, <1>2
<1>5. \A i \in 1 .. Len(t) : Len(s) + i \in 1 .. Len(u) /\ u[Len(s) + i] = t[i]
  <2> TAKE i \in 1 .. Len(t)
  <2>1. Len(s) + i \in 1 .. Len(u) /\ ~(Len(s) + i <= Len(s)) /\ (Len(s) + i) - Len(s) = i
    BY <1>1, <1>2
  <2> QED BY <1>1, <2>1
<1>6. \A i \in 1 .. Len(u) : \/ i \in 1 .. Len(s) /\ u[i] = s[i]
                             \/ i - Len(s) \in 1 .. Len(t) /\ u[i] = t[i - Len(s)]
  BY <1>1, <1>2
<1>7. Range(u) = Range(s) \cup Range(t)
  <2>1. Range(u) \subseteq Range(s) \cup Range(t) BY <1>3, <1>6
  <2>2. Range(s) \cup Range(t) \subseteq Range(u) BY <1>3, <1>4, <1>5
  <2> QED BY <2>1, <2>2
<1>8. ASSUME NEW a, NEW b, Before(u, a, b)
      PROVE  Before(s, a, b) \/ Before(t, a, b) \/ (a \in Range(s) /\ b \in Range(t))
  <2>1. PICK i \in 1 .. Len(u), j \in 1 .. Len(u) : i < j /\ u[i] = a /\ u[j] = b
    BY <1>8 DEF Before
  <2>2. CASE j \in 1 .. Len(s) /\ u[j] = s[j]
    <3>1. i \in 1 .. Len(s) /\ u[i] = s[i] BY <1>2, <1>4, <2>1, <2>2
    <3> QED BY <2>1, <2>2, <3>1 DEF Before
  <2>3. CASE j - Len(s) \in 1 .. Len(t) /\ u[j] = t[j - Len(s)]
    <3>1. CASE i \in 1 .. Len(s) /\ u[i] = s[i] BY <1>3, <2>1, <2>3, <3>1
    <3>2. CASE i - Len(s) \in 1 .. Len(t) /\ u[i] = t[i - Len(s)]
      <4>1. i - Len(s) < j - Len(s) BY <1>2, <2>1
      <4> QED BY <2>1, <2>3, <3>2, <4>1 DEF Before
    <3> QED BY <1>6, <3>1, <3>2
  <2> QED BY <1>6, <2>2, <2>3
<1>9. ASSUME NEW a, NEW b, Before(s, a, b) PROVE Before(u, a, b)
  <2>1. PICK i \in 1 .. Len(s), j \in 1 .. Len(s) : i < j /\ s[i] = a /\ s[j] = b
    BY <1>9 DEF Before
  <2> QED BY <1>4, <2>1 DEF Before
<1>10. ASSUME NEW a, NEW b, Before(t, a, b) PROVE Before(u, a, b)
  <2>1. PICK i \in 1 .. Len(t), j \in 1 .. Len(t) : i < j /\ t[i] = a /\ t[j] = b
    BY <1>10 DEF Before
  <2>2. Len(s) + i < Len(s) + j BY <1>2, <2>1
  <2> QED BY <1>5, <2>1, <2>2 DEF Before
<1>11. ASSUME NEW a \in Range(s), NEW b \in Range(t) PROVE Before(u, a, b)
  <2>1. PICK i \in 1 .. Len(s), j \in 1 .. Len(t) : s[i] = a /\ t[j] = b BY <1>3
  <2>2. i < Len(s) + j BY <1>2, <2>1
  <2> QED BY <1>4, <1>5, <2>1, <2>2 DEF Before
<1> QED BY <1>1, <1>7, <1>8, <1>9, <1>10, <1>11 DEF u

\* f[i] is the first i of the sequences ss, put together (as FlattenSeq does it).
Flattens(f, m, ss) == f = [i \in 1 .. m |-> IF i = 1 THEN ss[i] ELSE f[i - 1] \o ss[i]]

\* The prefixes that FlattenSeq puts together exist.
LEMMA PrefixesExist ==
  ASSUME NEW S, NEW m \in Nat, NEW ss \in [1 .. m -> Seq(S)]
  PROVE  \E f \in [1 .. m -> Seq(S)] : Flattens(f, m, ss)
<1> DEFINE Upto(f, k) == \A i \in 1 .. k :
             f[i] = IF i = 1 THEN ss[i] ELSE f[i - 1] \o ss[i]
           T == {k \in Nat : k <= m => \E f \in [1 .. k -> Seq(S)] : Upto(f, k)}
<1>1. 0 \in T
  <2>1. \E f \in [1 .. 0 -> Seq(S)] : TRUE
    <3> DEFINE f == [i \in 1 .. 0 |-> <<>>]
    <3>1. f \in [1 .. 0 -> Seq(S)] OBVIOUS
    <3> QED BY <3>1
  <2>2. \A f : Upto(f, 0) OBVIOUS
  <2> HIDE DEF Upto
  <2> QED BY <2>1, <2>2
<1>2. ASSUME NEW k \in T PROVE k + 1 \in T
  <2> SUFFICES ASSUME k + 1 <= m PROVE \E f \in [1 .. k + 1 -> Seq(S)] : Upto(f, k + 1)
    <3>1. k + 1 \in Nat OBVIOUS
    <3> HIDE DEF Upto
    <3> QED BY <3>1
  <2>1. k \in Nat /\ k + 1 \in Nat /\ k <= m BY <1>2
  <2>2. PICK f \in [1 .. k -> Seq(S)] : Upto(f, k)
    <3> HIDE DEF Upto
    <3> QED BY <1>2, <2>1
  <2> HIDE DEF T
  <2> DEFINE last == IF k = 0 THEN ss[1] ELSE f[k] \o ss[k + 1]
             g == [i \in 1 .. k + 1 |-> IF i = k + 1 THEN last ELSE f[i]]
  <2>3. last \in Seq(S)
    <3>1. CASE k = 0 BY <3>1
    <3>2. CASE k # 0
      <4>1. f[k] \in Seq(S) /\ ss[k + 1] \in Seq(S) BY <2>1, <3>2
      <4>2. f[k] \o ss[k + 1] \in Seq(S) BY <4>1, ConcatProperties
      <4> QED BY <3>2, <4>2
    <3> QED BY <3>1, <3>2
  <2>4. g \in [1 .. k + 1 -> Seq(S)] BY <2>1, <2>3
  <2>5. ASSUME NEW i \in 1 .. k PROVE g[i] = f[i]
    <3>1. i \in 1 .. k + 1 /\ i # k + 1 BY <2>1
    <3> QED BY <3>1
  <2>6. g[k + 1] = last BY <2>1
  <2> HIDE DEF g, last
  <2>7. ASSUME NEW i \in 1 .. k + 1
        PROVE  g[i] = IF i = 1 THEN ss[i] ELSE g[i - 1] \o ss[i]
    <3>1. CASE i = k + 1 /\ k = 0 BY <2>6, <3>1 DEF last
    <3>2. CASE i = k + 1 /\ k # 0
      <4>0. k + 1 # 1 BY <2>1, <3>2
      <4>1. i - 1 = k /\ k \in 1 .. k BY <2>1, <3>2
      <4>2. g[i - 1] = f[k] BY <2>5, <4>1
      <4>3. g[i] = f[k] \o ss[k + 1] BY <2>6, <3>2 DEF last
      <4> QED BY <3>2, <4>0, <4>2, <4>3
    <3>3. CASE i # k + 1
      <4>1. i \in 1 .. k BY <2>1, <3>3
      <4>2. CASE i = 1 BY <2>2, <2>5, <4>1, <4>2
      <4>3. CASE i # 1
        <5>1. i - 1 \in 1 .. k BY <2>1, <4>1, <4>3
        <5> QED BY <2>2, <2>5, <4>1, <4>3, <5>1
      <4> QED BY <4>2, <4>3
    <3> QED BY <3>1, <3>2, <3>3
  <2> QED BY <2>4, <2>7
<1>3. m \in T
  <2>1. T \in SUBSET Nat OBVIOUS
  <2> HIDE DEF T
  <2>2. T = Nat BY <1>1, <1>2, <2>1, Upwards
  <2> QED BY <2>2
<1>4. PICK f \in [1 .. m -> Seq(S)] : Upto(f, m) BY <1>3
<1>5. f = [i \in 1 .. m |-> IF i = 1 THEN ss[i] ELSE f[i - 1] \o ss[i]] BY <1>4
<1>6. Flattens(f, m, ss) BY <1>5 DEF Flattens
<1> QED BY <1>6

\* Flattening: the elements of all the sequences, those of an earlier one first.
LEMMA FlattenOrder ==
  ASSUME NEW S, NEW m \in Nat, NEW ss \in [1 .. m -> Seq(S)]
  PROVE  /\ FlattenSeq(ss) \in Seq(S)
         /\ \A a : a \in Range(FlattenSeq(ss)) <=> \E i \in 1 .. m : a \in Range(ss[i])
         /\ \A a, b : Before(FlattenSeq(ss), a, b) <=>
              \/ \E i \in 1 .. m : Before(ss[i], a, b)
              \/ \E i, j \in 1 .. m : i < j /\ a \in Range(ss[i]) /\ b \in Range(ss[j])
<1>1. Len(ss) = m OBVIOUS
<1>2. CASE m = 0
  <2>1. FlattenSeq(ss) = ss BY <1>1, <1>2 DEF FlattenSeq
  <2>2. ss \in Seq(S) /\ Len(ss) = 0 BY <1>2
  <2>3. ss = <<>> BY <2>2, EmptySeq
  <2>4. 1 .. m = {} BY <1>2
  <2>5. Range(ss) = {} BY <2>3, RangeEmpty
  <2>6. \A a, b : ~Before(ss, a, b) BY <1>1, <2>4 DEF Before
  <2> QED BY <2>1, <2>2, <2>4, <2>5, <2>6
<1>3. CASE m # 0
  <2> DEFINE flatten == CHOOSE f : Flattens(f, m, ss)
  <2>1. FlattenSeq(ss) = flatten[m] BY <1>1, <1>3 DEF FlattenSeq, Flattens
  <2>2. Flattens(flatten, m, ss)
    <3>1. \E f : Flattens(f, m, ss) BY PrefixesExist
    <3> QED BY <3>1
  <2> HIDE DEF flatten
  <2>3. \A i \in 1 .. m : flatten[i] = IF i = 1 THEN ss[i] ELSE flatten[i - 1] \o ss[i]
    BY <2>2 DEF Flattens
  <2> DEFINE Q(k) ==
         /\ flatten[k] \in Seq(S)
         /\ \A a : a \in Range(flatten[k]) <=> \E i \in 1 .. k : a \in Range(ss[i])
         /\ \A a, b : Before(flatten[k], a, b) <=>
              \/ \E i \in 1 .. k : Before(ss[i], a, b)
              \/ \E i, j \in 1 .. k : i < j /\ a \in Range(ss[i]) /\ b \in Range(ss[j])
             T == {k \in Nat : k \in 1 .. m => Q(k)}
  <2>4. 0 \in T BY 0 \notin 1 .. m
  <2>5. ASSUME NEW k \in T PROVE k + 1 \in T
    <3> SUFFICES ASSUME k + 1 \in 1 .. m PROVE Q(k + 1) OBVIOUS
    <3>1. k \in Nat /\ (k \in 1 .. m => Q(k)) BY <2>5
    <3> HIDE DEF Q, T
    <3>4. ss[k + 1] \in Seq(S) OBVIOUS
    <3>2. CASE k = 0
      <4>1. flatten[k + 1] = ss[1] BY <2>3, <3>2
      <4>2. 1 .. k + 1 = {1} /\ k + 1 = 1 BY <3>2
      <4>3. \A i, j \in {1} : ~(i < j) OBVIOUS
      <4>4. flatten[k + 1] = ss[k + 1] BY <4>1, <4>2
      <4> QED BY <3>4, <4>2, <4>3, <4>4 DEF Q
    <3>3. CASE k # 0
      <4>1. k \in 1 .. m /\ Q(k) BY <3>1, <3>3
      <4>2. flatten[k + 1] = flatten[k] \o ss[k + 1]
        <5>1. k + 1 # 1 /\ (k + 1) - 1 = k BY <3>1, <3>3
        <5>2. flatten[k + 1] = flatten[(k + 1) - 1] \o ss[k + 1] BY <2>3, <5>1
        <5> QED BY <5>1, <5>2
      <4>3. \A i : i \in 1 .. k + 1 <=> i \in 1 .. k \/ i = k + 1 BY <3>1
      <4>4. \A i \in 1 .. k : i < k + 1 BY <3>1
      <4>5. \A i, j \in 1 .. k + 1 : i < j => i \in 1 .. k BY <3>1
      <4>6. flatten[k] \in Seq(S) BY <4>1 DEF Q
      <4>7. /\ flatten[k + 1] \in Seq(S)
            /\ Range(flatten[k + 1]) = Range(flatten[k]) \cup Range(ss[k + 1])
            /\ \A a, b : Before(flatten[k + 1], a, b) <=>
                 \/ Before(flatten[k], a, b)
                 \/ Before(ss[k + 1], a, b)
                 \/ a \in Range(flatten[k]) /\ b \in Range(ss[k + 1])
        BY <3>4, <4>2, <4>6, ConcatOrder
      <4>8. \A a : a \in Range(flatten[k + 1]) <=> \E i \in 1 .. k + 1 : a \in Range(ss[i])
        BY <4>1, <4>3, <4>7 DEF Q
      <4>9. ASSUME NEW a, NEW b
            PROVE  Before(flatten[k + 1], a, b) <=>
                     \/ \E i \in 1 .. k + 1 : Before(ss[i], a, b)
                     \/ \E i, j \in 1 .. k + 1 : i < j /\ a \in Range(ss[i]) /\ b \in Range(ss[j])
        <5>1. (\E i \in 1 .. k + 1 : Before(ss[i], a, b)) <=>
                \/ \E i \in 1 .. k : Before(ss[i], a, b)
                \/ Before(ss[k + 1], a, b)
          BY <4>3
        <5>2. (\E i, j \in 1 .. k + 1 : i < j /\ a \in Range(ss[i]) /\ b \in Range(ss[j])) <=>
                \/ \E i, j \in 1 .. k : i < j /\ a \in Range(ss[i]) /\ b \in Range(ss[j])
                \/ \E i \in 1 .. k : a \in Range(ss[i]) /\ b \in Range(ss[k + 1])
          BY <4>3, <4>4, <4>5
        <5> QED BY <4>1, <4>7, <5>1, <5>2 DEF Q
      <4> QED BY <4>7, <4>8, <4>9 DEF Q
    <3> QED BY <3>2, <3>3
  <2>6. m \in T
    <3>1. T \in SUBSET Nat OBVIOUS
    <3> HIDE DEF T
    <3>2. T = Nat BY <2>4, <2>5, <3>1, Upwards
    <3> QED BY <3>2
  <2>7. Q(m) BY <1>3, <2>6
  <2> QED BY <2>1, <2>7
<1> QED BY <1>2, <1>3

\* Filtering keeps the order.
LEMMA KeepOrder ==
  ASSUME NEW S, NEW s \in Seq(S), NEW C
  PROVE  /\ Keep(s, C) \in Seq(S)
         /\ Range(Keep(s, C)) = Range(s) \cap C
         /\ \A a, b : Before(Keep(s, C), a, b) <=> a \in C /\ b \in C /\ Before(s, a, b)
<1> DEFINE m == Len(s)
           ss == [i \in 1 .. m |-> IF s[i] \in C THEN <<s[i]>> ELSE <<>>]
<1>1. m \in Nat /\ \A i \in 1 .. m : s[i] \in S BY LenProperties, ElementOfSeq
<1>2. Range(s) = {s[i] : i \in 1 .. m} BY RangeEquality
<1>3. Keep(s, C) = FlattenSeq(ss) BY DEF Keep
<1> HIDE DEF m
<1>4. ASSUME NEW i \in 1 .. m
      PROVE  /\ ss[i] \in Seq(S) /\ \A a, b : ~Before(ss[i], a, b)
             /\ Range(ss[i]) = {s[i]} \cap C
  <2>1. CASE s[i] \in C
    <3> DEFINE e == <<s[i]>>
    <3>1. e \in Seq(S) /\ Range(e) = {s[i]} BY <1>1, RangeOne
    <3>2. Len(e) = 1 OBVIOUS
    <3>3. ss[i] = e BY <2>1
    <3> HIDE DEF e, ss
    <3>4. \A x, y \in 1 .. Len(e) : ~(x < y) BY <3>2
    <3> QED BY <2>1, <3>1, <3>3, <3>4 DEF Before
  <2>2. CASE s[i] \notin C
    <3> DEFINE e == <<>>
    <3>1. e \in Seq(S) /\ Range(e) = {} BY RangeEmpty
    <3>2. Len(e) = 0 OBVIOUS
    <3>3. ss[i] = e BY <2>2
    <3> HIDE DEF e, ss
    <3>4. 1 .. Len(e) = {} BY <3>2
    <3> QED BY <2>2, <3>1, <3>3, <3>4 DEF Before
  <2> QED BY <2>1, <2>2
<1>5. ss \in [1 .. m -> Seq(S)]
  <2>1. \A i \in 1 .. m : ss[i] \in Seq(S) BY <1>4
  <2> QED BY <2>1
<1> HIDE DEF ss
<1>6. /\ Keep(s, C) \in Seq(S)
      /\ \A a : a \in Range(Keep(s, C)) <=> \E i \in 1 .. m : a \in Range(ss[i])
      /\ \A a, b : Before(Keep(s, C), a, b) <=>
           \/ \E i \in 1 .. m : Before(ss[i], a, b)
           \/ \E i, j \in 1 .. m : i < j /\ a \in Range(ss[i]) /\ b \in Range(ss[j])
  BY <1>1, <1>3, <1>5, FlattenOrder
<1> DEFINE t == Keep(s, C)
<1> HIDE DEF t
<1>7. ASSUME NEW a PROVE a \in Range(t) <=> a \in Range(s) \cap C
  <2>1. a \in Range(t) <=> \E i \in 1 .. m : a \in Range(ss[i]) BY <1>6 DEF t
  <2>2. a \in Range(t) <=> \E i \in 1 .. m : a = s[i] /\ a \in C BY <1>4, <2>1
  <2> QED BY <1>2, <2>2
<1>8. ASSUME NEW a, NEW b PROVE Before(t, a, b) <=> a \in C /\ b \in C /\ Before(s, a, b)
  <2>1. Before(t, a, b) <=> \/ \E i \in 1 .. m : Before(ss[i], a, b)
                           \/ \E i, j \in 1 .. m :
                                i < j /\ a \in Range(ss[i]) /\ b \in Range(ss[j])
    BY <1>6 DEF t
  <2>2. Before(t, a, b) <=> \E i, j \in 1 .. m :
                             i < j /\ a = s[i] /\ a \in C /\ b = s[j] /\ b \in C
    BY <1>4, <2>1
  <2> QED BY <2>2 DEF Before, m
<1> QED BY <1>6, <1>7, <1>8 DEF t

\* Sequences without repetitions are equal when they put the same elements in the
\* same order.
LEMMA SameSequence ==
  ASSUME NEW S, NEW s \in Seq(S), NEW t \in Seq(S), Range(s) = Range(t),
         \A a : ~Before(s, a, a),
         \A a, b \in Range(s) : Before(s, a, b) <=> Before(t, a, b)
  PROVE  s = t
<1>1. /\ Len(s) \in Nat /\ Len(t) \in Nat
      /\ Range(s) = {s[i] : i \in 1 .. Len(s)} /\ Range(t) = {t[i] : i \in 1 .. Len(t)}
  BY LenProperties, RangeEquality
<1>2. ASSUME NEW i \in 1 .. Len(s), NEW j \in 1 .. Len(s), s[i] = s[j] PROVE i = j
  <2>1. ~Before(s, s[i], s[i]) OBVIOUS
  <2>2. ~(i < j) /\ ~(j < i) BY <1>2, <2>1 DEF Before
  <2> QED BY <1>1, <2>2
<1>3. ASSUME NEW i \in 1 .. Len(t), NEW j \in 1 .. Len(t), t[i] = t[j] PROVE i = j
  <2>1. t[i] \in Range(s) BY <1>1
  <2>2. ~Before(t, t[i], t[i]) BY <2>1
  <2>3. ~(i < j) /\ ~(j < i) BY <1>3, <2>2 DEF Before
  <2> QED BY <1>1, <2>3
<1> DEFINE T == {k \in Nat : k \in 1 .. Len(s) => k \in 1 .. Len(t) /\ s[k] = t[k]}
<1>4. \A k \in 1 .. Len(s) : \E j \in 1 .. Len(t) : t[j] = s[k] BY <1>1
<1>5. \A k \in 1 .. Len(t) : \E j \in 1 .. Len(s) : s[j] = t[k] BY <1>1
<1>6. ASSUME NEW k \in 1 .. Len(s), \A i \in 1 .. Len(s) : i < k => i \in 1 .. Len(t) /\ s[i] = t[i]
      PROVE  k \in 1 .. Len(t) /\ s[k] = t[k]
  <2>1. PICK j \in 1 .. Len(t) : t[j] = s[k] BY <1>4
  <2>2. j >= k BY <1>1, <1>2, <1>6, <2>1
  <2>3. k \in 1 .. Len(t) BY <1>1, <2>1, <2>2
  <2>4. CASE j # k
    <3>1. k < j BY <1>1, <2>1, <2>2, <2>4
    <3>2. Before(t, t[k], t[j]) BY <2>3, <3>1 DEF Before
    <3>3. t[k] \in Range(s) /\ t[j] \in Range(s) BY <1>1, <2>3
    <3>4. Before(s, t[k], s[k]) BY <2>1, <3>2, <3>3
    <3>5. PICK x \in 1 .. Len(s), y \in 1 .. Len(s) : x < y /\ s[x] = t[k] /\ s[y] = s[k]
      BY <3>4 DEF Before
    <3>6. y = k BY <1>2, <3>5
    <3>7. x \in 1 .. Len(t) /\ t[x] = t[k] BY <1>6, <3>5, <3>6
    <3> QED BY <1>1, <1>3, <2>3, <3>5, <3>6, <3>7
  <2> QED BY <2>1, <2>3, <2>4
<1>7. \A k \in 1 .. Len(s) : k \in 1 .. Len(t) /\ s[k] = t[k]
  <2> DEFINE U == {k \in 1 .. Len(s) : ~(k \in 1 .. Len(t) /\ s[k] = t[k])}
  <2> SUFFICES ASSUME U # {} PROVE FALSE OBVIOUS
  <2>1. U \in SUBSET Nat OBVIOUS
  <2> HIDE DEF U
  <2>2. PICK k \in U : \A i \in U : k <= i BY <2>1, LeastOf
  <2>3. k \in 1 .. Len(s) /\ ~(k \in 1 .. Len(t) /\ s[k] = t[k]) BY <2>2 DEF U
  <2>4. \A i \in 1 .. Len(s) : i < k => i \in 1 .. Len(t) /\ s[i] = t[i] BY <2>2, <2>3 DEF U
  <2> QED BY <1>6, <2>3, <2>4
<1>8. Len(t) <= Len(s)
  <2> SUFFICES ASSUME Len(t) > Len(s) PROVE FALSE BY <1>1
  <2>1. Len(t) \in 1 .. Len(t) BY <1>1
  <2>2. PICK j \in 1 .. Len(s) : s[j] = t[Len(t)] BY <1>5, <2>1
  <2>3. j \in 1 .. Len(t) /\ t[j] = t[Len(t)] BY <1>7, <2>2
  <2> QED BY <1>1, <1>3, <2>1, <2>2, <2>3
<1>9. Len(s) = Len(t)
  <2>1. CASE Len(s) = 0 BY <1>1, <1>8, <2>1
  <2>2. CASE Len(s) # 0
    <3>1. Len(s) \in 1 .. Len(s) BY <1>1, <2>2
    <3>2. Len(s) \in 1 .. Len(t) BY <1>7, <3>1
    <3> QED BY <1>1, <1>8, <3>2
  <2> QED BY <2>1, <2>2
<1> QED BY <1>7, <1>9, SeqEqual

-----------------------------------------------------------------------------
(* The walk over the tree of nodes.                                        *)

\* Newer is a strict total order on ids (cmpNodes).
LEMMA NewerOrder ==
  /\ \A a \in Ids : ~Newer(a, a)
  /\ \A a, b, c \in Ids : Newer(a, b) /\ Newer(b, c) => Newer(a, c)
  /\ \A a, b \in Ids : a # b => Newer(a, b) \/ Newer(b, a)
<1>1. ASSUME NEW a \in Ids PROVE a[1] \in Int /\ a[2] \in Int /\ a = <<a[1], a[2]>>
  <2>1. a[1] \in 1 .. MaxOps /\ a[2] \in Replicas /\ a = <<a[1], a[2]>> BY DEF Ids
  <2>2. \A i \in 1 .. MaxOps : i \in Int BY BoundsAssumption
  <2> QED BY <2>1, <2>2, ReplicasAssumption
<1> QED BY <1>1 DEF Newer

\* A group of siblings has a newest one.
LEMMA NewestExists ==
  ASSUME NEW S \in SUBSET Ids, IsFiniteSet(S), S # {}
  PROVE  \E x \in S : \A y \in S \ {x} : Newer(x, y)
<1> DEFINE Newest(X) == \E x \in X : \A y \in X \ {x} : Newer(x, y)
           T == {m \in Nat : \A X \in SUBSET Ids :
                               IsFiniteSet(X) /\ Cardinality(X) = m + 1 => Newest(X)}
<1>1. 0 \in T
  <2> SUFFICES ASSUME NEW X \in SUBSET Ids, IsFiniteSet(X), Cardinality(X) = 1
               PROVE  Newest(X)
    OBVIOUS
  <2>1. \E x : X = {x} BY FS_Singleton
  <2> QED BY <2>1
<1>2. ASSUME NEW m \in T PROVE m + 1 \in T
  <2> SUFFICES ASSUME NEW X \in SUBSET Ids, IsFiniteSet(X), Cardinality(X) = (m + 1) + 1
               PROVE  Newest(X)
    OBVIOUS
  <2>1. m \in Nat OBVIOUS
  <2>2. X # {} BY <2>1, FS_EmptySet
  <2>3. PICK z \in X : TRUE BY <2>2
  <2>4. IsFiniteSet(X \ {z}) /\ Cardinality(X \ {z}) = m + 1 BY <2>1, FS_RemoveElement
  <2>5. Newest(X \ {z}) BY <1>2, <2>4
  <2>6. PICK x \in X \ {z} : \A y \in (X \ {z}) \ {x} : Newer(x, y) BY <2>5
  <2>7. x \in Ids /\ z \in Ids /\ X \subseteq Ids OBVIOUS
  <2>8. CASE Newer(x, z)
    <3>1. \A y \in X \ {x} : Newer(x, y) BY <2>6, <2>8
    <3> QED BY <3>1
  <2>9. CASE Newer(z, x)
    <3>1. \A y \in X \ {z} : Newer(z, y) BY <2>6, <2>7, <2>9, NewerOrder
    <3> QED BY <3>1
  <2> QED BY <2>6, <2>7, <2>8, <2>9, NewerOrder
<1>3. T \in SUBSET Nat OBVIOUS
<1> HIDE DEF T
<1>4. T = Nat BY <1>1, <1>2, <1>3, Upwards
<1>5. Cardinality(S) \in Nat /\ Cardinality(S) # 0 BY FS_CardinalityType, FS_EmptySet
<1>6. Cardinality(S) - 1 \in T /\ (Cardinality(S) - 1) + 1 = Cardinality(S) BY <1>4, <1>5
<1> QED BY <1>6 DEF T

\* A group of siblings can be put in order.
LEMMA SortingExists ==
  ASSUME NEW S \in SUBSET Ids, IsFiniteSet(S)
  PROVE  \E s \in [1 .. Cardinality(S) -> S] :
           \A i, j \in 1 .. Cardinality(S) : i < j => Newer(s[i], s[j])
<1> DEFINE Sorts(s, m) == \A i, j \in 1 .. m : i < j => Newer(s[i], s[j])
           T == {m \in Nat : \A X \in SUBSET Ids :
                   IsFiniteSet(X) /\ Cardinality(X) = m => \E s \in [1 .. m -> X] : Sorts(s, m)}
<1>1. 0 \in T
  <2> SUFFICES ASSUME NEW X \in SUBSET Ids
               PROVE  \E s \in [1 .. 0 -> X] : Sorts(s, 0)
    OBVIOUS
  <2> DEFINE e == [i \in 1 .. 0 |-> Root]
  <2>1. e \in [1 .. 0 -> X] OBVIOUS
  <2>2. \A s : Sorts(s, 0) OBVIOUS
  <2> HIDE DEF e, Sorts
  <2> QED BY <2>1, <2>2
<1>2. ASSUME NEW m \in T PROVE m + 1 \in T
  <2> SUFFICES ASSUME NEW X \in SUBSET Ids, IsFiniteSet(X), Cardinality(X) = m + 1
               PROVE  \E s \in [1 .. m + 1 -> X] : Sorts(s, m + 1)
    OBVIOUS
  <2>1. m \in Nat OBVIOUS
  <2>2. X # {} BY <2>1, FS_EmptySet
  <2>3. PICK x \in X : \A y \in X \ {x} : Newer(x, y) BY <2>2, NewestExists
  <2>4. IsFiniteSet(X \ {x}) /\ Cardinality(X \ {x}) = m BY <2>1, FS_RemoveElement
  <2>5. PICK t \in [1 .. m -> X \ {x}] : Sorts(t, m)
    <3>1. X \ {x} \in SUBSET Ids OBVIOUS
    <3> HIDE DEF Sorts
    <3> QED BY <1>2, <2>4, <3>1
  <2> DEFINE s == [i \in 1 .. m + 1 |-> IF i = 1 THEN x ELSE t[i - 1]]
  <2>6. \A i \in 1 .. m + 1 : i # 1 => i - 1 \in 1 .. m BY <2>1
  <2>7. s \in [1 .. m + 1 -> X] BY <2>6
  <2>8. ASSUME NEW i \in 1 .. m + 1, NEW j \in 1 .. m + 1, i < j PROVE Newer(s[i], s[j])
    <3>1. j # 1 /\ s[j] = t[j - 1] /\ j - 1 \in 1 .. m BY <2>1, <2>6, <2>8
    <3>2. CASE i = 1 BY <2>3, <3>1, <3>2
    <3>3. CASE i # 1
      <4>1. i - 1 \in 1 .. m /\ i - 1 < j - 1 /\ s[i] = t[i - 1] BY <2>1, <2>6, <2>8, <3>3
      <4> QED BY <2>5, <3>1, <4>1
    <3> QED BY <3>2, <3>3
  <2> HIDE DEF s
  <2> QED BY <2>7, <2>8
<1>3. T \in SUBSET Nat OBVIOUS
<1> HIDE DEF T
<1>4. T = Nat BY <1>1, <1>2, <1>3, Upwards
<1>5. Cardinality(S) \in T BY <1>4, FS_CardinalityType
<1> QED BY <1>5 DEF T

\* Sorting: all the siblings, each once, newest first.
LEMMA SortedOrder ==
  ASSUME NEW S \in SUBSET Ids, IsFiniteSet(S)
  PROVE  /\ Sorted(S) \in [1 .. Cardinality(S) -> S] /\ Cardinality(S) \in Nat
         /\ Len(Sorted(S)) = Cardinality(S)
         /\ \A x \in S : \E i \in 1 .. Cardinality(S) : Sorted(S)[i] = x
         /\ \A i, j \in 1 .. Cardinality(S) : i < j => Newer(Sorted(S)[i], Sorted(S)[j])
<1> DEFINE m == Cardinality(S)
           Sorts(s) == \A i, j \in 1 .. Len(s) : i < j => Newer(s[i], s[j])
<1>1. m \in Nat BY FS_CardinalityType
<1>2. PICK f \in [1 .. m -> S] : \A i, j \in 1 .. m : i < j => Newer(f[i], f[j])
  BY SortingExists
<1> HIDE DEF m
<1>3. f \in SetToSeqs(S)
  <2>1. ASSUME NEW i \in 1 .. m, NEW j \in 1 .. m, i # j PROVE f[i] # f[j]
    <3>1. Newer(f[i], f[j]) \/ Newer(f[j], f[i]) BY <1>1, <1>2, <2>1
    <3>2. f[i] \in Ids /\ f[j] \in Ids OBVIOUS
    <3> QED BY <3>1, <3>2, NewerOrder
  <2> QED BY <2>1 DEF SetToSeqs, m
<1>4. \A s \in [1 .. m -> S] : Len(s) = m BY <1>1
<1>5. Sorts(f) BY <1>2, <1>4
<1>6. Sorted(S) \in SetToSeqs(S) /\ Sorts(Sorted(S))
  <2>1. Sorted(S) = CHOOSE s \in SetToSeqs(S) : Sorts(s) BY DEF Sorted
  <2> HIDE DEF Sorts
  <2> QED BY <1>3, <1>5, <2>1
<1>7. /\ Sorted(S) \in [1 .. m -> S]
      /\ \A i, j \in 1 .. m : i # j => Sorted(S)[i] # Sorted(S)[j]
  BY <1>6 DEF SetToSeqs, m
<1>8. Len(Sorted(S)) = m BY <1>4, <1>7
<1>9. \A x \in S : \E i \in 1 .. m : Sorted(S)[i] = x
  <2> DEFINE s == Sorted(S)
  <2>1. s \in Injection(1 .. m, S) BY <1>7 DEF Injection, IsInjective
  <2>2. Cardinality(1 .. m) = m
    <3>1. Cardinality(1 .. m) = IF 1 > m THEN 0 ELSE m - 1 + 1 BY <1>1, FS_Interval
    <3> QED BY <1>1, <3>1
  <2> HIDE DEF s
  <2>3. s \in Surjection(1 .. m, S) BY <2>1, <2>2, FS_Injection DEF m
  <2>4. \A x \in S : \E i \in 1 .. m : s[i] = x BY <2>3 DEF Surjection
  <2> QED BY <2>4 DEF s
<1> QED BY <1>1, <1>6, <1>7, <1>8, <1>9 DEF m

Level(k) == IF k = Root THEN 0 ELSE k[1]
Tree(n) ==
  /\ DOMAIN n \subseteq Ids /\ IsFiniteSet(DOMAIN n)
  /\ \A k \in DOMAIN n :
       /\ n[k].after \in DOMAIN n \cup {Root}
       /\ Level(n[k].after) < Level(k)

Branches(n, w, key) ==
  LET siblings == Sorted(Children(n, key))
  IN  [i \in 1 .. Len(siblings) |-> <<siblings[i]>> \o w[siblings[i]]]

Walks(n, w) ==
  /\ w \in [DOMAIN n \cup {Root} -> Seq(DOMAIN n)]
  /\ \A key \in DOMAIN n \cup {Root} : w[key] = FlattenSeq(Branches(n, w, key))

Sub(w, c) == {c} \cup Range(w[c])

\* The levels of a tree.
LEMMA Levels ==
  ASSUME NEW n, Tree(n)
  PROVE  /\ \A k \in DOMAIN n : k \in Ids /\ k # Root /\ Level(k) \in Nat \ {0}
         /\ \A k \in DOMAIN n \cup {Root} : Level(k) \in Nat /\ Level(k) <= MaxOps
<1>1. \A k \in Ids : k[1] \in 1 .. MaxOps BY DEF Ids
<1> QED BY <1>1, BoundsAssumption, RootAssumption DEF Tree, Level

\* The children of a node.
LEMMA ChildFacts ==
  ASSUME NEW n, Tree(n), NEW key \in DOMAIN n \cup {Root}
  PROVE  /\ Children(n, key) \in SUBSET Ids /\ IsFiniteSet(Children(n, key))
         /\ Children(n, key) \subseteq DOMAIN n
         /\ \A c \in Children(n, key) : n[c].after = key /\ Level(key) < Level(c)
<1>1. Children(n, key) \subseteq DOMAIN n BY DEF Children
<1>2. IsFiniteSet(Children(n, key)) BY <1>1, FS_Subset DEF Tree
<1> QED BY <1>1, <1>2 DEF Children, Tree

\* What the loop over the children of a node gathers, when w is what it gathers
\* for each of them.
LEMMA BranchOrder ==
  ASSUME NEW n, Tree(n), NEW w \in [DOMAIN n \cup {Root} -> Seq(DOMAIN n)],
         NEW key \in DOMAIN n \cup {Root}
  PROVE  LET s == FlattenSeq(Branches(n, w, key))
             C == Children(n, key)
         IN  /\ s \in Seq(DOMAIN n)
             /\ \A a : a \in Range(s) <=> \E c \in C : a \in Sub(w, c)
             /\ \A a, b : Before(s, a, b) <=>
                  \/ \E c \in C : Before(w[c], a, b) \/ (a = c /\ b \in Range(w[c]))
                  \/ \E c, d \in C : Newer(c, d) /\ a \in Sub(w, c) /\ b \in Sub(w, d)
<1> DEFINE C == Children(n, key)
           m == Cardinality(C)
           o == Sorted(C)
           ss == Branches(n, w, key)
           s == FlattenSeq(ss)
           D == DOMAIN n
<1>1. C \in SUBSET Ids /\ IsFiniteSet(C) /\ C \subseteq D BY ChildFacts
<1>2. /\ o \in [1 .. m -> C] /\ m \in Nat /\ Len(o) = m
      /\ \A x \in C : \E i \in 1 .. m : o[i] = x
      /\ \A i, j \in 1 .. m : i < j => Newer(o[i], o[j])
  <2> HIDE DEF C
  <2> QED BY <1>1, SortedOrder
<1>3. ss = [i \in 1 .. m |-> <<o[i]>> \o w[o[i]]] BY <1>2 DEF Branches
<1> HIDE DEF C, m, o, ss
<1>4. ASSUME NEW i \in 1 .. m
      PROVE  /\ o[i] \in C /\ ss[i] \in Seq(D) /\ Range(ss[i]) = Sub(w, o[i])
             /\ \A a, b : Before(ss[i], a, b) <=>
                  Before(w[o[i]], a, b) \/ (a = o[i] /\ b \in Range(w[o[i]]))
  <2> DEFINE e == <<o[i]>>
             t == w[o[i]]
  <2>1. o[i] \in C /\ o[i] \in D BY <1>1, <1>2
  <2>2. e \in Seq(D) /\ Range(e) = {o[i]} BY <2>1, RangeOne
  <2>3. \A a, b : ~Before(e, a, b)
    <3>1. Len(e) = 1 OBVIOUS
    <3>2. \A x, y \in 1 .. 1 : ~(x < y) OBVIOUS
    <3> HIDE DEF e
    <3> QED BY <3>1, <3>2 DEF Before
  <2>4. t \in Seq(D) BY <2>1
  <2>5. ss[i] = e \o t BY <1>3
  <2> HIDE DEF e, t
  <2>6. /\ e \o t \in Seq(D) /\ Range(e \o t) = Range(e) \cup Range(t)
        /\ \A a, b : Before(e \o t, a, b) <=>
             Before(e, a, b) \/ Before(t, a, b) \/ (a \in Range(e) /\ b \in Range(t))
    BY <2>2, <2>4, ConcatOrder
  <2>7. Range(ss[i]) = Sub(w, o[i]) BY <2>2, <2>5, <2>6 DEF Sub, t
  <2>8. \A a, b : Before(ss[i], a, b) <=>
             Before(t, a, b) \/ (a = o[i] /\ b \in Range(t))
    BY <2>2, <2>3, <2>5, <2>6
  <2> QED BY <2>1, <2>5, <2>6, <2>7, <2>8 DEF t
<1>5. ss \in [1 .. m -> Seq(D)]
  <2>1. \A i \in 1 .. m : ss[i] \in Seq(D) BY <1>4
  <2> QED BY <1>3, <2>1
<1> HIDE DEF D
<1>6. /\ s \in Seq(D)
      /\ \A a : a \in Range(s) <=> \E i \in 1 .. m : a \in Range(ss[i])
      /\ \A a, b : Before(s, a, b) <=>
           \/ \E i \in 1 .. m : Before(ss[i], a, b)
           \/ \E i, j \in 1 .. m : i < j /\ a \in Range(ss[i]) /\ b \in Range(ss[j])
  BY <1>2, <1>5, FlattenOrder
<1> HIDE DEF s
<1>7. ASSUME NEW a PROVE a \in Range(s) <=> \E c \in C : a \in Sub(w, c)
  <2>1. a \in Range(s) <=> \E i \in 1 .. m : a \in Sub(w, o[i]) BY <1>4, <1>6
  <2> QED BY <1>2, <2>1
<1>8. \A i, j \in 1 .. m : i < j <=> Newer(o[i], o[j])
  <2> TAKE i, j \in 1 .. m
  <2>1. o[i] \in Ids /\ o[j] \in Ids BY <1>1, <1>2
  <2>2. ~Newer(o[i], o[i]) BY <2>1, NewerOrder
  <2>3. ASSUME Newer(o[i], o[j]), j < i PROVE FALSE
    <3>1. Newer(o[j], o[i]) BY <1>2, <2>3
    <3> QED BY <2>1, <2>2, <2>3, <3>1, NewerOrder
  <2>4. i = j => ~Newer(o[i], o[j]) BY <2>2
  <2>5. i < j \/ i = j \/ j < i BY <1>2
  <2>6. i < j => Newer(o[i], o[j]) BY <1>2
  <2> QED BY <2>3, <2>4, <2>5, <2>6
<1>9. ASSUME NEW a, NEW b
      PROVE  Before(s, a, b) <=>
               \/ \E c \in C : Before(w[c], a, b) \/ (a = c /\ b \in Range(w[c]))
               \/ \E c, d \in C : Newer(c, d) /\ a \in Sub(w, c) /\ b \in Sub(w, d)
  <2> DEFINE In(c) == Before(w[c], a, b) \/ (a = c /\ b \in Range(w[c]))
  <2>1. (\E i \in 1 .. m : Before(ss[i], a, b)) <=> \E c \in C : In(c)
    <3>1. \A i \in 1 .. m : o[i] \in C /\ (Before(ss[i], a, b) <=> In(o[i])) BY <1>4
    <3>2. \A x \in C : \E i \in 1 .. m : o[i] = x BY <1>2
    <3> HIDE DEF In
    <3> QED BY <3>1, <3>2
  <2>2. (\E i, j \in 1 .. m : i < j /\ a \in Range(ss[i]) /\ b \in Range(ss[j])) <=>
          \E i, j \in 1 .. m : Newer(o[i], o[j]) /\ a \in Sub(w, o[i]) /\ b \in Sub(w, o[j])
    BY <1>4, <1>8
  <2>3. (\E i, j \in 1 .. m : Newer(o[i], o[j]) /\ a \in Sub(w, o[i]) /\ b \in Sub(w, o[j])) <=>
          \E c, d \in C : Newer(c, d) /\ a \in Sub(w, c) /\ b \in Sub(w, d)
    BY <1>2
  <2> QED BY <1>6, <2>1, <2>2, <2>3
<1> QED BY <1>6, <1>7, <1>9 DEF s, ss, C, D

\* The loop over the children reads the walk at the children only.
LEMMA SameBranches ==
  ASSUME NEW n, Tree(n), NEW key \in DOMAIN n \cup {Root}, NEW v, NEW w,
         \A c \in Children(n, key) : v[c] = w[c]
  PROVE  Branches(n, v, key) = Branches(n, w, key)
<1> DEFINE o == Sorted(Children(n, key))
<1>1. Children(n, key) \in SUBSET Ids /\ IsFiniteSet(Children(n, key)) BY ChildFacts
<1>2. /\ o \in [1 .. Cardinality(Children(n, key)) -> Children(n, key)]
      /\ Len(o) = Cardinality(Children(n, key))
  BY <1>1, SortedOrder
<1>3. \A i \in 1 .. Len(o) : v[o[i]] = w[o[i]] BY <1>2
<1> HIDE DEF o
<1>4. [i \in 1 .. Len(o) |-> <<o[i]>> \o w[o[i]]] = [i \in 1 .. Len(o) |-> <<o[i]>> \o v[o[i]]]
  BY <1>3
<1> QED BY <1>4 DEF Branches, o

\* The recursion of the walk has a solution: the level grows from a node to its children.
LEMMA WalkExists ==
  ASSUME NEW n, Tree(n)
  PROVE  \E w : Walks(n, w)
<1> DEFINE D == DOMAIN n \cup {Root}
           F == [D -> Seq(DOMAIN n)]
           Down(w, m) == \A key \in D : Level(key) > MaxOps - m =>
                           w[key] = FlattenSeq(Branches(n, w, key))
           T == {m \in Nat : \E w \in F : Down(w, m)}
<1>0. MaxOps \in Nat /\ \A k \in D : Level(k) \in Nat /\ Level(k) <= MaxOps
  BY Levels, BoundsAssumption
<1>1. 0 \in T
  <2> DEFINE e == [key \in D |-> <<>>]
  <2>1. e \in F BY RangeEmpty
  <2>2. Down(e, 0) BY <1>0
  <2> HIDE DEF e, Down, F
  <2> QED BY <2>1, <2>2
<1>2. ASSUME NEW m \in T PROVE m + 1 \in T
  <2>1. m \in Nat OBVIOUS
  <2>2. PICK w \in F : Down(w, m) BY <1>2
  <2> DEFINE v == [key \in D |-> IF Level(key) > MaxOps - m THEN w[key]
                                 ELSE FlattenSeq(Branches(n, w, key))]
  <2>3. \A key \in D : FlattenSeq(Branches(n, w, key)) \in Seq(DOMAIN n) BY BranchOrder
  <2>4. v \in F BY <2>2, <2>3
  <2>5. ASSUME NEW key \in D, Level(key) > MaxOps - (m + 1)
        PROVE  v[key] = FlattenSeq(Branches(n, v, key))
    <3>1. v[key] = FlattenSeq(Branches(n, w, key)) BY <2>2
    <3>2. ASSUME NEW c \in Children(n, key) PROVE v[c] = w[c]
      <4>1. c \in D /\ Level(c) > Level(key) BY ChildFacts
      <4>2. Level(c) > MaxOps - m BY <1>0, <2>1, <2>5, <4>1
      <4> QED BY <4>1, <4>2
    <3> HIDE DEF v
    <3>3. Branches(n, v, key) = Branches(n, w, key) BY <3>2, SameBranches
    <3> QED BY <3>1, <3>3
  <2>6. Down(v, m + 1) BY <2>5
  <2> HIDE DEF v, Down, F
  <2> QED BY <2>1, <2>4, <2>6
<1>3. T \in SUBSET Nat OBVIOUS
<1>4. MaxOps + 1 \in T
  <2>1. MaxOps + 1 \in Nat BY <1>0
  <2> HIDE DEF T
  <2> QED BY <1>1, <1>2, <1>3, <2>1, Upwards
<1>5. PICK w \in F : Down(w, MaxOps + 1)
  <2> HIDE DEF Down, F
  <2> QED BY <1>4
<1>6. \A key \in D : w[key] = FlattenSeq(Branches(n, w, key)) BY <1>0, <1>5
<1> QED BY <1>5, <1>6 DEF Walks

\* The recursive function of Ordered is such a walk.
LEMMA OrderedWalks ==
  ASSUME NEW n, Tree(n)
  PROVE  \E w : Walks(n, w) /\ Ordered(n) = w[Root]
<1> DEFINE D == DOMAIN n \cup {Root}
           W(w) == w = [key \in D |-> FlattenSeq(Branches(n, w, key))]
           walk == CHOOSE w : W(w)
<1>1. Ordered(n) = walk[Root] BY DEF Ordered, Branches
<1>2. PICK v : Walks(n, v) BY WalkExists
<1>3. W(v) BY <1>2 DEF Walks
<1>4. W(walk)
  <2> HIDE DEF W
  <2> QED BY <1>3
<1> HIDE DEF walk
<1>5. \A key \in D : v[key] = FlattenSeq(Branches(n, v, key)) BY <1>2 DEF Walks
<1>6. \A key \in D : walk[key] = FlattenSeq(Branches(n, walk, key)) BY <1>4
<1>7. MaxOps \in Nat /\ \A k \in D : Level(k) \in Nat /\ Level(k) <= MaxOps
  BY Levels, BoundsAssumption
<1> DEFINE T == {m \in Nat : \A key \in D : Level(key) > MaxOps - m => walk[key] = v[key]}
<1>8. 0 \in T BY <1>7
<1>9. ASSUME NEW m \in T PROVE m + 1 \in T
  <2>1. m \in Nat OBVIOUS
  <2>2. ASSUME NEW key \in D, Level(key) > MaxOps - (m + 1) PROVE walk[key] = v[key]
    <3>1. ASSUME NEW c \in Children(n, key) PROVE walk[c] = v[c]
      <4>1. c \in D /\ Level(c) > Level(key) BY ChildFacts
      <4>2. Level(c) > MaxOps - m BY <1>7, <2>1, <2>2, <4>1
      <4> QED BY <1>9, <4>1, <4>2
    <3>2. Branches(n, walk, key) = Branches(n, v, key) BY <3>1, SameBranches
    <3> QED BY <1>5, <1>6, <3>2
  <2> QED BY <2>1, <2>2
<1>10. T \in SUBSET Nat OBVIOUS
<1>11. MaxOps + 1 \in T
  <2>1. MaxOps + 1 \in Nat BY <1>7
  <2> HIDE DEF T
  <2> QED BY <1>8, <1>9, <1>10, <2>1, Upwards
<1>12. walk[Root] = v[Root]
  <2>1. Root \in D /\ Level(Root) > MaxOps - (MaxOps + 1) BY <1>7
  <2> QED BY <1>11, <2>1
<1> QED BY <1>1, <1>2, <1>12

\* The walk from a node: its subtree, in the order of the walk.
LEMMA WalkOrder ==
  ASSUME NEW n, Tree(n), NEW w, Walks(n, w), NEW key \in DOMAIN n \cup {Root}
  PROVE  /\ w[key] \in Seq(DOMAIN n)
         /\ Range(w[key]) \subseteq DOMAIN n
         /\ \A a : a \in Range(w[key]) <=> \E c \in Children(n, key) : a \in Sub(w, c)
         /\ \A a, b : Before(w[key], a, b) <=>
              \/ \E c \in Children(n, key) : Before(w[c], a, b) \/ (a = c /\ b \in Range(w[c]))
              \/ \E c, d \in Children(n, key) : Newer(c, d) /\ a \in Sub(w, c) /\ b \in Sub(w, d)
<1>1. /\ w \in [DOMAIN n \cup {Root} -> Seq(DOMAIN n)]
      /\ w[key] = FlattenSeq(Branches(n, w, key))
  BY DEF Walks
<1>2. w[key] \in Seq(DOMAIN n) BY <1>1
<1> DEFINE s == w[key]
<1>3. Range(s) = {s[i] : i \in 1 .. Len(s)} /\ \A i \in 1 .. Len(s) : s[i] \in DOMAIN n
  BY <1>2, RangeEquality, ElementOfSeq
<1>4. Range(w[key]) \subseteq DOMAIN n BY <1>3
<1> HIDE DEF s
<1> DEFINE t == FlattenSeq(Branches(n, w, key))
<1>5. /\ \A a : a \in Range(t) <=> \E c \in Children(n, key) : a \in Sub(w, c)
      /\ \A a, b : Before(t, a, b) <=>
           \/ \E c \in Children(n, key) : Before(w[c], a, b) \/ (a = c /\ b \in Range(w[c]))
           \/ \E c, d \in Children(n, key) : Newer(c, d) /\ a \in Sub(w, c) /\ b \in Sub(w, d)
  BY <1>1, BranchOrder
<1>6. w[key] = t BY <1>1
<1> HIDE DEF t
<1> QED BY <1>2, <1>4, <1>5, <1>6

\* A subtree holds the nodes that follow its root, and the nodes that follow those.
LEMMA SubtreeStep ==
  ASSUME NEW n, Tree(n), NEW w, Walks(n, w)
  PROVE  \A key \in DOMAIN n \cup {Root}, a \in DOMAIN n :
           a \in Range(w[key]) <=> n[a].after = key \/ n[a].after \in Range(w[key])
<1> DEFINE D == DOMAIN n \cup {Root}
           Step(key) == \A a \in DOMAIN n :
             a \in Range(w[key]) <=> n[a].after = key \/ n[a].after \in Range(w[key])
           T == {m \in Nat : \A key \in D : Level(key) > MaxOps - m => Step(key)}
<1>1. MaxOps \in Nat /\ \A k \in D : Level(k) \in Nat /\ Level(k) <= MaxOps
  BY Levels, BoundsAssumption
<1>2. 0 \in T BY <1>1
<1>3. ASSUME NEW m \in T PROVE m + 1 \in T
  <2>1. m \in Nat OBVIOUS
  <2>2. ASSUME NEW key \in D, Level(key) > MaxOps - (m + 1) PROVE Step(key)
    <3> DEFINE C == Children(n, key)
    <3>1. \A a : a \in Range(w[key]) <=> \E c \in C : a \in Sub(w, c) BY WalkOrder
    <3>2. ASSUME NEW c \in C PROVE c \in DOMAIN n /\ Step(c)
      <4>1. c \in DOMAIN n /\ c \in D /\ Level(c) > Level(key) BY ChildFacts
      <4>2. Level(c) > MaxOps - m BY <1>1, <2>1, <2>2, <4>1
      <4> QED BY <1>3, <4>1, <4>2
    <3>3. \A a \in DOMAIN n : a \in C <=> n[a].after = key BY DEF Children
    <3> HIDE DEF C
    <3> QED BY <3>1, <3>2, <3>3 DEF Sub
  <2> HIDE DEF Step
  <2> QED BY <2>1, <2>2
<1>4. T \in SUBSET Nat OBVIOUS
<1>5. MaxOps + 1 \in T
  <2>1. MaxOps + 1 \in Nat BY <1>1
  <2> HIDE DEF T
  <2> QED BY <1>2, <1>3, <1>4, <2>1, Upwards
<1>6. ASSUME NEW key \in D PROVE Step(key)
  <2>1. Level(key) > MaxOps - (MaxOps + 1) BY <1>1
  <2> QED BY <1>5, <2>1
<1> QED BY <1>6

\* What stands before something is in the sequence, and so is what stands after it.
LEMMA BeforeInRange ==
  ASSUME NEW S, NEW s \in Seq(S), NEW a, NEW b, Before(s, a, b)
  PROVE  a \in Range(s) /\ b \in Range(s)
<1>1. Range(s) = {s[i] : i \in 1 .. Len(s)} BY RangeEquality
<1> QED BY <1>1 DEF Before

\* Of some nodes, there is one whose predecessor is not among them.
LEMMA TopOf ==
  ASSUME NEW n, Tree(n), NEW X \in SUBSET DOMAIN n, X # {}
  PROVE  \E k \in X : n[k].after \notin X
<1> DEFINE L == {Level(k) : k \in X}
<1>1. \A k \in DOMAIN n : Level(k) \in Nat /\ Level(n[k].after) < Level(k) BY Levels DEF Tree
<1>2. L \in SUBSET Nat /\ L # {} BY <1>1
<1>3. \A k \in X : Level(k) \in L OBVIOUS
<1>4. \A x \in L : \E k \in X : x = Level(k) OBVIOUS
<1> HIDE DEF L
<1>5. PICK x \in L : \A y \in L : x <= y BY <1>2, LeastOf
<1>6. PICK k \in X : x = Level(k) BY <1>4
<1>7. ASSUME n[k].after \in X PROVE FALSE
  <2>1. Level(k) <= Level(n[k].after) BY <1>3, <1>5, <1>6, <1>7
  <2> QED BY <1>1, <1>7, <2>1
<1> QED BY <1>6, <1>7

\* The nodes of a subtree are newer than its root.
LEMMA SubtreeLevels ==
  ASSUME NEW n, Tree(n), NEW w, Walks(n, w), NEW key \in DOMAIN n \cup {Root}
  PROVE  \A a \in Range(w[key]) : Level(a) > Level(key)
<1> DEFINE X == {a \in Range(w[key]) : ~(Level(a) > Level(key))}
<1> SUFFICES ASSUME X # {} PROVE FALSE OBVIOUS
<1>1. Range(w[key]) \subseteq DOMAIN n BY WalkOrder
<1>2. X \in SUBSET DOMAIN n BY <1>1
<1> HIDE DEF X
<1>3. PICK k \in X : n[k].after \notin X BY <1>2, TopOf
<1>4. k \in DOMAIN n /\ k \in Range(w[key]) /\ ~(Level(k) > Level(key)) BY <1>2, <1>3 DEF X
<1>5. n[k].after = key \/ n[k].after \in Range(w[key]) BY <1>4, SubtreeStep
<1>6. Level(n[k].after) < Level(k) /\ n[k].after \in DOMAIN n \cup {Root} BY <1>4 DEF Tree
<1>7. Level(k) \in Nat /\ Level(key) \in Nat /\ Level(n[k].after) \in Nat
  BY <1>4, <1>6, Levels
<1> QED BY <1>3, <1>4, <1>5, <1>6, <1>7 DEF X

\* A sibling is not in the subtree of another one.
LEMMA SiblingOutside ==
  ASSUME NEW n, Tree(n), NEW w, Walks(n, w), NEW key \in DOMAIN n \cup {Root},
         NEW c \in Children(n, key), NEW d \in Children(n, key)
  PROVE  c \notin Range(w[d])
<1> SUFFICES ASSUME c \in Range(w[d]) PROVE FALSE OBVIOUS
<1>1. /\ c \in DOMAIN n /\ n[c].after = key
      /\ d \in DOMAIN n /\ Level(key) < Level(d)
  BY ChildFacts
<1>2. key = d \/ key \in Range(w[d]) BY <1>1, SubtreeStep
<1>3. Level(key) \in Nat /\ Level(d) \in Nat BY <1>1, Levels
<1>4. \A a \in Range(w[d]) : Level(a) > Level(d) BY <1>1, SubtreeLevels
<1> QED BY <1>1, <1>2, <1>3, <1>4

\* Subtrees of siblings have nothing in common.
LEMMA SubtreesApart ==
  ASSUME NEW n, Tree(n), NEW w, Walks(n, w), NEW key \in DOMAIN n \cup {Root},
         NEW c \in Children(n, key), NEW d \in Children(n, key), c # d
  PROVE  Sub(w, c) \cap Sub(w, d) = {}
<1> DEFINE X == Sub(w, c) \cap Sub(w, d)
<1> SUFFICES ASSUME X # {} PROVE FALSE OBVIOUS
<1>1. c \in DOMAIN n /\ d \in DOMAIN n BY ChildFacts
<1>2. X \in SUBSET DOMAIN n BY <1>1, WalkOrder DEF Sub
<1>3. PICK k \in X : n[k].after \notin X
  <2> HIDE DEF X
  <2> QED BY <1>2, TopOf
<1>4. c \notin Range(w[d]) /\ d \notin Range(w[c]) BY SiblingOutside
<1>5. k \in Range(w[c]) /\ k \in Range(w[d]) BY <1>3, <1>4 DEF Sub
<1>6. n[k].after \in Sub(w, c) /\ n[k].after \in Sub(w, d)
  BY <1>1, <1>2, <1>5, SubtreeStep DEF Sub
<1> QED BY <1>3, <1>6

\* The walk visits nothing twice.
LEMMA NoneTwice ==
  ASSUME NEW n, Tree(n), NEW w, Walks(n, w)
  PROVE  \A key \in DOMAIN n \cup {Root} : \A a : ~Before(w[key], a, a)
<1> DEFINE D == DOMAIN n \cup {Root}
           Once(key) == \A a : ~Before(w[key], a, a)
           T == {m \in Nat : \A key \in D : Level(key) > MaxOps - m => Once(key)}
<1>1. MaxOps \in Nat /\ \A k \in D : Level(k) \in Nat /\ Level(k) <= MaxOps
  BY Levels, BoundsAssumption
<1>2. 0 \in T BY <1>1
<1>3. ASSUME NEW m \in T PROVE m + 1 \in T
  <2>1. m \in Nat OBVIOUS
  <2>2. ASSUME NEW key \in D, Level(key) > MaxOps - (m + 1) PROVE Once(key)
    <3> DEFINE C == Children(n, key)
    <3> SUFFICES ASSUME NEW a, Before(w[key], a, a) PROVE FALSE OBVIOUS
    <3>1. \/ \E c \in C : Before(w[c], a, a) \/ (a = c /\ a \in Range(w[c]))
          \/ \E c, d \in C : Newer(c, d) /\ a \in Sub(w, c) /\ a \in Sub(w, d)
      <4>1. \A x, y : Before(w[key], x, y) <=>
              \/ \E c \in C : Before(w[c], x, y) \/ (x = c /\ y \in Range(w[c]))
              \/ \E c, d \in C : Newer(c, d) /\ x \in Sub(w, c) /\ y \in Sub(w, d)
        BY WalkOrder
      <4> QED BY <4>1
    <3>2. ASSUME NEW c \in C PROVE Once(c)
      <4>1. c \in D /\ Level(c) > Level(key) BY ChildFacts
      <4>2. Level(c) > MaxOps - m BY <1>1, <2>1, <2>2, <4>1
      <4> QED BY <1>3, <4>1, <4>2
    <3>3. \A c \in C : c \notin Range(w[c]) BY SiblingOutside
    <3>4. ASSUME NEW c \in C, NEW d \in C, Newer(c, d), a \in Sub(w, c), a \in Sub(w, d)
          PROVE  FALSE
      <4>1. c # d
        <5>1. c \in Ids BY ChildFacts
        <5> QED BY <3>4, <5>1, NewerOrder
      <4> QED BY <3>4, <4>1, SubtreesApart
    <3> QED BY <3>1, <3>2, <3>3, <3>4
  <2> HIDE DEF Once
  <2> QED BY <2>1, <2>2
<1>4. T \in SUBSET Nat OBVIOUS
<1>5. MaxOps + 1 \in T
  <2>1. MaxOps + 1 \in Nat BY <1>1
  <2> HIDE DEF T
  <2> QED BY <1>2, <1>3, <1>4, <2>1, Upwards
<1>6. ASSUME NEW key \in D PROVE Once(key)
  <2>1. Level(key) > MaxOps - (MaxOps + 1) BY <1>1
  <2> QED BY <1>5, <2>1
<1> QED BY <1>6

\* The walk from the root visits every node.
LEMMA AllVisited ==
  ASSUME NEW n, Tree(n), NEW w, Walks(n, w)
  PROVE  Range(w[Root]) = DOMAIN n
<1> DEFINE X == DOMAIN n \ Range(w[Root])
<1>1. Range(w[Root]) \subseteq DOMAIN n BY WalkOrder
<1> SUFFICES ASSUME X # {} PROVE FALSE BY <1>1
<1>2. PICK k \in X : n[k].after \notin X BY TopOf
<1>3. n[k].after = Root \/ n[k].after \in Range(w[Root]) BY <1>2 DEF Tree
<1> QED BY <1>2, <1>3, SubtreeStep

\* What _ordered returns: every node, once.
LEMMA OrderedFacts ==
  ASSUME NEW n, Tree(n)
  PROVE  /\ Ordered(n) \in Seq(DOMAIN n) /\ Range(Ordered(n)) = DOMAIN n
         /\ \A a : ~Before(Ordered(n), a, a)
<1>1. PICK w : Walks(n, w) /\ Ordered(n) = w[Root] BY OrderedWalks
<1>2. w[Root] \in Seq(DOMAIN n) BY <1>1, WalkOrder
<1> QED BY <1>1, <1>2, AllVisited, NoneTwice

-----------------------------------------------------------------------------
(* Two trees that give the nodes they share the same predecessors.         *)

Agree(n, m) == \A k \in DOMAIN n \cap DOMAIN m : n[k].after = m[k].after

\* The predecessor of a shared node is shared.
LEMMA SharedUp ==
  ASSUME NEW n, NEW m, Tree(n), Tree(m), Agree(n, m), NEW k \in DOMAIN n \cap DOMAIN m
  PROVE  n[k].after = Root \/ n[k].after \in DOMAIN n \cap DOMAIN m
BY Levels DEF Tree, Agree

\* A shared subtree holds the same shared nodes in both.
LEMMA SharedSubtree ==
  ASSUME NEW n, NEW m, Tree(n), Tree(m), Agree(n, m), NEW w, NEW v, Walks(n, w), Walks(m, v),
         NEW key \in (DOMAIN n \cap DOMAIN m) \cup {Root}
  PROVE  Range(w[key]) \cap DOMAIN m \subseteq Range(v[key])
<1> DEFINE X == (Range(w[key]) \cap DOMAIN m) \ Range(v[key])
<1> SUFFICES ASSUME X # {} PROVE FALSE OBVIOUS
<1>1. Range(w[key]) \subseteq DOMAIN n BY WalkOrder
<1>2. X \in SUBSET DOMAIN n BY <1>1
<1>3. PICK k \in X : n[k].after \notin X BY <1>2, TopOf
<1>4. k \in DOMAIN n \cap DOMAIN m /\ n[k].after = m[k].after BY <1>1, <1>3 DEF Agree
<1>5. n[k].after = key \/ n[k].after \in Range(w[key]) BY <1>3, <1>4, SubtreeStep
<1>6. ~(m[k].after = key \/ m[k].after \in Range(v[key])) BY <1>3, <1>4, SubtreeStep
<1>7. n[k].after = Root \/ n[k].after \in DOMAIN m BY <1>4, SharedUp
<1>8. Root \notin Range(w[key]) BY <1>1, Levels
<1> QED BY <1>3, <1>4, <1>5, <1>6, <1>7, <1>8

\* The subtree of a node that is not shared holds no shared node.
LEMMA NotShared ==
  ASSUME NEW n, NEW m, Tree(n), Tree(m), Agree(n, m), NEW w, Walks(n, w),
         NEW c \in DOMAIN n \ DOMAIN m
  PROVE  Sub(w, c) \cap DOMAIN m = {}
<1> DEFINE X == Range(w[c]) \cap DOMAIN m
<1> SUFFICES ASSUME X # {} PROVE FALSE BY DEF Sub
<1>1. Range(w[c]) \subseteq DOMAIN n BY WalkOrder
<1>2. X \in SUBSET DOMAIN n BY <1>1
<1>3. PICK k \in X : n[k].after \notin X BY <1>2, TopOf
<1>4. k \in DOMAIN n \cap DOMAIN m BY <1>1, <1>3
<1>5. n[k].after = c \/ n[k].after \in Range(w[c]) BY <1>3, <1>4, SubtreeStep
<1>6. n[k].after = Root \/ n[k].after \in DOMAIN m BY <1>4, SharedUp
<1>7. Root \notin Range(w[c]) /\ c # Root BY <1>1, Levels
<1> QED BY <1>3, <1>5, <1>6, <1>7

\* Two shared nodes stand in the same order in both walks.
LEMMA SharedOrder ==
  ASSUME NEW n, NEW m, Tree(n), Tree(m), Agree(n, m), NEW w, NEW v, Walks(n, w), Walks(m, v),
         NEW a \in DOMAIN n \cap DOMAIN m, NEW b \in DOMAIN n \cap DOMAIN m,
         Before(w[Root], a, b)
  PROVE  Before(v[Root], a, b)
<1> DEFINE D == (DOMAIN n \cap DOMAIN m) \cup {Root}
           Same(key) == Before(w[key], a, b) => Before(v[key], a, b)
           T == {l \in Nat : \A key \in D : Level(key) > MaxOps - l => Same(key)}
<1>1. MaxOps \in Nat /\ \A k \in D : Level(k) \in Nat /\ Level(k) <= MaxOps
  BY Levels, BoundsAssumption
<1>2. 0 \in T BY <1>1
<1>3. ASSUME NEW l \in T PROVE l + 1 \in T
  <2>1. l \in Nat OBVIOUS
  <2>2. ASSUME NEW key \in D, Level(key) > MaxOps - (l + 1) PROVE Same(key)
    <3> DEFINE C == Children(n, key)
               E == Children(m, key)
    <3> SUFFICES ASSUME Before(w[key], a, b) PROVE Before(v[key], a, b) OBVIOUS
    <3>1. \/ \E c \in C : Before(w[c], a, b)
          \/ \E c \in C : a = c /\ b \in Range(w[c])
          \/ \E c, d \in C : Newer(c, d) /\ a \in Sub(w, c) /\ b \in Sub(w, d)
      BY WalkOrder
    <3>2. \A c \in C : c \in DOMAIN n /\ n[c].after = key /\ Level(c) > Level(key)
      BY ChildFacts
    <3>3. ASSUME NEW c \in C, NEW x \in DOMAIN n \cap DOMAIN m, x \in Sub(w, c)
          PROVE  c \in D /\ c \in E /\ c \in DOMAIN m /\ x \in Sub(v, c)
      <4>1. c \in DOMAIN m BY <3>2, <3>3, NotShared
      <4>2. c \in E BY <3>2, <4>1 DEF Agree, Children
      <4>3. Range(w[c]) \cap DOMAIN m \subseteq Range(v[c]) BY <3>2, <4>1, SharedSubtree
      <4> QED BY <3>2, <3>3, <4>1, <4>2, <4>3 DEF Sub
    <3>4. /\ \A c \in E : Before(v[c], a, b) => Before(v[key], a, b)
          /\ \A c \in E : a = c /\ b \in Range(v[c]) => Before(v[key], a, b)
          /\ \A c, d \in E : Newer(c, d) /\ a \in Sub(v, c) /\ b \in Sub(v, d) =>
               Before(v[key], a, b)
      BY WalkOrder
    <3>5. ASSUME NEW c \in C, Before(w[c], a, b) PROVE Before(v[key], a, b)
      <4>1. w[c] \in Seq(DOMAIN n) BY <3>2, WalkOrder
      <4>2. a \in Sub(w, c) BY <3>5, <4>1, BeforeInRange DEF Sub
      <4>3. c \in D /\ c \in E BY <3>3, <4>2
      <4>4. Level(c) > MaxOps - l BY <1>1, <2>1, <2>2, <3>2, <4>3
      <4>5. Same(c) BY <1>3, <4>3, <4>4
      <4> QED BY <3>4, <3>5, <4>3, <4>5
    <3>6. ASSUME NEW c \in C, a = c, b \in Range(w[c]) PROVE Before(v[key], a, b)
      <4>1. b \in Sub(w, c) /\ a \in Sub(w, c) BY <3>6 DEF Sub
      <4>2. c \in E /\ c \in DOMAIN m BY <3>3, <4>1
      <4>3. Range(w[c]) \cap DOMAIN m \subseteq Range(v[c]) BY <3>2, <4>2, SharedSubtree
      <4> QED BY <3>4, <3>6, <4>2, <4>3
    <3>7. ASSUME NEW c \in C, NEW d \in C, Newer(c, d), a \in Sub(w, c), b \in Sub(w, d)
          PROVE  Before(v[key], a, b)
      BY <3>3, <3>4, <3>7
    <3> QED BY <3>1, <3>5, <3>6, <3>7
  <2> HIDE DEF Same
  <2> QED BY <2>1, <2>2
<1>4. T \in SUBSET Nat OBVIOUS
<1>5. MaxOps + 1 \in T
  <2>1. MaxOps + 1 \in Nat BY <1>1
  <2> HIDE DEF T
  <2> QED BY <1>2, <1>3, <1>4, <2>1, Upwards
<1>6. Level(Root) > MaxOps - (MaxOps + 1) BY <1>1
<1> QED BY <1>5, <1>6

\* _ordered puts the shared nodes in the same order.
LEMMA OrderedAgrees ==
  ASSUME NEW n, NEW m, Tree(n), Tree(m), Agree(n, m)
  PROVE  /\ \A a, b \in DOMAIN n \cap DOMAIN m : Before(Ordered(n), a, b) <=> Before(Ordered(m), a, b)
         /\ Keep(Ordered(n), DOMAIN m) = Keep(Ordered(m), DOMAIN n)
<1>1. PICK w : Walks(n, w) /\ Ordered(n) = w[Root] BY OrderedWalks
<1>2. PICK v : Walks(m, v) /\ Ordered(m) = v[Root] BY OrderedWalks
<1>3. Agree(m, n) BY DEF Agree
<1>4. \A a, b \in DOMAIN n \cap DOMAIN m : Before(Ordered(n), a, b) <=> Before(Ordered(m), a, b)
  BY <1>1, <1>2, <1>3, SharedOrder
<1> DEFINE s == Keep(Ordered(n), DOMAIN m)
           t == Keep(Ordered(m), DOMAIN n)
           S == DOMAIN n \cup DOMAIN m
<1>5. /\ Ordered(n) \in Seq(S) /\ Range(Ordered(n)) = DOMAIN n
      /\ Ordered(m) \in Seq(S) /\ Range(Ordered(m)) = DOMAIN m
      /\ \A a : ~Before(Ordered(n), a, a)
  <2>1. Ordered(n) \in Seq(DOMAIN n) /\ Ordered(m) \in Seq(DOMAIN m) BY OrderedFacts
  <2>2. Ordered(n) \in Seq(S) BY <2>1, SeqMonotonic
  <2>3. Ordered(m) \in Seq(S) BY <2>1, SeqMonotonic
  <2> QED BY <2>2, <2>3, OrderedFacts
<1> HIDE DEF S
<1>6. /\ s \in Seq(S) /\ Range(s) = DOMAIN n \cap DOMAIN m
      /\ \A a, b : Before(s, a, b) <=> a \in DOMAIN m /\ b \in DOMAIN m /\ Before(Ordered(n), a, b)
  BY <1>5, KeepOrder
<1>7. /\ t \in Seq(S) /\ Range(t) = DOMAIN n \cap DOMAIN m
      /\ \A a, b : Before(t, a, b) <=> a \in DOMAIN n /\ b \in DOMAIN n /\ Before(Ordered(m), a, b)
  BY <1>5, KeepOrder
<1> HIDE DEF s, t
<1>8. s = t BY <1>4, <1>5, <1>6, <1>7, SameSequence
<1> QED BY <1>4, <1>8 DEF s, t

-----------------------------------------------------------------------------
(* Frames.                                                                 *)

\* A replica that a step leaves alone, while operations may be broadcast.
LEMMA OthersKeep ==
  ASSUME NEW s \in Replicas, Local(s), sent \subseteq sent',
         nodes'[s] = nodes[s], pending'[s] = pending[s], todo'[s] = todo[s],
         received'[s] = received[s]
  PROVE  Local(s)'
BY DEF Local, Known, Handled, Applied, Waits, Caused, Grounded, Present

\* An idle replica is given an operation, its own or one from the network.
LEMMA ReceiveKeeps ==
  ASSUME TypeOK, LocalInv, NEW r \in Replicas, NEW op \in Ops, Idle(r),
         sent \subseteq sent', op \in sent', sent' \subseteq Ops, clock' \in [Replicas -> Nat],
         todo' = [todo EXCEPT ![r] = <<op>>],
         received' = [received EXCEPT ![r] = received[r] \cup {op}],
         UNCHANGED <<nodes, pending>>
  PROVE  TypeOK' /\ LocalInv'
<1>1. <<op>> \in Seq(Ops) /\ Range(<<op>>) = {op} BY RangeOne
<1>2. /\ todo'[r] = <<op>> /\ received'[r] = received[r] \cup {op}
      /\ \A s \in Replicas \ {r} : todo'[s] = todo[s] /\ received'[s] = received[s]
  BY DEF TypeOK
<1>3. TypeOK' BY <1>1 DEF TypeOK
<1>4. Range(todo[r]) = {} BY RangeEmpty DEF Idle
<1>5. Local(r) BY DEF LocalInv
<1>6. Known(r)' BY <1>1, <1>2, <1>5 DEF Known, Local
<1>7. Handled(r)'
  <2> SUFFICES ASSUME NEW o \in received'[r]
               PROVE  Applied(r, o)' \/ o \in Range(todo'[r]) \/ Waits(r, o)'
    BY DEF Handled, Applied, Waits, Present
  <2>1. CASE o = op BY <1>1, <1>2, <2>1
  <2>2. CASE o \in received[r]
    <3>1. Applied(r, o) \/ Waits(r, o) BY <1>4, <1>5, <2>2 DEF Local, Handled
    <3> QED BY <3>1 DEF Applied, Waits, Present
  <2> QED BY <1>2, <2>1, <2>2
<1>8. Caused(r)' BY <1>2, <1>5 DEF Caused, Local
<1>9. Grounded(r)' BY <1>5 DEF Grounded, Local, Present
<1>10. \A s \in Replicas \ {r} : Local(s)' BY <1>2, OthersKeep DEF LocalInv
<1>11. LocalInv' BY <1>6, <1>7, <1>8, <1>9, <1>10 DEF LocalInv, Local
<1> QED BY <1>3, <1>11

\* An insertion with an id that its replica has not used.
LEMMA InsertKeeps ==
  ASSUME IInv, NEW r \in Replicas, NEW index \in 0 .. MaxOps, InsertAtIndex(r, index)
  PROVE  IInv'
<1> USE BoundsAssumption DEF IInv
<1>1. PICK after \in Deps :
        /\ Idle(r) /\ Cardinality(sent) < MaxOps
        /\ clock' = [clock EXCEPT ![r] = clock[r] + 1]
        /\ Edit(r, Ins(<<clock[r] + 1, r>>, after))
  BY DEF InsertAtIndex
<1> DEFINE id == <<clock[r] + 1, r>>
           op == Ins(id, after)
<1>2. /\ IsFiniteSet(sent) /\ Cardinality(sent) \in Nat /\ clock[r] \in Nat
      /\ clock[r] <= Cardinality(sent)
  BY FS_CardinalityType DEF IdsInv, TypeOK
<1>3. id \in Ids /\ id[1] = clock[r] + 1 /\ id[2] = r BY <1>1, <1>2 DEF Ids
<1> HIDE DEF id
<1>4. op \in Ops /\ op.type = "ins" /\ op.id = id BY <1>3, NewOps
<1>5. op \notin sent /\ \A o \in sent : o.type = "ins" => o.id # id
  BY <1>2, <1>3, <1>4 DEF IdsInv
<1>6. /\ sent' = sent \cup {op} /\ todo' = [todo EXCEPT ![r] = <<op>>]
      /\ received' = [received EXCEPT ![r] = received[r] \cup {op}]
      /\ UNCHANGED <<nodes, pending>>
  BY <1>1 DEF Edit, id
<1> HIDE DEF op
<1>7. clock' \in [Replicas -> Nat] BY <1>1, <1>2 DEF TypeOK
<1>8. TypeOK' /\ LocalInv'
  <2>1. sent \subseteq sent' /\ op \in sent' /\ sent' \subseteq Ops BY <1>4, <1>6 DEF TypeOK
  <2> QED BY <1>1, <1>4, <1>6, <1>7, <2>1, ReceiveKeeps
<1>9. IdsInv'
  <2>1. IsFiniteSet(sent') /\ Cardinality(sent') = Cardinality(sent) + 1
    BY <1>2, <1>5, <1>6, FS_AddElement
  <2>2. clock'[r] = clock[r] + 1 /\ \A s \in Replicas \ {r} : clock'[s] = clock[s]
    BY <1>1 DEF TypeOK
  <2>3. ASSUME NEW s \in Replicas PROVE clock[s] \in Nat /\ clock'[s] <= Cardinality(sent')
    <3>1. clock[s] \in Nat /\ clock[s] <= Cardinality(sent) BY DEF IdsInv, TypeOK
    <3>2. clock'[s] = clock[s] + 1 \/ clock'[s] = clock[s] BY <2>2
    <3> QED BY <1>2, <2>1, <3>1, <3>2
  <2>4. ASSUME NEW o \in sent', o.type = "ins"
        PROVE  o.id[1] <= Cardinality(sent') /\ o.id[1] <= clock'[o.id[2]]
    <3>1. CASE o = op BY <1>2, <1>3, <1>4, <2>1, <2>2, <3>1
    <3>2. CASE o \in sent
      <4>1. o.id \in Ids BY <2>4, <3>2, OpKinds DEF TypeOK
      <4>2. o.id[1] \in Nat /\ o.id[2] \in Replicas BY <4>1 DEF Ids
      <4>3. o.id[1] <= Cardinality(sent) /\ o.id[1] <= clock[o.id[2]] BY <2>4, <3>2 DEF IdsInv
      <4>4. clock[o.id[2]] \in Nat /\ clock[o.id[2]] <= clock'[o.id[2]]
        <5>1. \/ clock'[o.id[2]] = clock[o.id[2]] + 1
              \/ clock'[o.id[2]] = clock[o.id[2]]
          BY <2>2, <4>2
        <5> QED BY <2>3, <4>2, <5>1
      <4> QED BY <1>2, <1>7, <2>1, <4>2, <4>3, <4>4
    <3> QED BY <1>6, <3>1, <3>2
  <2>5. ASSUME NEW a \in sent', NEW b \in sent', a.type = "ins", b.type = "ins", a.id = b.id
        PROVE  a = b
    BY <1>4, <1>5, <1>6, <2>5 DEF IdsInv
  <2> QED BY <2>1, <2>3, <2>4, <2>5 DEF IdsInv
<1> QED BY <1>8, <1>9

\* A local deletion (deleteAt).
LEMMA DeleteKeeps ==
  ASSUME IInv, NEW r \in Replicas, NEW index \in 1 .. MaxOps, DeleteAtIndex(r, index)
  PROVE  IInv'
<1> USE DEF IInv
<1>1. PICK key \in Ids : Idle(r) /\ Edit(r, Del(key)) /\ UNCHANGED clock
  BY DEF DeleteAtIndex
<1> DEFINE op == Del(key)
<1>2. op \in Ops /\ op.type = "del" BY NewOps
<1>3. /\ sent' = sent \cup {op} /\ todo' = [todo EXCEPT ![r] = <<op>>]
      /\ received' = [received EXCEPT ![r] = received[r] \cup {op}]
      /\ UNCHANGED <<nodes, pending>>
  BY <1>1 DEF Edit
<1> HIDE DEF op
<1>4. TypeOK' /\ LocalInv'
  <2>1. sent \subseteq sent' /\ op \in sent' /\ sent' \subseteq Ops BY <1>2, <1>3 DEF TypeOK
  <2>2. clock' \in [Replicas -> Nat] BY <1>1 DEF TypeOK
  <2> QED BY <1>1, <1>2, <1>3, <2>1, <2>2, ReceiveKeeps
<1>5. /\ IsFiniteSet(sent') /\ Cardinality(sent) \in Nat /\ Cardinality(sent') \in Nat
      /\ Cardinality(sent) <= Cardinality(sent')
  <2>1. IsFiniteSet(sent) /\ Cardinality(sent) \in Nat BY FS_CardinalityType DEF IdsInv
  <2>2. /\ IsFiniteSet(sent')
        /\ Cardinality(sent') \in {Cardinality(sent), Cardinality(sent) + 1}
    BY <1>3, <2>1, FS_AddElement
  <2> QED BY <2>1, <2>2
<1>6. ASSUME NEW s \in Replicas PROVE clock'[s] <= Cardinality(sent')
  BY <1>1, <1>5 DEF IdsInv, TypeOK
<1>7. ASSUME NEW o \in sent', o.type = "ins"
      PROVE  o.id[1] <= Cardinality(sent') /\ o.id[1] <= clock'[o.id[2]]
  <2>1. o \in sent BY <1>2, <1>3, <1>7
  <2>2. o.id \in Ids BY <1>7, <2>1, OpKinds DEF TypeOK
  <2>3. o.id[1] \in Nat BY <2>2 DEF Ids
  <2> QED BY <1>1, <1>5, <1>7, <2>1, <2>3 DEF IdsInv
<1>8. ASSUME NEW a \in sent', NEW b \in sent', a.type = "ins", b.type = "ins", a.id = b.id
      PROVE  a = b
  BY <1>2, <1>3, <1>8 DEF IdsInv
<1>9. IdsInv' BY <1>5, <1>6, <1>7, <1>8 DEF IdsInv
<1> QED BY <1>4, <1>9

\* An operation arrives from the network.
LEMMA DeliverKeeps ==
  ASSUME IInv, NEW r \in Replicas, NEW op \in sent, Deliver(r, op)
  PROVE  IInv'
<1>1. op \in Ops BY DEF IInv, TypeOK
<1>2. /\ Idle(r) /\ todo' = [todo EXCEPT ![r] = <<op>>]
      /\ received' = [received EXCEPT ![r] = received[r] \cup {op}]
      /\ UNCHANGED <<clock, nodes, pending, sent>>
  BY DEF Deliver
<1>3. sent' \subseteq Ops /\ clock' \in [Replicas -> Nat] BY <1>2 DEF IInv, TypeOK
<1>4. TypeOK' /\ LocalInv' BY <1>1, <1>2, <1>3, ReceiveKeeps DEF IInv
<1>5. IdsInv' BY <1>2 DEF IInv, IdsInv
<1> QED BY <1>4, <1>5 DEF IInv

-----------------------------------------------------------------------------
(* One call of apply.                                                      *)

\* What is known of the operation that apply has in hand.
LEMMA CallFacts ==
  ASSUME IInv, NEW r \in Replicas, NEW op, Call(r, op)
  PROVE  /\ op \in Ops /\ op \in received[r] /\ op \in sent
         /\ Tail(todo[r]) \in Seq(Ops)
         /\ Range(todo[r]) = {op} \cup Range(Tail(todo[r]))
<1>1. todo[r] \in Seq(Ops) /\ todo[r] # <<>> /\ op = Head(todo[r])
  BY DEF IInv, TypeOK, Call, Idle
<1>2. /\ op \in Ops /\ Tail(todo[r]) \in Seq(Ops)
      /\ Range(todo[r]) = {op} \cup Range(Tail(todo[r]))
  BY <1>1, RangeHeadTail
<1>3. Range(todo[r]) \subseteq received[r] /\ received[r] \subseteq sent
  BY DEF IInv, LocalInv, Local, Known
<1> QED BY <1>2, <1>3

\* The call is done; the operations of calls are to be applied next.
LEMMA ThenFacts ==
  ASSUME IInv, NEW r \in Replicas, NEW op, Call(r, op), NEW calls \in Seq(Ops), Then(r, calls)
  PROVE  /\ todo' \in [Replicas -> Seq(Ops)]
         /\ Range(todo'[r]) = Range(calls) \cup Range(Tail(todo[r]))
         /\ \A s \in Replicas \ {r} : todo'[s] = todo[s]
         /\ UNCHANGED <<sent, received>>
<1>1. Tail(todo[r]) \in Seq(Ops) BY CallFacts
<1>2. todo' = [todo EXCEPT ![r] = calls \o Tail(todo[r])] BY DEF Then
<1>3. /\ calls \o Tail(todo[r]) \in Seq(Ops)
      /\ Range(calls \o Tail(todo[r])) = Range(calls) \cup Range(Tail(todo[r]))
  <2>1. calls \o Tail(todo[r]) \in Seq(Ops) BY <1>1
  <2> QED BY <1>1, <2>1, RangeConcatenation
<1>4. todo'[r] = calls \o Tail(todo[r]) /\ \A s \in Replicas \ {r} : todo'[s] = todo[s]
  BY <1>2 DEF IInv, TypeOK
<1>5. todo' \in [Replicas -> Seq(Ops)] BY <1>2, <1>3 DEF IInv, TypeOK
<1> QED BY <1>3, <1>4, <1>5 DEF Then

\* Catching up with an id that was broadcast.
LEMMA CatchUpKeeps ==
  ASSUME IInv, NEW r \in Replicas, NEW op \in sent, op.type = "ins",
         CatchUp(r, op.id[1]), UNCHANGED sent
  PROVE  clock' \in [Replicas -> Nat] /\ IdsInv'
<1>1. op.id \in Ids /\ op.id[1] \in Nat BY OpKinds DEF IInv, TypeOK, Ids
<1>2. Cardinality(sent) \in Nat /\ op.id[1] <= Cardinality(sent)
  BY FS_CardinalityType DEF IInv, IdsInv
<1>3. \A s \in Replicas : clock[s] \in Nat /\ clock[s] <= Cardinality(sent)
  BY DEF IInv, IdsInv, TypeOK
<1>4. /\ clock' = [clock EXCEPT ![r] = IF op.id[1] > clock[r] THEN op.id[1] ELSE clock[r]]
      /\ clock \in [Replicas -> Nat]
  BY DEF CatchUp, IInv, TypeOK
<1>5. clock' \in [Replicas -> Nat] BY <1>1, <1>3, <1>4
<1>6. ASSUME NEW s \in Replicas
      PROVE  clock[s] <= clock'[s] /\ clock'[s] <= Cardinality(sent)
  <2>1. CASE s = r BY <1>1, <1>2, <1>3, <1>4, <2>1
  <2>2. CASE s # r BY <1>3, <1>4, <2>2
  <2> QED BY <2>1, <2>2
<1>7. ASSUME NEW o \in sent, o.type = "ins"
      PROVE  o.id[1] <= Cardinality(sent) /\ o.id[1] <= clock'[o.id[2]]
  <2>1. o.id \in Ids BY <1>7, OpKinds DEF IInv, TypeOK
  <2>2. o.id[1] \in Nat /\ o.id[2] \in Replicas BY <2>1 DEF Ids
  <2>3. o.id[1] <= Cardinality(sent) /\ o.id[1] <= clock[o.id[2]] BY <1>7 DEF IInv, IdsInv
  <2>4. clock[o.id[2]] \in Nat /\ clock'[o.id[2]] \in Nat BY <1>3, <1>5, <2>2
  <2> QED BY <1>6, <2>2, <2>3, <2>4
<1>8. IdsInv' BY <1>6, <1>7 DEF IInv, IdsInv
<1> QED BY <1>5, <1>8

\* An operation goes from the calls to be made to the nodes or into a buffer.
LEMMA ReplicaKeeps ==
  ASSUME LocalInv, NEW r \in Replicas, Local(r)', UNCHANGED <<sent, received>>,
         \A s \in Replicas \ {r} :
           nodes'[s] = nodes[s] /\ pending'[s] = pending[s] /\ todo'[s] = todo[s]
  PROVE  LocalInv'
<1>1. \A s \in Replicas \ {r} : Local(s)' BY OthersKeep DEF LocalInv
<1> QED BY <1>1 DEF LocalInv

\* An insertion of a node that is there already changes nothing.
LEMMA ApplyKnownKeeps ==
  ASSUME IInv, NEW r \in Replicas, NEW op, ApplyKnown(r, op)
  PROVE  IInv'
<1>1. /\ Call(r, op) /\ op.type = "ins" /\ Present(r, op.id) /\ Then(r, <<>>)
      /\ UNCHANGED <<clock, nodes, pending>>
  BY DEF ApplyKnown
<1>2. <<>> \in Seq(Ops) /\ Range(<<>>) = {} BY RangeEmpty
<1>3. /\ todo' \in [Replicas -> Seq(Ops)]
      /\ Range(todo'[r]) = Range(Tail(todo[r]))
      /\ \A s \in Replicas \ {r} : todo'[s] = todo[s]
      /\ UNCHANGED <<sent, received>>
  BY <1>1, <1>2, ThenFacts
<1>4. Range(todo[r]) = {op} \cup Range(Tail(todo[r])) BY <1>1, CallFacts
<1>5. TypeOK' /\ IdsInv' BY <1>1, <1>3 DEF IInv, TypeOK, IdsInv
<1>6. Local(r) BY DEF IInv, LocalInv
<1>7. Local(r)'
  <2>1. Known(r)' BY <1>1, <1>3, <1>4, <1>6 DEF Local, Known
  <2>2. Handled(r)'
    BY <1>1, <1>3, <1>4, <1>6 DEF Local, Handled, Applied, Waits, Present
  <2>3. Caused(r)' /\ Grounded(r)'
    BY <1>1, <1>3, <1>6 DEF Local, Caused, Grounded, Present
  <2> QED BY <2>1, <2>2, <2>3 DEF Local
<1>8. LocalInv' BY <1>1, <1>3, <1>7, ReplicaKeeps DEF IInv
<1> QED BY <1>5, <1>8 DEF IInv

\* A new node: what waited for it is to be applied next.
LEMMA ApplyInsertKeeps ==
  ASSUME IInv, NEW r \in Replicas, NEW op, ApplyInsert(r, op)
  PROVE  IInv'
<1> USE RootAssumption
<1> DEFINE id == op.id
           after == op.dep
           waiting == pending[r][id]
<1>1. /\ Call(r, op) /\ op.type = "ins" /\ ~Present(r, id)
      /\ after = Root \/ Present(r, after)
      /\ CatchUp(r, id[1])
      /\ nodes' = [nodes EXCEPT ![r] =
           [k \in DOMAIN nodes[r] \cup {id} |->
              IF k = id THEN [after |-> after, deleted |-> FALSE] ELSE nodes[r][k]]]
      /\ pending' = [pending EXCEPT ![r][id] = <<>>]
      /\ Then(r, waiting)
  BY DEF ApplyInsert
<1>2. /\ op \in Ops /\ op \in received[r] /\ op \in sent
      /\ Range(todo[r]) = {op} \cup Range(Tail(todo[r]))
  BY <1>1, CallFacts
<1>3. id \in Ids /\ id \in Deps /\ id # Root /\ op = Ins(id, after)
  BY <1>1, <1>2, OpKinds DEF Deps
<1>4. DOMAIN nodes[r] \subseteq Ids /\ nodes[r] \in [DOMAIN nodes[r] -> Node]
  BY DEF IInv, TypeOK
<1>5. waiting \in Seq(Ops) BY <1>3 DEF IInv, TypeOK
<1>6. /\ todo' \in [Replicas -> Seq(Ops)]
      /\ Range(todo'[r]) = Range(waiting) \cup Range(Tail(todo[r]))
      /\ \A s \in Replicas \ {r} : todo'[s] = todo[s]
      /\ UNCHANGED <<sent, received>>
  BY <1>1, <1>5, ThenFacts
<1>7. /\ DOMAIN nodes'[r] = DOMAIN nodes[r] \cup {id}
      /\ nodes'[r][id] = [after |-> after, deleted |-> FALSE]
      /\ \A k \in DOMAIN nodes[r] : nodes'[r][k] = nodes[r][k]
      /\ nodes'[r] = [k \in DOMAIN nodes[r] \cup {id} |-> nodes'[r][k]]
      /\ DOMAIN nodes' = Replicas /\ \A s \in Replicas \ {r} : nodes'[s] = nodes[s]
  BY <1>1 DEF IInv, TypeOK, Present
<1>8. /\ pending'[r][id] = <<>>
      /\ \A d \in Deps \ {id} : pending'[r][d] = pending[r][d]
      /\ \A s \in Replicas \ {r} : pending'[s] = pending[s]
  BY <1>1, <1>3 DEF IInv, TypeOK
<1>9. after \in Ids \cup {Root} BY <1>1, <1>4 DEF Present
<1>10. clock' \in [Replicas -> Nat] /\ IdsInv' BY <1>1, <1>2, <1>6, CatchUpKeeps
<1>11. <<>> \in Seq(Ops) /\ Range(<<>>) = {} BY RangeEmpty
<1>12. TypeOK'
  <2>1. nodes'[r][id] \in Node BY <1>7, <1>9 DEF Node
  <2>2. \A k \in DOMAIN nodes'[r] : nodes'[r][k] \in Node BY <1>4, <1>7, <2>1
  <2>3. DOMAIN nodes'[r] \subseteq Ids /\ nodes'[r] \in [DOMAIN nodes'[r] -> Node]
    BY <1>3, <1>4, <1>7, <2>2
  <2>4. \A s \in Replicas :
          DOMAIN nodes'[s] \subseteq Ids /\ nodes'[s] \in [DOMAIN nodes'[s] -> Node]
    BY <1>7, <2>3 DEF IInv, TypeOK
  <2>5. pending' \in [Replicas -> [Deps -> Seq(Ops)]] BY <1>1, <1>3, <1>11 DEF IInv, TypeOK
  <2> QED BY <1>6, <1>7, <1>10, <2>4, <2>5 DEF IInv, TypeOK
<1> HIDE DEF id, after, waiting
<1>13. Local(r) BY DEF IInv, LocalInv
<1>14. Known(r)'
  <2>1. Range(waiting) \subseteq received[r] BY <1>3, <1>13 DEF Local, Known, waiting
  <2>2. \A d \in Deps : Range(pending'[r][d]) \subseteq received[r]
    BY <1>8, <1>11, <1>13 DEF Local, Known
  <2> QED BY <1>2, <1>6, <1>13, <2>1, <2>2 DEF Local, Known
<1>15. Handled(r)'
  <2> SUFFICES ASSUME NEW o \in received[r]
               PROVE  Applied(r, o)' \/ o \in Range(todo'[r]) \/ Waits(r, o)'
    BY <1>6 DEF Handled, Applied, Waits, Present
  <2>1. o \in Ops /\ o.dep \in Deps BY OpKinds DEF IInv, TypeOK
  <2>2. CASE Applied(r, o) BY <1>7, <2>2 DEF Applied, Present
  <2>3. CASE o = op BY <1>1, <1>7, <2>3 DEF Applied, Present, id
  <2>4. CASE o \in Range(Tail(todo[r])) BY <1>6, <2>4
  <2>5. CASE Waits(r, o)
    <3>1. CASE o.dep = id BY <1>6, <2>5, <3>1 DEF Waits, waiting
    <3>2. CASE o.dep # id BY <1>7, <1>8, <2>1, <2>5, <3>2 DEF Waits, Present
    <3> QED BY <3>1, <3>2
  <2> QED BY <1>2, <1>13, <2>2, <2>3, <2>4, <2>5 DEF Local, Handled
<1>16. Caused(r)'
  <2> SUFFICES ASSUME NEW k \in DOMAIN nodes'[r]
               PROVE  /\ Ins(k, nodes'[r][k].after) \in received[r]
                      /\ nodes'[r][k].deleted => Del(k) \in received[r]
    BY <1>6 DEF Caused
  <2>1. CASE k = id BY <1>2, <1>3, <1>7, <2>1
  <2>2. CASE k # id BY <1>7, <1>13, <2>2 DEF Local, Caused
  <2> QED BY <2>1, <2>2
<1>17. Grounded(r)'
  <2>1. ~Present(r, id) /\ (after = Root \/ Present(r, after)) BY <1>1 DEF id, after
  <2>2. nodes'[r][id].after = after BY <1>7
  <2>3. \A k \in DOMAIN nodes'[r] :
          nodes'[r][k].after = Root \/ nodes'[r][k].after \in DOMAIN nodes[r]
    BY <1>7, <1>13, <2>1, <2>2 DEF Local, Grounded, Present
  <2>4. ASSUME NEW X \in SUBSET DOMAIN nodes'[r], X # {}
        PROVE  \E k \in X : nodes'[r][k].after \notin X
    <3>1. CASE X = {id} BY <1>3, <2>1, <2>2, <3>1 DEF Present
    <3>2. CASE X # {id}
      <4>1. X \ {id} \in SUBSET DOMAIN nodes[r] /\ X \ {id} # {} BY <1>7, <2>4, <3>2
      <4>2. PICK k \in X \ {id} : nodes[r][k].after \notin X \ {id}
        BY <1>13, <4>1 DEF Local, Grounded
      <4>3. k \in DOMAIN nodes[r] /\ nodes'[r][k] = nodes[r][k] BY <1>7, <4>1, <4>2
      <4>4. nodes'[r][k].after # id BY <1>3, <1>7, <2>1, <2>3, <4>3 DEF Present
      <4> QED BY <4>2, <4>3, <4>4
    <3> QED BY <3>1, <3>2
  <2> QED BY <1>7, <2>3, <2>4 DEF Grounded, Present
<1>18. LocalInv'
  BY <1>6, <1>7, <1>8, <1>14, <1>15, <1>16, <1>17, ReplicaKeeps DEF Local, IInv
<1> QED BY <1>10, <1>12, <1>18 DEF IInv

\* An operation whose node is missing is buffered under the key of that node.
LEMMA DeferKeeps ==
  ASSUME IInv, NEW r \in Replicas, NEW op, Call(r, op), Defer(r, op),
         op.dep # Root, ~Present(r, op.dep),
         clock' \in [Replicas -> Nat], IdsInv'
  PROVE  IInv'
<1>1. /\ op \in Ops /\ op \in received[r] /\ op.dep \in Deps
      /\ Range(todo[r]) = {op} \cup Range(Tail(todo[r]))
  BY CallFacts, OpKinds
<1>2. <<>> \in Seq(Ops) /\ Range(<<>>) = {} BY RangeEmpty
<1>3. /\ todo' \in [Replicas -> Seq(Ops)]
      /\ Range(todo'[r]) = Range(Tail(todo[r]))
      /\ \A s \in Replicas \ {r} : todo'[s] = todo[s]
      /\ UNCHANGED <<nodes, sent, received>>
  BY <1>2, ThenFacts DEF Defer
<1> DEFINE d == op.dep
           b == Append(pending[r][d], op)
<1>4. pending' = [pending EXCEPT ![r][d] = b] BY DEF Defer
<1>5. pending[r][d] \in Seq(Ops) BY <1>1 DEF IInv, TypeOK
<1>6. b \in Seq(Ops) /\ Range(b) = Range(pending[r][d]) \cup {op} BY <1>1, <1>5, RangeAppend
<1>7. /\ pending'[r][d] = b
      /\ \A e \in Deps \ {d} : pending'[r][e] = pending[r][e]
      /\ \A s \in Replicas \ {r} : pending'[s] = pending[s]
  BY <1>1, <1>4 DEF IInv, TypeOK
<1> HIDE DEF b
<1>8. TypeOK'
  <2>1. pending' \in [Replicas -> [Deps -> Seq(Ops)]] BY <1>4, <1>6 DEF IInv, TypeOK
  <2> QED BY <1>3, <2>1 DEF IInv, TypeOK
<1> HIDE DEF d
<1>9. Local(r) BY DEF IInv, LocalInv
<1>10. Known(r)'
  <2>1. \A e \in Deps : Range(pending'[r][e]) \subseteq received[r]
    BY <1>1, <1>6, <1>7, <1>9 DEF Local, Known, d
  <2> QED BY <1>1, <1>3, <1>9, <2>1 DEF Local, Known
<1>11. Handled(r)'
  <2> SUFFICES ASSUME NEW o \in received[r]
               PROVE  Applied(r, o)' \/ o \in Range(todo'[r]) \/ Waits(r, o)'
    BY <1>3 DEF Handled, Applied, Waits, Present
  <2>1. o \in Ops /\ o.dep \in Deps BY OpKinds DEF IInv, TypeOK
  <2>2. CASE Applied(r, o) BY <1>3, <2>2 DEF Applied, Present
  <2>3. CASE o = op BY <1>3, <1>6, <1>7, <2>3 DEF Waits, Present, d
  <2>4. CASE o \in Range(Tail(todo[r])) BY <1>3, <2>4
  <2>5. CASE Waits(r, o)
    <3>1. Range(pending[r][o.dep]) \subseteq Range(pending'[r][o.dep])
      BY <1>6, <1>7, <2>1
    <3> QED BY <1>3, <2>5, <3>1 DEF Waits, Present
  <2> QED BY <1>1, <1>9, <2>2, <2>3, <2>4, <2>5 DEF Local, Handled
<1>12. Caused(r)' /\ Grounded(r)' BY <1>3, <1>9 DEF Local, Caused, Grounded, Present
<1>13. LocalInv' BY <1>3, <1>7, <1>10, <1>11, <1>12, ReplicaKeeps DEF Local, IInv
<1> QED BY <1>8, <1>13 DEF IInv

\* An insertion whose predecessor is missing is put off.
LEMMA DeferInsertKeeps ==
  ASSUME IInv, NEW r \in Replicas, NEW op, DeferInsert(r, op)
  PROVE  IInv'
<1>1. op \in sent /\ UNCHANGED sent BY CallFacts DEF DeferInsert, Defer, Then
<1>2. clock' \in [Replicas -> Nat] /\ IdsInv' BY <1>1, CatchUpKeeps DEF DeferInsert
<1> QED BY <1>2, DeferKeeps DEF DeferInsert

\* A deletion of a node that is missing is put off.
LEMMA DeferDeleteKeeps ==
  ASSUME IInv, NEW r \in Replicas, NEW op, DeferDelete(r, op)
  PROVE  IInv'
<1>1. UNCHANGED <<sent, clock>> BY DEF DeferDelete, Defer, Then
<1>2. op.dep # Root BY CallFacts, OpKinds, RootAssumption DEF DeferDelete
<1>3. clock' \in [Replicas -> Nat] /\ IdsInv' BY <1>1 DEF IInv, TypeOK, IdsInv
<1> QED BY <1>2, <1>3, DeferKeeps DEF DeferDelete

\* A node that is present is marked as deleted.
LEMMA ApplyDeleteKeeps ==
  ASSUME IInv, NEW r \in Replicas, NEW op, ApplyDelete(r, op)
  PROVE  IInv'
<1> DEFINE key == op.dep
<1>1. /\ Call(r, op) /\ op.type = "del" /\ key \in DOMAIN nodes[r] /\ Then(r, <<>>)
      /\ nodes' = [nodes EXCEPT ![r][key].deleted = TRUE]
      /\ UNCHANGED <<clock, pending>>
  BY DEF ApplyDelete, Present
<1>2. /\ op \in Ops /\ op \in received[r] /\ op = Del(key)
      /\ Range(todo[r]) = {op} \cup Range(Tail(todo[r]))
  BY <1>1, CallFacts, OpKinds
<1>3. <<>> \in Seq(Ops) /\ Range(<<>>) = {} BY RangeEmpty
<1>4. /\ todo' \in [Replicas -> Seq(Ops)]
      /\ Range(todo'[r]) = Range(Tail(todo[r]))
      /\ \A s \in Replicas \ {r} : todo'[s] = todo[s]
      /\ UNCHANGED <<sent, received>>
  BY <1>1, <1>3, ThenFacts
<1>5. DOMAIN nodes[r] \subseteq Ids /\ nodes[r] \in [DOMAIN nodes[r] -> Node]
  BY DEF IInv, TypeOK
<1>6. /\ DOMAIN nodes'[r] = DOMAIN nodes[r]
      /\ nodes'[r] = [nodes[r] EXCEPT ![key].deleted = TRUE]
      /\ DOMAIN nodes' = Replicas /\ \A s \in Replicas \ {r} : nodes'[s] = nodes[s]
  BY <1>1 DEF IInv, TypeOK
<1>7. /\ nodes'[r][key] = [nodes[r][key] EXCEPT !.deleted = TRUE]
      /\ \A k \in DOMAIN nodes[r] \ {key} : nodes'[r][k] = nodes[r][k]
  BY <1>1, <1>6
<1>8. nodes'[r][key] \in Node /\ nodes'[r][key].after = nodes[r][key].after
      /\ nodes'[r][key].deleted
  <2>1. nodes[r][key] \in Node BY <1>1, <1>5
  <2>2. \A n \in Node : /\ [n EXCEPT !.deleted = TRUE] \in Node
                        /\ [n EXCEPT !.deleted = TRUE].after = n.after
                        /\ [n EXCEPT !.deleted = TRUE].deleted
    BY DEF Node
  <2> QED BY <1>7, <2>1, <2>2
<1> HIDE DEF key
<1>9. TypeOK'
  <2>1. nodes'[r] \in [DOMAIN nodes[r] -> Node] BY <1>1, <1>5, <1>6, <1>7, <1>8
  <2>2. \A s \in Replicas :
          DOMAIN nodes'[s] \subseteq Ids /\ nodes'[s] \in [DOMAIN nodes'[s] -> Node]
    BY <1>5, <1>6, <2>1 DEF IInv, TypeOK
  <2> QED BY <1>1, <1>4, <1>6, <2>2 DEF IInv, TypeOK
<1>10. IdsInv' BY <1>1, <1>4 DEF IInv, IdsInv
<1>11. Local(r) BY DEF IInv, LocalInv
<1>12. Known(r)' BY <1>1, <1>2, <1>4, <1>11 DEF Local, Known
<1>13. Handled(r)'
  <2> SUFFICES ASSUME NEW o \in received[r]
               PROVE  Applied(r, o)' \/ o \in Range(todo'[r]) \/ Waits(r, o)'
    BY <1>4 DEF Handled, Applied, Waits, Present
  <2>1. CASE Applied(r, o) BY <1>6, <1>7, <1>8, <2>1 DEF Applied, Present
  <2>2. CASE o = op BY <1>1, <1>6, <1>8, <2>2 DEF Applied, Present, key
  <2>3. CASE o \in Range(Tail(todo[r])) BY <1>4, <2>3
  <2>4. CASE Waits(r, o) BY <1>1, <1>6, <2>4 DEF Waits, Present
  <2> QED BY <1>2, <1>11, <2>1, <2>2, <2>3, <2>4 DEF Local, Handled
<1>14. \A k \in DOMAIN nodes[r] : nodes'[r][k].after = nodes[r][k].after
  BY <1>7, <1>8
<1>15. Caused(r)'
  <2> SUFFICES ASSUME NEW k \in DOMAIN nodes[r]
               PROVE  /\ Ins(k, nodes'[r][k].after) \in received[r]
                      /\ nodes'[r][k].deleted => Del(k) \in received[r]
    BY <1>4, <1>6 DEF Caused
  <2>1. CASE k = key BY <1>2, <1>11, <1>14, <2>1 DEF Local, Caused
  <2>2. CASE k # key BY <1>7, <1>11, <2>2 DEF Local, Caused
  <2> QED BY <2>1, <2>2
<1>16. Grounded(r)' BY <1>6, <1>11, <1>14 DEF Local, Grounded, Present
<1>17. LocalInv'
  BY <1>1, <1>4, <1>6, <1>12, <1>13, <1>15, <1>16, ReplicaKeeps DEF Local, IInv
<1> QED BY <1>9, <1>10, <1>17 DEF IInv

-----------------------------------------------------------------------------
\* The invariant holds of empty replicas.
LEMMA InitHolds == Init => IInv
<1> SUFFICES ASSUME Init PROVE IInv OBVIOUS
<1> USE DEF Init
<1>1. <<>> \in Seq(Ops) /\ Range(<<>>) = {} BY RangeEmpty
<1>2. DOMAIN nodes = Replicas /\ \A r \in Replicas : DOMAIN nodes[r] = {} OBVIOUS
<1>3. \A r \in Replicas : nodes[r] \in [DOMAIN nodes[r] -> Node] OBVIOUS
<1>4. TypeOK BY <1>1, <1>2, <1>3 DEF TypeOK
<1>5. IsFiniteSet(sent) /\ Cardinality(sent) = 0 BY FS_EmptySet
<1>6. IdsInv BY <1>5 DEF IdsInv
<1>7. LocalInv
  BY <1>1, <1>2 DEF LocalInv, Local, Known, Handled, Caused, Grounded
<1> QED BY <1>4, <1>6, <1>7 DEF IInv

\* Every step of a replica or of the network keeps the invariant.
LEMMA NextKeeps == IInv /\ [Next]_vars => IInv'
<1> SUFFICES ASSUME IInv, [Next]_vars PROVE IInv' OBVIOUS
<1>1. CASE UNCHANGED vars
  BY <1>1 DEF vars, IInv, TypeOK, IdsInv, LocalInv, Local, Known, Handled, Applied, Waits,
     Caused, Grounded, Present
<1>2. ASSUME NEW r \in Replicas, Apply(r) PROVE IInv'
  BY <1>2, ApplyKnownKeeps, ApplyInsertKeeps, DeferInsertKeeps, ApplyDeleteKeeps,
     DeferDeleteKeeps DEF Apply
<1> QED BY <1>1, <1>2, InsertKeeps, DeleteKeeps, DeliverKeeps DEF Next

\* The inductive invariant holds in every reachable state.
THEOREM InvariantHolds == Spec => []IInv
BY InitHolds, NextKeeps, PTL DEF Spec

-----------------------------------------------------------------------------
\* Nothing that one idle replica has is missing from another that has been given
\* the same operations.
LEMMA NothingMissing ==
  ASSUME IInv, NEW r \in Replicas, NEW s \in Replicas, Idle(s), received[r] = received[s]
  PROVE  DOMAIN nodes[r] \subseteq DOMAIN nodes[s]
<1> DEFINE X == DOMAIN nodes[r] \ DOMAIN nodes[s]
<1> SUFFICES ASSUME X # {} PROVE FALSE OBVIOUS
<1>1. Local(r) /\ Local(s) BY DEF IInv, LocalInv
<1>2. PICK k \in X : nodes[r][k].after \notin X BY <1>1 DEF Local, Grounded
<1> DEFINE after == nodes[r][k].after
           op == Ins(k, after)
<1>3. op \in received[s] BY <1>1, <1>2 DEF Local, Caused
<1>4. op.type = "ins" /\ op.id = k /\ op.dep = after BY DEF Ins
<1>5. after = Root \/ after \in DOMAIN nodes[s] BY <1>1, <1>2 DEF Local, Grounded, Present
<1>6. Range(todo[s]) = {} BY RangeEmpty DEF Idle
<1>7. Applied(s, op) \/ Waits(s, op) BY <1>1, <1>3, <1>6 DEF Local, Handled
<1> HIDE DEF op
<1> QED BY <1>2, <1>4, <1>5, <1>7 DEF Applied, Waits, Present

\* The fields of a node are those of the operations received.
LEMMA SameNode ==
  ASSUME IInv, NEW r \in Replicas, NEW s \in Replicas, Idle(s), received[r] = received[s],
         NEW k \in DOMAIN nodes[r] \cap DOMAIN nodes[s]
  PROVE  /\ nodes[r][k].after = nodes[s][k].after
         /\ nodes[r][k].deleted => nodes[s][k].deleted
<1>1. Local(r) /\ Local(s) BY DEF IInv, LocalInv
<1> DEFINE a == Ins(k, nodes[r][k].after)
           b == Ins(k, nodes[s][k].after)
           d == Del(k)
<1>2. a \in sent /\ b \in sent BY <1>1 DEF Local, Caused, Known
<1>3. /\ a.type = "ins" /\ a.id = k /\ a.dep = nodes[r][k].after
      /\ b.type = "ins" /\ b.id = k /\ b.dep = nodes[s][k].after
  BY DEF Ins
<1>4. d.type = "del" /\ d.dep = k BY DEF Del
<1> HIDE DEF a, b, d
<1>5. a = b BY <1>2, <1>3 DEF IInv, IdsInv
<1>6. ASSUME nodes[r][k].deleted PROVE nodes[s][k].deleted
  <2>1. d \in received[s] BY <1>1, <1>6 DEF Local, Caused, d
  <2>2. Range(todo[s]) = {} BY RangeEmpty DEF Idle
  <2>3. Applied(s, d) \/ Waits(s, d) BY <1>1, <2>1, <2>2 DEF Local, Handled
  <2> QED BY <1>4, <2>3 DEF Applied, Waits, Present
<1> QED BY <1>3, <1>5, <1>6

\* Strong eventual consistency, whatever the network does and however deep apply
\* calls itself: replicas given the same operations hold the same nodes.
THEOREM ConvergedHolds == Spec => []Converged
<1>1. IInv => Converged
  <2> SUFFICES ASSUME IInv, NEW r \in Replicas, NEW s \in Replicas, Idle(r), Idle(s),
                      received[r] = received[s]
               PROVE  nodes[r] = nodes[s]
    BY DEF Converged
  <2>1. DOMAIN nodes[r] = DOMAIN nodes[s] BY NothingMissing
  <2>2. nodes[r] \in [DOMAIN nodes[r] -> Node] /\ nodes[s] \in [DOMAIN nodes[s] -> Node]
    BY DEF IInv, TypeOK
  <2>3. ASSUME NEW k \in DOMAIN nodes[r] PROVE nodes[r][k] = nodes[s][k]
    <3>1. nodes[r][k] \in Node /\ nodes[s][k] \in Node BY <2>1, <2>2
    <3>2. /\ nodes[r][k].after = nodes[s][k].after
          /\ nodes[r][k].deleted <=> nodes[s][k].deleted
      BY <2>1, SameNode
    <3> QED BY <3>1, <3>2 DEF Node
  <2> QED BY <2>1, <2>2, <2>3
<1> QED BY <1>1, InvariantHolds, PTL

\* A node is never dropped, and one that is marked deleted stays so, when its
\* insertion is delivered again or other operations are applied.
THEOREM NoResurrectionHolds == Spec => NoResurrection
<1> DEFINE Kept == \A r \in Replicas : \A k \in DOMAIN nodes[r] :
             /\ k \in DOMAIN nodes'[r]
             /\ nodes[r][k].deleted => nodes'[r][k].deleted
<1>1. ASSUME IInv, [Next]_vars PROVE Kept
  <2>1. CASE UNCHANGED nodes BY <2>1
  <2>2. ASSUME NEW r \in Replicas, NEW op, ApplyInsert(r, op) PROVE Kept
    BY <1>1, <2>2 DEF ApplyInsert, Present, IInv, TypeOK
  <2>3. ASSUME NEW r \in Replicas, NEW op, ApplyDelete(r, op) PROVE Kept
    <3>1. /\ op.dep \in DOMAIN nodes[r] /\ nodes' = [nodes EXCEPT ![r][op.dep].deleted = TRUE]
      BY <2>3 DEF ApplyDelete, Present
    <3>2. nodes[r][op.dep] \in Node BY <1>1, <3>1 DEF IInv, TypeOK
    <3> QED BY <1>1, <3>1, <3>2 DEF IInv, TypeOK, Node
  <2>4. ASSUME NEW r \in Replicas, Apply(r) PROVE Kept
    <3>1. PICK op \in sent : \/ ApplyKnown(r, op) \/ ApplyInsert(r, op) \/ DeferInsert(r, op)
                             \/ ApplyDelete(r, op) \/ DeferDelete(r, op)
      BY <2>4 DEF Apply
    <3>2. CASE ApplyKnown(r, op) \/ DeferInsert(r, op) \/ DeferDelete(r, op)
      BY <2>1, <3>2 DEF ApplyKnown, DeferInsert, DeferDelete, Defer
    <3> QED BY <2>2, <2>3, <3>1, <3>2
  <2> QED
    BY <1>1, <2>1, <2>4 DEF Next, vars, InsertAtIndex, DeleteAtIndex, Deliver, Edit
<1>2. IInv /\ [Next]_vars => [Kept]_vars BY <1>1
<1> QED BY <1>2, InvariantHolds, PTL DEF Spec, NoResurrection
-----------------------------------------------------------------------------
(* The order of the elements.                                              *)

\* The Lamport clocks: a replica's clock is ahead of the nodes it holds, so a new
\* id is newer than the node it is to follow.
Lamport ==
  /\ \A r \in Replicas : \A k \in DOMAIN nodes[r] : k[1] <= clock[r]
  /\ \A op \in sent : op.type = "ins" /\ op.dep \in Ids => op.dep[1] < op.id[1]

\* Where a node comes from.
LEMMA NodeFacts ==
  ASSUME IInv, Lamport, NEW r \in Replicas, NEW k \in DOMAIN nodes[r]
  PROVE  /\ k \in Ids /\ Ins(k, nodes[r][k].after) \in sent
         /\ nodes[r][k].after \in DOMAIN nodes[r] \cup {Root}
         /\ Level(nodes[r][k].after) < Level(k)
<1> DEFINE after == nodes[r][k].after
           op == Ins(k, after)
<1>1. Local(r) BY DEF IInv, LocalInv
<1>2. op \in sent BY <1>1 DEF Local, Caused, Known
<1>3. k \in Ids BY DEF IInv, TypeOK
<1>4. after \in DOMAIN nodes[r] \cup {Root} BY <1>1 DEF Local, Grounded, Present
<1>5. op.type = "ins" /\ op.id = k /\ op.dep = after BY DEF Ins
<1>6. k[1] \in Nat \ {0} /\ Level(k) = k[1] BY <1>3, RootAssumption, BoundsAssumption DEF Ids, Level
<1> HIDE DEF op
<1>7. after = Root => Level(after) < Level(k) BY <1>6 DEF Level
<1>8. ASSUME after \in DOMAIN nodes[r] PROVE Level(after) < Level(k)
  <2>1. after \in Ids BY <1>8 DEF IInv, TypeOK
  <2>2. after[1] < k[1] BY <1>2, <1>5, <2>1 DEF Lamport
  <2> QED BY <1>6, <2>1, <2>2, RootAssumption DEF Level
<1> QED BY <1>2, <1>3, <1>4, <1>7, <1>8 DEF op

\* The nodes of a replica are a tree.
LEMMA NodesAreTree ==
  ASSUME IInv, Lamport, NEW r \in Replicas
  PROVE  Tree(nodes[r])
<1> DEFINE D == DOMAIN nodes[r]
           f == [k \in D |-> Ins(k, nodes[r][k].after)]
<1>1. \A k \in D : Ins(k, nodes[r][k].after) \in sent BY NodeFacts
<1>2. \A k, j \in D : f[k] = f[j] => k = j BY DEF Ins
<1>3. f \in Injection(D, sent) BY <1>1, <1>2 DEF Injection, IsInjective
<1> HIDE DEF f, D
<1>4. IsFiniteSet(sent) BY DEF IInv, IdsInv
<1>5. IsFiniteSet(D) BY <1>3, <1>4, FS_Injection
<1> QED BY <1>5, NodeFacts DEF D, Tree

\* Two replicas give a node that both have the same predecessor.
LEMMA NodesAgree ==
  ASSUME IInv, Lamport, NEW r \in Replicas, NEW s \in Replicas
  PROVE  Agree(nodes[r], nodes[s])
<1> SUFFICES ASSUME NEW k \in DOMAIN nodes[r] \cap DOMAIN nodes[s]
             PROVE  nodes[r][k].after = nodes[s][k].after
  BY DEF Agree
<1> DEFINE a == Ins(k, nodes[r][k].after)
           b == Ins(k, nodes[s][k].after)
<1>1. a \in sent /\ b \in sent BY NodeFacts
<1>2. /\ a.type = "ins" /\ a.id = k /\ a.dep = nodes[r][k].after
      /\ b.type = "ins" /\ b.id = k /\ b.dep = nodes[s][k].after
  BY DEF Ins
<1> HIDE DEF a, b
<1>3. a = b BY <1>1, <1>2 DEF IInv, IdsInv
<1> QED BY <1>2, <1>3

\* The text a replica shows: the nodes that are not deleted, in the order of the walk.
LEMMA VisibleFacts ==
  ASSUME NEW n, Tree(n)
  PROVE  LET live == {k \in DOMAIN n : ~n[k].deleted}
         IN  /\ Visible(n) \in Seq(DOMAIN n) /\ Range(Visible(n)) = live
             /\ \A a, b : Before(Visible(n), a, b) <=>
                            a \in live /\ b \in live /\ Before(Ordered(n), a, b)
<1> DEFINE live == {k \in DOMAIN n : ~n[k].deleted}
<1>1. live \subseteq DOMAIN n OBVIOUS
<1>2. Visible(n) = Keep(Ordered(n), live) BY DEF Visible
<1> HIDE DEF live
<1>3. Ordered(n) \in Seq(DOMAIN n) /\ Range(Ordered(n)) = DOMAIN n BY OrderedFacts
<1>4. /\ Visible(n) \in Seq(DOMAIN n) /\ Range(Visible(n)) = DOMAIN n \cap live
      /\ \A a, b : Before(Visible(n), a, b) <=>
                     a \in live /\ b \in live /\ Before(Ordered(n), a, b)
  BY <1>2, <1>3, KeepOrder
<1>5. Range(Visible(n)) = live BY <1>1, <1>4
<1> QED BY <1>4, <1>5 DEF live

\* An edit inserts after a visible node, or at the root, or beyond the end.
LEMMA InsertAfter ==
  ASSUME IInv, Lamport, NEW r \in Replicas, NEW index \in 0 .. MaxOps, InsertAtIndex(r, index)
  PROVE  \E after \in Deps :
           /\ \/ after = Root
              \/ after = Undefined
              \/ after \in DOMAIN nodes[r] /\ ~nodes[r][after].deleted
           /\ Idle(r) /\ clock' = [clock EXCEPT ![r] = clock[r] + 1]
           /\ Edit(r, Ins(<<clock[r] + 1, r>>, after))
<1> DEFINE keys == Visible(nodes[r])
<1>1. PICK after \in Deps :
        /\ Idle(r) /\ clock' = [clock EXCEPT ![r] = clock[r] + 1]
        /\ after = IF index = 0 THEN Root
                   ELSE IF index <= Len(keys) THEN keys[index] ELSE Undefined
        /\ Edit(r, Ins(<<clock[r] + 1, r>>, after))
  BY DEF InsertAtIndex
<1>2. Tree(nodes[r]) BY NodesAreTree
<1>3. keys \in Seq(DOMAIN nodes[r]) /\ Range(keys) = {k \in DOMAIN nodes[r] : ~nodes[r][k].deleted}
  BY <1>2, VisibleFacts
<1> HIDE DEF keys
<1>4. Range(keys) = {keys[i] : i \in 1 .. Len(keys)} /\ Len(keys) \in Nat
  BY <1>3, RangeEquality, LenProperties
<1>5. ASSUME index # 0, index <= Len(keys)
      PROVE  after \in DOMAIN nodes[r] /\ ~nodes[r][after].deleted
  <2>1. index \in 1 .. Len(keys) BY <1>4, <1>5, BoundsAssumption
  <2>2. keys[index] \in Range(keys) BY <1>4, <2>1
  <2> QED BY <1>1, <1>3, <1>5, <2>2
<1> QED BY <1>1, <1>5

\* A step that broadcasts nothing, turns no clock back, and adds no node that is
\* ahead of the clock of its replica.
LEMMA LamportFrame ==
  ASSUME IInv, Lamport, UNCHANGED sent, clock' \in [Replicas -> Nat],
         \A r \in Replicas : clock[r] <= clock'[r],
         \A r \in Replicas : \A k \in DOMAIN nodes'[r] : k \in DOMAIN nodes[r] \/ k[1] <= clock'[r]
  PROVE  Lamport'
<1>1. ASSUME NEW r \in Replicas, NEW k \in DOMAIN nodes'[r] PROVE k[1] <= clock'[r]
  <2>1. CASE k \in DOMAIN nodes[r]
    <3>1. k \in Ids BY <2>1 DEF IInv, TypeOK
    <3>2. k[1] \in Nat /\ clock[r] \in Nat /\ clock'[r] \in Nat /\ clock[r] <= clock'[r]
      BY <3>1, BoundsAssumption DEF Ids, IInv, TypeOK
    <3>3. k[1] <= clock[r] BY <2>1 DEF Lamport
    <3> QED BY <3>2, <3>3
  <2> QED BY <2>1
<1> QED BY <1>1 DEF Lamport

\* Every step keeps the clocks ahead.
LEMMA LamportKeeps == IInv /\ Lamport /\ [Next]_vars => Lamport'
<1> SUFFICES ASSUME IInv, Lamport, [Next]_vars PROVE Lamport' OBVIOUS
<1>1. clock \in [Replicas -> Nat] /\ DOMAIN nodes = Replicas BY DEF IInv, TypeOK
<1>2. CASE UNCHANGED <<clock, nodes, sent>> BY <1>2 DEF Lamport
<1>3. ASSUME NEW r \in Replicas, NEW index \in 0 .. MaxOps, InsertAtIndex(r, index)
      PROVE  Lamport'
  <2>1. PICK after \in Deps :
          /\ after = Root \/ after = Undefined \/ after \in DOMAIN nodes[r]
          /\ clock' = [clock EXCEPT ![r] = clock[r] + 1]
          /\ Edit(r, Ins(<<clock[r] + 1, r>>, after))
    BY <1>3, InsertAfter
  <2> DEFINE op == Ins(<<clock[r] + 1, r>>, after)
  <2>2. op.id[1] = clock[r] + 1 /\ op.dep = after BY DEF Ins
  <2>3. sent' = sent \cup {op} /\ UNCHANGED nodes BY <2>1 DEF Edit
  <2> HIDE DEF op
  <2>4. ASSUME after \in Ids PROVE after[1] < clock[r] + 1
    <3>1. after[1] <= clock[r] BY <2>1, <2>4, RootAssumption DEF Lamport
    <3>2. after[1] \in Nat /\ clock[r] \in Nat BY <1>1, <2>4, BoundsAssumption DEF Ids
    <3> QED BY <3>1, <3>2
  <2>5. \A o \in sent' : o.type = "ins" /\ o.dep \in Ids => o.dep[1] < o.id[1]
    BY <2>2, <2>3, <2>4 DEF Lamport
  <2>6. ASSUME NEW s \in Replicas, NEW k \in DOMAIN nodes[s] PROVE k[1] <= clock'[s]
    <3>1. k[1] <= clock[s] BY DEF Lamport
    <3>2. k \in Ids BY DEF IInv, TypeOK
    <3>3. k[1] \in Nat /\ clock[s] \in Nat BY <1>1, <3>2, BoundsAssumption DEF Ids
    <3>4. clock'[s] = clock[s] \/ clock'[s] = clock[s] + 1 BY <1>1, <2>1
    <3> QED BY <3>1, <3>3, <3>4
  <2> QED BY <2>3, <2>5, <2>6 DEF Lamport
<1>4. ASSUME NEW r \in Replicas, NEW index \in 1 .. MaxOps, DeleteAtIndex(r, index)
      PROVE  Lamport'
  <2>1. PICK key \in Ids : Edit(r, Del(key)) /\ UNCHANGED clock BY <1>4 DEF DeleteAtIndex
  <2>2. Del(key).type = "del" BY DEF Del
  <2>3. sent' = sent \cup {Del(key)} /\ UNCHANGED nodes BY <2>1 DEF Edit
  <2> QED BY <2>1, <2>2, <2>3 DEF Lamport
<1>5. ASSUME NEW r \in Replicas, NEW op \in sent, op.type = "ins", CatchUp(r, op.id[1])
      PROVE  /\ clock' \in [Replicas -> Nat]
             /\ \A s \in Replicas : clock[s] <= clock'[s]
             /\ op.id[1] <= clock'[r]
  <2>1. op.id \in Ids BY <1>5, OpKinds DEF IInv, TypeOK
  <2>2. op.id[1] \in Nat BY <2>1, BoundsAssumption DEF Ids
  <2>3. clock' = [clock EXCEPT ![r] = IF op.id[1] > clock[r] THEN op.id[1] ELSE clock[r]]
    BY <1>5 DEF CatchUp
  <2>4. clock'[r] = (IF op.id[1] > clock[r] THEN op.id[1] ELSE clock[r])
    BY <1>1, <2>3
  <2>5. \A s \in Replicas : s # r => clock'[s] = clock[s] BY <1>1, <2>3
  <2>6. \A s \in Replicas : clock[s] \in Nat BY <1>1
  <2> QED BY <1>1, <2>2, <2>3, <2>4, <2>5, <2>6
<1>6. ASSUME NEW r \in Replicas, NEW op \in sent, ApplyInsert(r, op) PROVE Lamport'
  <2>1. /\ op.type = "ins" /\ CatchUp(r, op.id[1]) /\ UNCHANGED sent
        /\ nodes' = [nodes EXCEPT ![r] =
             [k \in DOMAIN nodes[r] \cup {op.id} |->
                IF k = op.id THEN [after |-> op.dep, deleted |-> FALSE] ELSE nodes[r][k]]]
    BY <1>6 DEF ApplyInsert, Then
  <2>2. /\ DOMAIN nodes'[r] = DOMAIN nodes[r] \cup {op.id}
        /\ \A s \in Replicas : s # r => nodes'[s] = nodes[s]
    BY <1>1, <2>1
  <2>3. /\ clock' \in [Replicas -> Nat]
        /\ \A s \in Replicas : clock[s] <= clock'[s]
        /\ op.id[1] <= clock'[r]
    BY <1>5, <2>1
  <2>4. \A s \in Replicas : \A k \in DOMAIN nodes'[s] : k \in DOMAIN nodes[s] \/ k[1] <= clock'[s]
    BY <2>2, <2>3
  <2> QED BY <2>1, <2>3, <2>4, LamportFrame
<1>7. ASSUME NEW r \in Replicas, NEW op \in sent, DeferInsert(r, op) PROVE Lamport'
  <2>1. op.type = "ins" /\ CatchUp(r, op.id[1]) /\ UNCHANGED <<sent, nodes>>
    BY <1>7 DEF DeferInsert, Defer, Then
  <2>2. clock' \in [Replicas -> Nat] /\ \A s \in Replicas : clock[s] <= clock'[s] BY <1>5, <2>1
  <2> QED BY <2>1, <2>2, LamportFrame
<1>8. ASSUME NEW r \in Replicas, NEW op \in sent, ApplyDelete(r, op) PROVE Lamport'
  <2>1. /\ UNCHANGED <<sent, clock>> /\ op.dep \in DOMAIN nodes[r]
        /\ nodes' = [nodes EXCEPT ![r][op.dep].deleted = TRUE]
    BY <1>8 DEF ApplyDelete, Then, Present
  <2>2. \A s \in Replicas : DOMAIN nodes'[s] = DOMAIN nodes[s] BY <1>1, <2>1
  <2> QED BY <2>1, <2>2 DEF Lamport
<1>9. ASSUME NEW r \in Replicas, Apply(r) PROVE Lamport'
  <2>1. PICK op \in sent : \/ ApplyKnown(r, op) \/ ApplyInsert(r, op) \/ DeferInsert(r, op)
                           \/ ApplyDelete(r, op) \/ DeferDelete(r, op)
    BY <1>9 DEF Apply
  <2>2. CASE ApplyKnown(r, op) \/ DeferDelete(r, op)
    BY <1>2, <2>2 DEF ApplyKnown, DeferDelete, Defer, Then
  <2> QED BY <1>6, <1>7, <1>8, <2>1, <2>2
<1> QED BY <1>2, <1>3, <1>4, <1>9 DEF Next, vars, Deliver

\* The clocks are ahead in every reachable state.
LEMMA LamportHolds == Spec => []Lamport
<1>1. Init => Lamport BY DEF Init, Lamport
<1> QED BY <1>1, LamportKeeps, InvariantHolds, PTL DEF Spec

\* Replicas agree on the order of the elements they share, whatever each has seen
\* besides: _ordered of one, without what the other lacks, is _ordered of the other,
\* without what the first lacks.
THEOREM OrderAgreesHolds == Spec => []OrderAgrees
<1>1. IInv /\ Lamport => OrderAgrees
  BY NodesAreTree, NodesAgree, OrderedAgrees DEF OrderAgrees
<1> QED BY <1>1, InvariantHolds, LamportHolds, PTL

-----------------------------------------------------------------------------
(* Where a new element goes.                                               *)

\* In a sequence without repetitions one of two elements comes first.
LEMMA BeforeAsymmetric ==
  ASSUME NEW S, NEW s \in Seq(S), \A a : ~Before(s, a, a), NEW a, NEW b, Before(s, a, b)
  PROVE  ~Before(s, b, a)
<1> SUFFICES ASSUME Before(s, b, a) PROVE FALSE OBVIOUS
<1>1. Len(s) \in Nat BY LenProperties
<1>2. PICK p \in 1 .. Len(s), q \in 1 .. Len(s) : p < q /\ s[p] = a /\ s[q] = b
  BY DEF Before
<1>3. PICK x \in 1 .. Len(s), y \in 1 .. Len(s) : x < y /\ s[x] = b /\ s[y] = a
  BY DEF Before
<1>4. ~(p < y) /\ ~(y < p)
  <2>1. ~Before(s, a, a) OBVIOUS
  <2> QED BY <1>2, <1>3, <2>1 DEF Before
<1>5. ~(q < x) /\ ~(x < q)
  <2>1. ~Before(s, b, b) OBVIOUS
  <2> QED BY <1>2, <1>3, <2>1 DEF Before
<1> QED BY <1>1, <1>2, <1>3, <1>4, <1>5

\* What a sequence without repetitions puts in order, the other one does too.
LEMMA SameOneWay ==
  ASSUME NEW S, NEW s \in Seq(S), NEW t \in Seq(S), Range(s) = Range(t),
         \A a : ~Before(s, a, a), \A a : ~Before(t, a, a),
         \A a, b \in Range(s) : Before(s, a, b) => Before(t, a, b)
  PROVE  s = t
<1>1. /\ Range(s) = {s[i] : i \in 1 .. Len(s)} /\ Range(t) = {t[i] : i \in 1 .. Len(t)}
      /\ Len(s) \in Nat /\ Len(t) \in Nat
  BY LenProperties, RangeEquality
<1>2. ASSUME NEW a \in Range(s), NEW b \in Range(s), Before(t, a, b) PROVE Before(s, a, b)
  <2>1. PICK i \in 1 .. Len(s), j \in 1 .. Len(s) : s[i] = a /\ s[j] = b BY <1>1
  <2>2. CASE i < j BY <2>1, <2>2 DEF Before
  <2>3. CASE i = j BY <1>2, <2>1, <2>3
  <2>4. CASE j < i
    <3>1. Before(t, b, a) BY <2>1, <2>4 DEF Before
    <3> QED BY <1>2, <3>1, BeforeAsymmetric
  <2> QED BY <1>1, <2>2, <2>3, <2>4
<1> QED BY <1>2, SameSequence

\* Inserting into a sequence.
LEMMA InsertAtIs ==
  ASSUME NEW S, NEW s \in Seq(S), NEW e \in S, NEW at \in 1 .. Len(s) + 1
  PROVE  /\ InsertAt(s, at, e) \in Seq(S) /\ Len(InsertAt(s, at, e)) = Len(s) + 1
         /\ \A i \in 1 .. Len(s) + 1 :
              InsertAt(s, at, e)[i] = IF i < at THEN s[i] ELSE IF i = at THEN e ELSE s[i - 1]
<1> DEFINE a == SubSeq(s, 1, at - 1)
           b == <<e>>
           c == SubSeq(s, at, Len(s))
<1>1. Len(s) \in Nat /\ at \in Nat /\ at >= 1 /\ at <= Len(s) + 1
  BY LenProperties
<1>2. a \in Seq(S) /\ Len(a) = at - 1 /\ \A i \in 1 .. at - 1 : a[i] = s[i]
  BY <1>1
<1>3. b \in Seq(S) /\ Len(b) = 1 /\ b[1] = e OBVIOUS
<1>4. /\ c \in Seq(S) /\ Len(c) = Len(s) - at + 1
      /\ \A i \in 1 .. Len(s) - at + 1 : c[i] = s[at + i - 1]
  BY <1>1
<1>5. InsertAt(s, at, e) = (a \o b) \o c BY DEF InsertAt
<1> HIDE DEF a, b, c
<1> DEFINE ab == a \o b
<1>6. /\ ab \in Seq(S) /\ Len(ab) = Len(a) + Len(b)
      /\ \A i \in 1 .. Len(a) + Len(b) : ab[i] = IF i <= Len(a) THEN a[i] ELSE b[i - Len(a)]
  BY <1>2, <1>3, ConcatProperties
<1> HIDE DEF ab
<1>7. Len(ab) = at /\ \A i \in 1 .. at : ab[i] = IF i < at THEN s[i] ELSE e
  <2>1. (at - 1) + 1 = at BY <1>1
  <2>2. Len(ab) = at BY <1>2, <1>3, <1>6, <2>1
  <2>3. ASSUME NEW i \in 1 .. at PROVE ab[i] = IF i < at THEN s[i] ELSE e
    <3>1. ab[i] = IF i <= at - 1 THEN a[i] ELSE b[i - (at - 1)] BY <1>2, <1>3, <1>6, <2>1
    <3>2. CASE i < at BY <1>1, <1>2, <3>1, <3>2
    <3>3. CASE i = at
      <4>1. ~(i <= at - 1) /\ i - (at - 1) = 1 BY <1>1, <3>3
      <4> QED BY <1>1, <1>3, <3>1, <3>3, <4>1
    <3> QED BY <1>1, <3>2, <3>3
  <2> QED BY <2>2, <2>3
<1> DEFINE abc == ab \o c
<1>8. /\ abc \in Seq(S) /\ Len(abc) = Len(ab) + Len(c)
      /\ \A i \in 1 .. Len(ab) + Len(c) : abc[i] = IF i <= Len(ab) THEN ab[i] ELSE c[i - Len(ab)]
  <2>1. ab \in Seq(S) BY <1>6
  <2>2. c \in Seq(S) BY <1>4
  <2> QED BY <2>1, <2>2, ConcatProperties
<1> HIDE DEF abc
<1>9. Len(ab) + Len(c) = Len(s) + 1 BY <1>1, <1>4, <1>7
<1>10. ASSUME NEW i \in 1 .. Len(s) + 1
       PROVE  abc[i] = IF i < at THEN s[i] ELSE IF i = at THEN e ELSE s[i - 1]
  <2>1. abc[i] = IF i <= at THEN ab[i] ELSE c[i - at] BY <1>7, <1>8, <1>9
  <2>2. CASE i <= at
    <3>1. i \in 1 .. at BY <1>1, <2>2
    <3> QED BY <1>1, <1>7, <2>1, <2>2, <3>1
  <2>3. CASE i > at
    <3>1. i - at \in 1 .. Len(s) - at + 1 /\ at + (i - at) - 1 = i - 1 BY <1>1, <2>3
    <3>2. ~(i <= at) /\ ~(i < at) /\ i # at BY <1>1, <2>3
    <3> QED BY <1>4, <2>1, <3>1, <3>2
  <2> QED BY <1>1, <2>2, <2>3
<1> QED BY <1>5, <1>8, <1>9, <1>10 DEF ab, abc

\* Inserting a new element keeps the order of the others; those in front of the index
\* come before it.
LEMMA InsertAtOrder ==
  ASSUME NEW S, NEW s \in Seq(S), NEW e \in S, NEW at \in 1 .. Len(s) + 1,
         e \notin Range(s), \A a : ~Before(s, a, a)
  PROVE  LET t == InsertAt(s, at, e)
         IN  /\ t \in Seq(S) /\ Range(t) = Range(s) \cup {e}
             /\ \A a : ~Before(t, a, a)
             /\ \A a, b : Before(s, a, b) => Before(t, a, b)
             /\ \A i \in 1 .. Len(s) : IF i < at THEN Before(t, s[i], e) ELSE Before(t, e, s[i])
<1> DEFINE t == InsertAt(s, at, e)
           l == Len(s)
<1>1. l \in Nat /\ at \in Nat /\ at >= 1 /\ at <= l + 1 BY LenProperties
<1>2. /\ t \in Seq(S) /\ Len(t) = l + 1
      /\ \A i \in 1 .. l + 1 : t[i] = IF i < at THEN s[i] ELSE IF i = at THEN e ELSE s[i - 1]
  BY InsertAtIs
<1> HIDE DEF t
<1>3. Range(s) = {s[i] : i \in 1 .. l} /\ Range(t) = {t[i] : i \in 1 .. l + 1}
  BY <1>2, RangeEquality
<1> DEFINE pos(i) == IF i < at THEN i ELSE i + 1
<1>4. /\ \A i \in 1 .. l : pos(i) \in 1 .. l + 1 /\ t[pos(i)] = s[i]
      /\ at \in 1 .. l + 1 /\ t[at] = e
  <2>1. ASSUME NEW i \in 1 .. l PROVE pos(i) \in 1 .. l + 1 /\ t[pos(i)] = s[i]
    <3>1. CASE i < at BY <1>1, <1>2, <3>1
    <3>2. CASE ~(i < at)
      <4>1. i + 1 \in 1 .. l + 1 /\ ~(i + 1 < at) /\ i + 1 # at /\ (i + 1) - 1 = i
        BY <1>1, <3>2
      <4> QED BY <1>2, <3>2, <4>1
    <3> QED BY <3>1, <3>2
  <2> QED BY <1>1, <1>2, <2>1
<1>5. \A i \in 1 .. l + 1 : i # at => \E j \in 1 .. l : i = pos(j) /\ t[i] = s[j]
  <2> TAKE i \in 1 .. l + 1
  <2> SUFFICES ASSUME i # at PROVE \E j \in 1 .. l : i = pos(j) /\ t[i] = s[j] OBVIOUS
  <2>1. CASE i < at
    <3>1. i \in 1 .. l BY <1>1, <2>1
    <3> QED BY <1>2, <2>1, <3>1
  <2>2. CASE i > at
    <3>1. i - 1 \in 1 .. l /\ ~(i - 1 < at) /\ (i - 1) + 1 = i /\ ~(i < at) BY <1>1, <2>2
    <3> QED BY <1>2, <2>2, <3>1
  <2> QED BY <1>1, <2>1, <2>2
<1>6. Range(t) = Range(s) \cup {e}
  <2>1. Range(t) \subseteq Range(s) \cup {e} BY <1>3, <1>4, <1>5
  <2>2. Range(s) \cup {e} \subseteq Range(t) BY <1>3, <1>4
  <2> QED BY <2>1, <2>2
<1>7. ASSUME NEW a, Before(t, a, a) PROVE FALSE
  <2>1. PICK i \in 1 .. l + 1, j \in 1 .. l + 1 : i < j /\ t[i] = a /\ t[j] = a
    BY <1>2, <1>7 DEF Before
  <2>2. CASE i = at \/ j = at
    <3>1. a = e BY <1>4, <2>1, <2>2
    <3>2. PICK k \in 1 .. l : a = s[k]
      <4>1. i # at \/ j # at BY <1>1, <2>1
      <4> QED BY <1>5, <2>1, <4>1
    <3> QED BY <1>3, <3>1, <3>2
  <2>3. CASE i # at /\ j # at
    <3>1. PICK p \in 1 .. l : i = pos(p) /\ t[i] = s[p] BY <1>5, <2>3
    <3>2. PICK q \in 1 .. l : j = pos(q) /\ t[j] = s[q] BY <1>5, <2>3
    <3>3. p < q BY <1>1, <2>1, <3>1, <3>2
    <3>4. Before(s, a, a) BY <2>1, <3>1, <3>2, <3>3 DEF Before
    <3> QED BY <3>4
  <2> QED BY <2>2, <2>3
<1>8. ASSUME NEW a, NEW b, Before(s, a, b) PROVE Before(t, a, b)
  <2>1. PICK i \in 1 .. l, j \in 1 .. l : i < j /\ s[i] = a /\ s[j] = b BY <1>8 DEF Before
  <2>2. pos(i) < pos(j) BY <1>1, <2>1
  <2>3. pos(i) \in 1 .. Len(t) /\ pos(j) \in 1 .. Len(t) /\ t[pos(i)] = a /\ t[pos(j)] = b
    BY <1>2, <1>4, <2>1
  <2> HIDE DEF pos
  <2> QED BY <2>2, <2>3 DEF Before
<1>9. ASSUME NEW i \in 1 .. l
      PROVE  IF i < at THEN Before(t, s[i], e) ELSE Before(t, e, s[i])
  <2>1. pos(i) \in 1 .. Len(t) /\ at \in 1 .. Len(t) /\ t[pos(i)] = s[i] /\ t[at] = e
    BY <1>2, <1>4
  <2>2. IF i < at THEN pos(i) < at ELSE at < pos(i) BY <1>1
  <2> HIDE DEF pos
  <2> QED BY <2>1, <2>2 DEF Before
<1> QED BY <1>2, <1>6, <1>7, <1>8, <1>9 DEF t

\* A tree with a new leaf.
Grow(n, id, dep) ==
  [k \in DOMAIN n \cup {id} |-> IF k = id THEN [after |-> dep, deleted |-> FALSE] ELSE n[k]]

LEMMA GrowFacts ==
  ASSUME NEW n, Tree(n), NEW id \in Ids \ DOMAIN n, NEW dep \in DOMAIN n \cup {Root},
         Level(dep) < Level(id)
  PROVE  /\ Tree(Grow(n, id, dep)) /\ Agree(n, Grow(n, id, dep))
         /\ DOMAIN Grow(n, id, dep) = DOMAIN n \cup {id}
         /\ Children(Grow(n, id, dep), id) = {}
         /\ id \in Children(Grow(n, id, dep), dep)
<1> DEFINE g == Grow(n, id, dep)
<1>1. /\ DOMAIN g = DOMAIN n \cup {id}
      /\ g[id].after = dep /\ \A k \in DOMAIN n : g[k] = n[k]
  BY DEF Grow
<1> HIDE DEF g
<1>2. IsFiniteSet(DOMAIN g) BY <1>1, FS_AddElement DEF Tree
<1>3. Tree(g) BY <1>1, <1>2 DEF Tree
<1>4. Agree(n, g) BY <1>1 DEF Agree
<1>5. id # Root BY RootAssumption
<1>6. Children(g, id) = {} BY <1>1, <1>5 DEF Children, Tree
<1>7. id \in Children(g, dep) BY <1>1 DEF Children
<1> QED BY <1>1, <1>3, <1>4, <1>6, <1>7 DEF g

\* A leaf that is newer than its siblings comes right after the node it follows.
LEMMA LeafPlace ==
  ASSUME NEW n, Tree(n), NEW w, Walks(n, w), NEW dep \in DOMAIN n \cup {Root},
         NEW id \in Children(n, dep), Children(n, id) = {},
         \A c \in Children(n, dep) : ~Newer(c, id)
  PROVE  \A x : Before(w[Root], x, id) <=> dep # Root /\ (x = dep \/ Before(w[Root], x, dep))
<1> DEFINE D == DOMAIN n \cup {Root}
<1>1. MaxOps \in Nat /\ \A k \in D : Level(k) \in Nat /\ Level(k) <= MaxOps
  BY Levels, BoundsAssumption
<1>2. id \in DOMAIN n /\ n[id].after = dep BY ChildFacts
<1>3. \A key \in D : id \in Range(w[key]) <=> dep = key \/ dep \in Range(w[key])
  BY <1>2, SubtreeStep
<1>4. Range(w[id]) = {} BY <1>2, WalkOrder
\* What the walk from key puts in front of b, when b is in the subtree of its child d.
<1>5. ASSUME NEW key \in D, NEW d \in Children(n, key), NEW b \in Sub(w, d), NEW x
      PROVE  Before(w[key], x, b) <=>
               \/ Before(w[d], x, b)
               \/ x = d /\ b \in Range(w[d])
               \/ \E c \in Children(n, key) : Newer(c, d) /\ x \in Sub(w, c)
  <2> DEFINE C == Children(n, key)
  <2>1. Before(w[key], x, b) <=>
          \/ \E c \in C : Before(w[c], x, b) \/ (x = c /\ b \in Range(w[c]))
          \/ \E c, e \in C : Newer(c, e) /\ x \in Sub(w, c) /\ b \in Sub(w, e)
    <3>1. \A y, z : Before(w[key], y, z) <=>
            \/ \E c \in C : Before(w[c], y, z) \/ (y = c /\ z \in Range(w[c]))
            \/ \E c, e \in C : Newer(c, e) /\ y \in Sub(w, c) /\ z \in Sub(w, e)
      BY WalkOrder
    <3> QED BY <3>1
  <2>2. \A c \in C : b \in Sub(w, c) => c = d BY <1>5, SubtreesApart
  <2>3. \A c \in C : Before(w[c], x, b) => b \in Sub(w, c)
    <3> TAKE c \in C
    <3>1. c \in D BY ChildFacts
    <3>2. w[c] \in Seq(DOMAIN n) BY <3>1, WalkOrder
    <3> QED BY <3>2, BeforeInRange DEF Sub
  <2>4. \A c \in C : b \in Range(w[c]) => b \in Sub(w, c) BY DEF Sub
  <2> HIDE DEF C
  <2>5. d \in C BY <1>5 DEF C
  <2> QED BY <1>5, <2>1, <2>2, <2>3, <2>4, <2>5 DEF C
<1>6. ASSUME NEW x, Before(w[dep], x, id) PROVE FALSE
  <2>1. id \in Sub(w, id) BY DEF Sub
  <2>2. \/ Before(w[id], x, id)
        \/ x = id /\ id \in Range(w[id])
        \/ \E c \in Children(n, dep) : Newer(c, id) /\ x \in Sub(w, c)
    BY <1>5, <1>6, <2>1
  <2>3. w[id] \in Seq(DOMAIN n) BY <1>2, WalkOrder
  <2> QED BY <1>4, <2>2, <2>3, BeforeInRange
<1> DEFINE Place(key) == \A x : Before(w[key], x, id) <=> x = dep \/ Before(w[key], x, dep)
           T == {m \in Nat : \A key \in D : Level(key) > MaxOps - m /\ dep \in Range(w[key]) =>
                                              Place(key)}
<1>7. 0 \in T BY <1>1
<1>8. ASSUME NEW m \in T PROVE m + 1 \in T
  <2>1. m \in Nat OBVIOUS
  <2>2. ASSUME NEW key \in D, Level(key) > MaxOps - (m + 1), dep \in Range(w[key])
        PROVE  Place(key)
    <3> DEFINE C == Children(n, key)
    <3>1. PICK d \in C : dep \in Sub(w, d) BY <2>2, WalkOrder
    <3>2. d \in D /\ d \in DOMAIN n /\ Level(d) > Level(key) BY ChildFacts
    <3>3. id \in Range(w[d]) /\ id \in Sub(w, d) BY <1>3, <3>1, <3>2 DEF Sub
    <3> SUFFICES ASSUME NEW x
                 PROVE  Before(w[key], x, id) <=> x = dep \/ Before(w[key], x, dep)
      OBVIOUS
    <3> DEFINE Ahead == \E c \in C : Newer(c, d) /\ x \in Sub(w, c)
    <3>4. Before(w[key], x, id) <=> Before(w[d], x, id) \/ x = d \/ Ahead BY <1>5, <3>3
    <3>5. Before(w[key], x, dep) <=>
            Before(w[d], x, dep) \/ (x = d /\ dep \in Range(w[d])) \/ Ahead
      BY <1>5, <3>1
    <3> HIDE DEF Ahead
    <3>6. CASE dep = d
      <4>1. dep \notin Range(w[d]) BY <3>6, SiblingOutside
      <4>2. w[d] \in Seq(DOMAIN n) BY <3>2, WalkOrder
      <4>3. ~Before(w[d], x, dep) BY <4>1, <4>2, BeforeInRange
      <4>4. ~Before(w[d], x, id) BY <1>6, <3>6
      <4> QED BY <3>4, <3>5, <3>6, <4>1, <4>3, <4>4
    <3>7. CASE dep # d
      <4>1. dep \in Range(w[d]) BY <3>1, <3>7 DEF Sub
      <4>2. Level(d) > MaxOps - m BY <1>1, <2>1, <2>2, <3>2
      <4>3. Place(d) BY <1>8, <3>2, <4>1, <4>2
      <4> QED BY <3>4, <3>5, <4>1, <4>3
    <3> QED BY <3>6, <3>7
  <2> HIDE DEF Place
  <2> QED BY <2>1, <2>2
<1>9. T \in SUBSET Nat OBVIOUS
<1>10. MaxOps + 1 \in T
  <2>1. MaxOps + 1 \in Nat BY <1>1
  <2> HIDE DEF T
  <2> QED BY <1>7, <1>8, <1>9, <2>1, Upwards
<1>11. CASE dep = Root BY <1>6, <1>11
<1>12. CASE dep # Root
  <2>1. Level(Root) > MaxOps - (MaxOps + 1) BY <1>1
  <2>2. dep \in Range(w[Root]) BY <1>12, AllVisited
  <2>3. Place(Root) BY <1>10, <2>1, <2>2
  <2> QED BY <1>12, <2>3
<1> QED BY <1>11, <1>12

\* insertAt: the new node, put right after the node it follows, appears in the text
\* right after it, or in front when it follows the root.
LEMMA LandsInText ==
  ASSUME NEW n, Tree(n), NEW id \in Ids \ DOMAIN n, NEW dep \in DOMAIN n \cup {Root},
         dep # Root => ~n[dep].deleted, \A k \in DOMAIN n : k[1] < id[1]
  PROVE  Visible(Grow(n, id, dep)) =
           InsertAt(Visible(n), PlaceAfter(Visible(n), dep), id)
<1> DEFINE g == Grow(n, id, dep)
           old == Visible(n)
           new == Visible(g)
           live == {k \in DOMAIN n : ~n[k].deleted}
           glive == {k \in DOMAIN g : ~g[k].deleted}
           at == PlaceAfter(old, dep)
           t == InsertAt(old, at, id)
           S == DOMAIN g
<1>1. \A k \in Ids : k[1] \in Nat \ {0} /\ k # Root /\ Level(k) = k[1]
  BY BoundsAssumption, RootAssumption DEF Ids, Level
<1>2. Level(dep) < Level(id) BY <1>1 DEF Tree, Level
<1>3. /\ Tree(g) /\ Agree(n, g) /\ DOMAIN g = DOMAIN n \cup {id}
      /\ Children(g, id) = {} /\ id \in Children(g, dep)
  BY <1>2, GrowFacts
<1>4. glive = live \cup {id} BY <1>3 DEF Grow
<1>5. /\ old \in Seq(DOMAIN n) /\ Range(old) = live
      /\ \A a, b : Before(old, a, b) <=> a \in live /\ b \in live /\ Before(Ordered(n), a, b)
  BY VisibleFacts
<1>6. /\ new \in Seq(S) /\ Range(new) = glive
      /\ \A a, b : Before(new, a, b) <=> a \in glive /\ b \in glive /\ Before(Ordered(g), a, b)
  BY <1>3, VisibleFacts
<1>7. (\A a : ~Before(Ordered(n), a, a)) /\ (\A a : ~Before(Ordered(g), a, a))
  BY <1>3, OrderedFacts
<1>8. \A a, b \in DOMAIN n : Before(Ordered(n), a, b) <=> Before(Ordered(g), a, b)
  BY <1>3, OrderedAgrees
<1>9. \A x : Before(Ordered(g), x, id) <=>
               dep # Root /\ (x = dep \/ Before(Ordered(g), x, dep))
  <2>1. PICK w : Walks(g, w) /\ Ordered(g) = w[Root] BY <1>3, OrderedWalks
  <2>2. \A c \in Children(g, dep) : ~Newer(c, id)
    <3> TAKE c \in Children(g, dep)
    <3>1. c \in DOMAIN n \/ c = id BY <1>3 DEF Children
    <3>2. c \in Ids BY <3>1 DEF Tree
    <3>3. CASE c = id BY <3>2, <3>3, NewerOrder
    <3>4. CASE c \in DOMAIN n
      <4>1. c[1] < id[1] /\ c[1] \in Nat /\ id[1] \in Nat BY <1>1, <3>2, <3>4
      <4> QED BY <4>1 DEF Newer
    <3> QED BY <3>1, <3>3, <3>4
  <2>3. dep \in DOMAIN g \cup {Root} BY <1>3
  <2> HIDE DEF g
  <2> QED BY <1>3, <2>1, <2>2, <2>3, LeafPlace
<1>10. id \notin live /\ live \subseteq DOMAIN n OBVIOUS
<1>11. dep # Root => dep \in live OBVIOUS
<1>12. /\ Len(old) \in Nat /\ Range(old) = {old[i] : i \in 1 .. Len(old)}
       /\ \A a : ~Before(old, a, a)
  BY <1>5, <1>7, LenProperties, RangeEquality
<1>13. /\ at \in 1 .. Len(old) + 1
       /\ dep = Root => at = 1
       /\ dep # Root => at # 1 /\ at - 1 \in 1 .. Len(old) /\ old[at - 1] = dep
  <2>1. CASE dep = Root BY <1>12, <2>1 DEF PlaceAfter
  <2>2. CASE dep # Root
    <3> DEFINE I == {i \in 1 .. Len(old) : old[i] = dep}
    <3>1. I \in SUBSET Nat /\ I # {} BY <1>5, <1>11, <1>12, <2>2
    <3>2. SelectInSeq(old, LAMBDA k : k = dep) = Min(I) BY <3>1 DEF SelectInSeq
    <3>3. Min(I) \in I
      <4> HIDE DEF I
      <4>1. \E x \in I : \A y \in I : x <= y BY <3>1, LeastOf
      <4> QED BY <4>1 DEF Min
    <3>4. at = Min(I) + 1 BY <2>2, <3>2 DEF PlaceAfter
    <3> HIDE DEF at
    <3>5. Min(I) \in 1 .. Len(old) /\ old[Min(I)] = dep BY <3>3
    <3> QED BY <1>12, <2>2, <3>4, <3>5
  <2> QED BY <2>1, <2>2
<1>14. old \in Seq(S) /\ id \in S
  <2>1. DOMAIN n \subseteq S /\ id \in S BY <1>3
  <2> HIDE DEF S, old
  <2> QED BY <1>5, <2>1, SeqMonotonic
<1> HIDE DEF g, old, new, live, glive, at, S
<1>15. /\ t \in Seq(S) /\ Range(t) = live \cup {id}
       /\ \A a : ~Before(t, a, a)
       /\ \A a, b : Before(old, a, b) => Before(t, a, b)
       /\ \A i \in 1 .. Len(old) : IF i < at THEN Before(t, old[i], id) ELSE Before(t, id, old[i])
  <2>1. id \notin Range(old) BY <1>5, <1>10
  <2> QED BY <1>5, <1>12, <1>13, <1>14, <2>1, InsertAtOrder
<1> HIDE DEF t
<1>16. Range(new) = Range(t) /\ \A a : ~Before(new, a, a) BY <1>4, <1>6, <1>7, <1>15
\* Up to which place the nodes of the text come before the new one.
<1>17. ASSUME NEW i \in 1 .. Len(old)
       PROVE  Before(Ordered(g), old[i], id) <=> i < at
  <2>1. old[i] \in live BY <1>5, <1>12
  <2>2. CASE dep = Root BY <1>9, <1>12, <1>13, <2>2
  <2>3. CASE dep # Root
    <3>1. dep \in live /\ at - 1 \in 1 .. Len(old) /\ old[at - 1] = dep BY <1>11, <1>13, <2>3
    <3>2. Before(Ordered(g), old[i], dep) <=> Before(old, old[i], dep)
      BY <1>5, <1>8, <1>10, <2>1, <3>1
    <3>3. \A p, q \in 1 .. Len(old) : old[p] = old[q] => p = q
      <4> TAKE p, q \in 1 .. Len(old)
      <4> SUFFICES ASSUME old[p] = old[q] PROVE p = q OBVIOUS
      <4>1. ~Before(old, old[p], old[p]) BY <1>12
      <4>2. ~(p < q) /\ ~(q < p) BY <4>1 DEF Before
      <4> QED BY <1>12, <4>2
    <3>4. Before(old, old[i], dep) <=> i < at - 1
      <4>1. ASSUME Before(old, old[i], dep) PROVE i < at - 1
        <5>1. PICK p \in 1 .. Len(old), q \in 1 .. Len(old) :
                p < q /\ old[p] = old[i] /\ old[q] = dep
          BY <4>1 DEF Before
        <5> QED BY <3>1, <3>3, <5>1
      <4>2. ASSUME i < at - 1 PROVE Before(old, old[i], dep) BY <3>1, <4>2 DEF Before
      <4> QED BY <4>1, <4>2
    <3>5. old[i] = dep <=> i = at - 1 BY <3>1, <3>3
    <3> QED BY <1>9, <1>12, <1>13, <2>3, <3>2, <3>4, <3>5
  <2> QED BY <2>2, <2>3
<1>18. ASSUME NEW a \in Range(new), NEW b \in Range(new), Before(new, a, b)
       PROVE  Before(t, a, b)
  <2>1. Before(Ordered(g), a, b) /\ a \in live \cup {id} /\ b \in live \cup {id}
    BY <1>4, <1>6, <1>18
  <2>2. CASE a \in live /\ b \in live BY <1>5, <1>8, <1>10, <1>15, <2>1, <2>2
  <2>3. CASE a \in live /\ b = id
    <3>1. PICK i \in 1 .. Len(old) : old[i] = a BY <1>5, <1>12, <2>3
    <3>2. i < at BY <1>17, <2>1, <2>3, <3>1
    <3> QED BY <1>15, <2>3, <3>1, <3>2
  <2>4. CASE a = id /\ b \in live
    <3>1. PICK i \in 1 .. Len(old) : old[i] = b BY <1>5, <1>12, <2>4
    <3>2. ASSUME i < at PROVE FALSE
      <4>1. Before(Ordered(g), b, id) BY <1>17, <3>1, <3>2
      <4> QED BY <1>3, <1>7, <2>1, <2>4, <4>1, BeforeAsymmetric, OrderedFacts
    <3> QED BY <1>15, <2>4, <3>1, <3>2
  <2>5. a # b BY <1>16, <1>18
  <2> QED BY <2>1, <2>2, <2>3, <2>4, <2>5
<1>19. new = t BY <1>6, <1>15, <1>16, <1>18, SameOneWay
<1> QED BY <1>19 DEF new, t, g, old, at

-----------------------------------------------------------------------------
(* A replica's own insertions.                                             *)

\* The edit of replica r that apply has still to carry out: nothing has happened at r
\* since the edit, so that the node to insert after is there, and not deleted.
Ready(r, op) ==
  /\ todo[r] = <<op>>
  /\ op.dep = Root \/ (op.dep \in DOMAIN nodes[r] /\ ~nodes[r][op.dep].deleted)
  /\ \A k \in DOMAIN nodes[r] : k[1] < op.id[1]

Own(r) ==
  \A op \in received[r] :
    op.type = "ins" /\ op.id[2] = r /\ ~Present(r, op.id) /\ op.dep # Undefined => Ready(r, op)

OwnInv ==
  /\ \A op \in sent : op.type = "ins" => op \in received[op.id[2]]
  /\ \A r \in Replicas : Own(r)

\* A step at r, during which the others keep what they have.
LEMMA OwnFrame ==
  ASSUME OwnInv, NEW r \in Replicas,
         \A s \in Replicas : received[s] \subseteq received'[s],
         \A s \in Replicas \ {r} : todo'[s] = todo[s] /\ nodes'[s] = nodes[s]
                                     /\ received'[s] = received[s],
         sent' \subseteq Ops,
         \A op \in sent' \ sent : op.type = "ins" => op \in received'[r] /\ op.id[2] = r,
         Own(r)'
  PROVE  OwnInv'
<1>1. ASSUME NEW op \in sent', op.type = "ins" PROVE op \in received'[op.id[2]]
  <2>1. CASE op \in sent
    <3>1. op \in received[op.id[2]] BY <1>1, <2>1 DEF OwnInv
    <3>2. op.id \in Ids BY <1>1, OpKinds
    <3>3. op.id[2] \in Replicas BY <3>2 DEF Ids
    <3> QED BY <3>1, <3>3
  <2>2. CASE op \notin sent BY <1>1, <2>2
  <2> QED BY <2>1, <2>2
<1>2. \A s \in Replicas \ {r} : Own(s)' BY DEF OwnInv, Own, Ready, Present
<1> QED BY <1>1, <1>2 DEF OwnInv

\* Own insertions of an idle replica have been carried out.
LEMMA IdleOwn ==
  ASSUME OwnInv, NEW r \in Replicas, Idle(r), NEW op \in received[r],
         op.type = "ins", op.id[2] = r, op.dep # Undefined
  PROVE  Present(r, op.id)
<1> SUFFICES ASSUME ~Present(r, op.id) PROVE FALSE OBVIOUS
<1>1. Ready(r, op) BY DEF OwnInv, Own
<1>2. Len(todo[r]) = 1 /\ Len(todo[r]) = 0 BY <1>1 DEF Ready, Idle
<1> QED BY <1>2

\* An own insertion that is not carried out is the one apply has in hand.
LEMMA CallOwn ==
  ASSUME OwnInv, NEW r \in Replicas, NEW op, Call(r, op), NEW o \in received[r],
         o.type = "ins", o.id[2] = r, ~Present(r, o.id), o.dep # Undefined
  PROVE  o = op /\ Ready(r, o)
<1>1. Ready(r, o) BY DEF OwnInv, Own
<1>2. Head(<<o>>) = o OBVIOUS
<1> QED BY <1>1, <1>2 DEF Ready, Call

\* A call of apply is over with the own insertion that was in hand.
LEMMA ApplyOwn ==
  ASSUME IInv, OwnInv, NEW r \in Replicas, NEW op \in sent,
         \/ ApplyKnown(r, op) \/ ApplyInsert(r, op) \/ DeferInsert(r, op)
         \/ ApplyDelete(r, op) \/ DeferDelete(r, op)
  PROVE  OwnInv'
<1>1. Call(r, op) /\ UNCHANGED <<sent, received>>
  BY DEF ApplyKnown, ApplyInsert, DeferInsert, ApplyDelete, DeferDelete, Defer, Then
<1>2. DOMAIN nodes = Replicas /\ todo \in [Replicas -> Seq(Ops)] BY DEF IInv, TypeOK
<1>3. \E calls : todo' = [todo EXCEPT ![r] = calls \o Tail(todo[r])]
  BY DEF ApplyKnown, ApplyInsert, DeferInsert, ApplyDelete, DeferDelete, Defer, Then
<1>4. \A s \in Replicas \ {r} : todo'[s] = todo[s] BY <1>2, <1>3
<1>5. /\ \A s \in Replicas \ {r} : nodes'[s] = nodes[s]
      /\ DOMAIN nodes[r] \subseteq DOMAIN nodes'[r]
  <2>1. CASE ApplyKnown(r, op) \/ DeferInsert(r, op) \/ DeferDelete(r, op)
    BY <2>1 DEF ApplyKnown, DeferInsert, DeferDelete, Defer
  <2>2. CASE ApplyInsert(r, op) BY <1>2, <2>2 DEF ApplyInsert
  <2>3. CASE ApplyDelete(r, op)
    <3>1. /\ nodes' = [nodes EXCEPT ![r][op.dep].deleted = TRUE] /\ op.dep \in DOMAIN nodes[r]
      BY <2>3 DEF ApplyDelete, Present
    <3> QED BY <1>2, <3>1
  <2> QED BY <2>1, <2>2, <2>3
<1>6. Own(r)'
  <2> SUFFICES ASSUME NEW o \in received[r], o.type = "ins", o.id[2] = r,
                      o.id \notin DOMAIN nodes'[r], o.dep # Undefined
               PROVE  FALSE
    BY <1>1 DEF Own, Present
  <2>1. ~Present(r, o.id) BY <1>5 DEF Present
  <2>2. o = op /\ Ready(r, o) BY <1>1, <2>1, CallOwn
  <2>3. o.dep = Root \/ Present(r, o.dep) BY <2>2 DEF Ready, Present
  <2>4. CASE ApplyInsert(r, op)
    <3>1. op.id \in DOMAIN nodes'[r] BY <1>2, <2>4 DEF ApplyInsert
    <3> QED BY <2>2, <3>1
  <2> QED BY <2>1, <2>2, <2>3, <2>4 DEF ApplyKnown, DeferInsert, ApplyDelete, DeferDelete
<1>7. sent' \subseteq Ops BY <1>1 DEF IInv, TypeOK
<1> QED BY <1>1, <1>4, <1>5, <1>6, <1>7, OwnFrame

\* Every step carries out own insertions at once.
LEMMA OwnKeeps == IInv /\ Lamport /\ OwnInv /\ [Next]_vars => OwnInv'
<1> SUFFICES ASSUME IInv, Lamport, OwnInv, [Next]_vars PROVE OwnInv' OBVIOUS
<1>1. /\ clock \in [Replicas -> Nat] /\ todo \in [Replicas -> Seq(Ops)]
      /\ received \in [Replicas -> SUBSET Ops] /\ sent \subseteq Ops
  BY DEF IInv, TypeOK
<1>2. CASE UNCHANGED vars BY <1>2 DEF vars, OwnInv, Own, Ready, Present
\* An idle replica takes on op; if that is an insertion of its own, it is ready.
<1>3. ASSUME NEW r \in Replicas, Idle(r), NEW op \in Ops,
             todo' = [todo EXCEPT ![r] = <<op>>],
             received' = [received EXCEPT ![r] = received[r] \cup {op}],
             UNCHANGED nodes, sent' = sent \cup {op},
             op \notin sent /\ op.type = "ins" =>
               /\ op.id[2] = r
               /\ op.dep = Root \/ op.dep = Undefined
                    \/ (op.dep \in DOMAIN nodes[r] /\ ~nodes[r][op.dep].deleted)
               /\ \A k \in DOMAIN nodes[r] : k[1] < op.id[1]
      PROVE  OwnInv'
  <2>1. /\ todo'[r] = <<op>> /\ received'[r] = received[r] \cup {op}
        /\ \A s \in Replicas \ {r} : todo'[s] = todo[s] /\ received'[s] = received[s]
    BY <1>1, <1>3
  <2>2. Own(r)'
    <3> SUFFICES ASSUME NEW o \in received'[r], o.type = "ins", o.id[2] = r,
                        ~Present(r, o.id), o.dep # Undefined
                 PROVE  Ready(r, o)'
      BY <1>3 DEF Own, Present
    <3>1. o \notin received[r] BY <1>3, IdleOwn
    <3>2. o = op BY <2>1, <3>1
    <3>3. op \notin sent BY <3>1, <3>2 DEF OwnInv
    <3> QED BY <1>3, <2>1, <3>2, <3>3 DEF Ready
  <2>3. sent' \subseteq Ops BY <1>1, <1>3
  <2> QED BY <1>3, <2>1, <2>2, <2>3, OwnFrame
<1>4. ASSUME NEW r \in Replicas, NEW index \in 0 .. MaxOps, InsertAtIndex(r, index)
      PROVE  OwnInv'
  <2>1. PICK after \in Deps :
          /\ \/ after = Root
             \/ after = Undefined
             \/ after \in DOMAIN nodes[r] /\ ~nodes[r][after].deleted
          /\ Idle(r)
          /\ Edit(r, Ins(<<clock[r] + 1, r>>, after))
    BY <1>4, InsertAfter
  <2> DEFINE id == <<clock[r] + 1, r>>
             op == Ins(id, after)
  <2>2. /\ op.type = "ins" /\ op.id = id /\ op.dep = after /\ id[2] = r /\ id[1] = clock[r] + 1
    BY DEF Ins
  <2>3. op \in Ops
    <3>1. clock[r] \in Nat /\ clock[r] + 1 <= MaxOps
      <4>1. Cardinality(sent) < MaxOps BY <1>4 DEF InsertAtIndex
      <4>2. clock[r] <= Cardinality(sent) /\ Cardinality(sent) \in Nat
        BY FS_CardinalityType DEF IInv, IdsInv
      <4> QED BY <1>1, <4>1, <4>2, BoundsAssumption
    <3>2. id \in Ids BY <3>1, BoundsAssumption DEF Ids
    <3> HIDE DEF id
    <3> QED BY <3>2, NewOps
  <2>4. /\ todo' = [todo EXCEPT ![r] = <<op>>] /\ sent' = sent \cup {op}
        /\ received' = [received EXCEPT ![r] = received[r] \cup {op}] /\ UNCHANGED nodes
    BY <2>1 DEF Edit
  <2> HIDE DEF op, id
  <2>5. ASSUME NEW k \in DOMAIN nodes[r] PROVE k[1] < op.id[1]
    <3>1. k[1] <= clock[r] BY DEF Lamport
    <3>2. k \in Ids BY DEF IInv, TypeOK
    <3>3. k[1] \in Nat /\ clock[r] \in Nat BY <1>1, <3>2, BoundsAssumption DEF Ids
    <3> QED BY <2>2, <3>1, <3>3
  <2> QED BY <1>3, <2>1, <2>2, <2>3, <2>4, <2>5
<1>5. ASSUME NEW r \in Replicas, NEW index \in 1 .. MaxOps, DeleteAtIndex(r, index)
      PROVE  OwnInv'
  <2>1. PICK key \in Ids : Idle(r) /\ Edit(r, Del(key)) BY <1>5 DEF DeleteAtIndex
  <2> DEFINE op == Del(key)
  <2>2. op \in Ops /\ op.type = "del" BY NewOps
  <2>3. /\ todo' = [todo EXCEPT ![r] = <<op>>] /\ sent' = sent \cup {op}
        /\ received' = [received EXCEPT ![r] = received[r] \cup {op}] /\ UNCHANGED nodes
    BY <2>1 DEF Edit
  <2> HIDE DEF op
  <2> QED BY <1>3, <2>1, <2>2, <2>3
<1>6. ASSUME NEW r \in Replicas, NEW op \in sent, Deliver(r, op) PROVE OwnInv'
  <2>1. /\ Idle(r) /\ todo' = [todo EXCEPT ![r] = <<op>>]
        /\ received' = [received EXCEPT ![r] = received[r] \cup {op}]
        /\ UNCHANGED <<nodes, sent>>
    BY <1>6 DEF Deliver
  <2>2. op \in Ops /\ sent' = sent \cup {op} BY <1>1, <1>6, <2>1
  <2> QED BY <1>3, <1>6, <2>1, <2>2
<1>7. ASSUME NEW r \in Replicas, Apply(r) PROVE OwnInv'
  BY <1>7, ApplyOwn DEF Apply
<1> QED BY <1>2, <1>4, <1>5, <1>6, <1>7 DEF Next

\* Own insertions are carried out at once in every reachable state.
LEMMA OwnHolds == Spec => []OwnInv
<1>1. Init => OwnInv BY DEF Init, OwnInv, Own
<1> QED BY <1>1, OwnKeeps, InvariantHolds, LamportHolds, PTL DEF Spec

\* insertAt puts the element where the user of the replica asked for it: the clock has
\* been caught up with every node the replica has, so the new id is newer than those of
\* all the siblings, concurrent and deleted ones too, and apply puts it in front of them.
THEOREM InsertLandsAtIndexHolds == Spec => InsertLandsAtIndex
<1> DEFINE Lands(r, op) == ApplyInsert(r, op) /\ op.id[2] = r =>
             LET old == Visible(nodes[r])
             IN  Visible(nodes'[r]) = InsertAt(old, PlaceAfter(old, op.dep), op.id)
           AllLand == \A r \in Replicas, op \in sent : Lands(r, op)
<1>1. ASSUME IInv, Lamport, OwnInv, NEW r \in Replicas, NEW op \in sent,
             ApplyInsert(r, op), op.id[2] = r
      PROVE  Lands(r, op)
  <2> DEFINE n == nodes[r]
  <2>1. /\ Call(r, op) /\ op.type = "ins" /\ ~Present(r, op.id)
        /\ op.dep = Root \/ Present(r, op.dep)
        /\ nodes' = [nodes EXCEPT ![r] =
             [k \in DOMAIN nodes[r] \cup {op.id} |->
                IF k = op.id THEN [after |-> op.dep, deleted |-> FALSE] ELSE nodes[r][k]]]
    BY <1>1 DEF ApplyInsert
  <2>2. DOMAIN nodes = Replicas /\ DOMAIN n \subseteq Ids BY <1>1 DEF IInv, TypeOK
  <2>3. nodes'[r] = Grow(n, op.id, op.dep) BY <2>1, <2>2 DEF Grow
  <2>4. op \in received[r] /\ op.id \in Ids BY <1>1, <2>1, CallFacts, OpKinds
  <2>5. op.dep # Undefined BY <2>1, <2>2, RootAssumption DEF Present
  <2>6. Ready(r, op) BY <1>1, <2>1, <2>4, <2>5 DEF OwnInv, Own
  <2>7. /\ op.id \in Ids \ DOMAIN n /\ op.dep \in DOMAIN n \cup {Root}
        /\ op.dep # Root => ~n[op.dep].deleted
        /\ \A k \in DOMAIN n : k[1] < op.id[1]
    BY <2>1, <2>4, <2>6 DEF Present, Ready
  <2>8. Tree(n) BY <1>1, NodesAreTree
  <2>9. PICK m : m = nodes[r] OBVIOUS
  <2>10. PICK i : i = op.id OBVIOUS
  <2>11. PICK d : d = op.dep OBVIOUS
  <2>12. /\ Tree(m) /\ i \in Ids \ DOMAIN m /\ d \in DOMAIN m \cup {Root}
         /\ d # Root => ~m[d].deleted
         /\ \A k \in DOMAIN m : k[1] < i[1]
    BY <2>7, <2>8, <2>9, <2>10, <2>11
  <2>13. Visible(Grow(m, i, d)) = InsertAt(Visible(m), PlaceAfter(Visible(m), d), i)
    BY <2>12, LandsInText
  <2> QED BY <2>3, <2>9, <2>10, <2>11, <2>13
<1>2. IInv /\ Lamport /\ OwnInv /\ [Next]_vars => [AllLand]_vars BY <1>1
<1> QED BY <1>2, InvariantHolds, LamportHolds, OwnHolds, PTL DEF Spec, InsertLandsAtIndex

===============================================================================
