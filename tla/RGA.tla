--------------------------------- MODULE RGA ---------------------------------
(***************************************************************************)
(* The replicated growable array of JS-CRDT.  Every replica edits its own  *)
(* copy and broadcasts the operation; the network delivers operations late,*)
(* out of order and more than once, and apply defers an operation whose    *)
(* predecessor or target is missing.                                       *)
(*                                                                         *)
(* A node's key and its id are one thing here (idKey is injective), and the*)
(* inserted value is left out: the id stands for it.  apply calls itself   *)
(* through _flush, so a replica has a stack of calls, todo; the call is    *)
(* synchronous, so the replica does nothing else until the stack is empty. *)
(***************************************************************************)
EXTENDS Integers, Sequences, SequencesExt, FiniteSets

CONSTANTS
  Replicas,     \* replica ids: integers, for the order of ids
  Root,         \* the predecessor of the first element
  Undefined,    \* keys[index - 1] beyond the end
  MaxOps,       \* bound on the operations, and so on the Lamport clock
  MaxDeferred   \* bound on the operations buffered for one key before a
                \* second copy of an operation is delivered

Ids == (1 .. MaxOps) \X Replicas
ASSUME ReplicasAssumption == Replicas \subseteq Int
ASSUME BoundsAssumption == MaxOps \in Nat /\ MaxDeferred \in Nat
ASSUME RootAssumption == Root # Undefined /\ Root \notin Ids /\ Undefined \notin Ids

Deps == Ids \cup {Root, Undefined}
Ins(id, after) == [type |-> "ins", id |-> id, dep |-> after]
Del(target) == [type |-> "del", dep |-> target]

VARIABLES
  clock,      \* clock[r]: the Lamport clock
  nodes,      \* nodes[r]: key -> [after, deleted]
  pending,    \* pending[r]: missing key -> operations waiting for it
  todo,       \* todo[r]: the calls of apply still to be made
  sent,       \* operations broadcast
  received    \* history: received[r], the operations apply was called with

vars == <<clock, nodes, pending, todo, sent, received>>

Idle(r) == todo[r] = <<>>

-----------------------------------------------------------------------------
(* Reading the sequence.                                                   *)

\* cmpNodes: newer first, ties by replica id, the larger first.
Newer(a, b) == a[1] > b[1] \/ (a[1] = b[1] /\ a[2] > b[2])

\* The nodes that follow key, newest first, and a group of siblings in that order.
Children(n, key) == {k \in DOMAIN n : n[k].after = key}
Sorted(S) == CHOOSE s \in SetToSeqs(S) : \A i, j \in 1 .. Len(s) : i < j => Newer(s[i], s[j])

\* _ordered: depth first from the root, siblings newest first.
Ordered(n) ==
  LET walk[key \in DOMAIN n \cup {Root}] ==
        LET siblings == Sorted(Children(n, key))
        IN  FlattenSeq([i \in 1 .. Len(siblings) |-> <<siblings[i]>> \o walk[siblings[i]]])
  IN  walk[Root]

\* filter: the elements of s that are in S, in their order.
Keep(s, S) == FlattenSeq([i \in 1 .. Len(s) |-> IF s[i] \in S THEN <<s[i]>> ELSE <<>>])

Visible(n) == Keep(Ordered(n), {k \in DOMAIN n : ~n[k].deleted})

-----------------------------------------------------------------------------
Init ==
  /\ clock = [r \in Replicas |-> 0]
  /\ nodes = [r \in Replicas |-> [k \in {} |-> [after |-> Root, deleted |-> FALSE]]]
  /\ pending = [r \in Replicas |-> [k \in Deps |-> <<>>]]
  /\ todo = [r \in Replicas |-> <<>>]
  /\ sent = {}
  /\ received = [r \in Replicas |-> {}]

\* A local edit applies its operation and returns it to be broadcast.
Edit(r, op) ==
  /\ todo' = [todo EXCEPT ![r] = <<op>>]
  /\ sent' = sent \cup {op}
  /\ received' = [received EXCEPT ![r] = @ \cup {op}]
  /\ UNCHANGED <<nodes, pending>>

InsertAtIndex(r, index) ==
  /\ Idle(r) /\ Cardinality(sent) < MaxOps
  /\ clock' = [clock EXCEPT ![r] = @ + 1]
  /\ LET keys == Visible(nodes[r])
     IN  /\ index <= Len(keys) + 1
         /\ \E after \in Deps :
              /\ after = IF index = 0 THEN Root
                         ELSE IF index <= Len(keys) THEN keys[index] ELSE Undefined
              /\ Edit(r, Ins(<<clock[r] + 1, r>>, after))

\* deleteAt: beyond the end it returns null and does nothing.
DeleteAtIndex(r, index) ==
  /\ Idle(r) /\ Cardinality(sent) < MaxOps
  /\ LET keys == Visible(nodes[r])
     IN  index \in 1 .. Len(keys) /\ \E key \in Ids : key = keys[index] /\ Edit(r, Del(key))
  /\ UNCHANGED clock

\* The network delivers an operation, perhaps again.
Deliver(r, op) ==
  /\ Idle(r) /\ op \in sent
  /\ op \in received[r] => Len(pending[r][op.dep]) < MaxDeferred
  /\ todo' = [todo EXCEPT ![r] = <<op>>]
  /\ received' = [received EXCEPT ![r] = @ \cup {op}]
  /\ UNCHANGED <<clock, nodes, pending, sent>>

-----------------------------------------------------------------------------
(* One call of apply; calls are the operations to be applied next.         *)

Call(r, op) == ~Idle(r) /\ op = Head(todo[r])
Then(r, calls) == todo' = [todo EXCEPT ![r] = calls \o Tail(@)] /\ UNCHANGED <<sent, received>>

\* Mutant of CatchUp: the clock is not caught up.
NoCatchUp(r, c) == UNCHANGED clock

\* The Lamport catch-up.
CatchUp(r, c) == clock' = [clock EXCEPT ![r] = IF c > @ THEN c ELSE @]

Present(r, key) == key \in DOMAIN nodes[r]

ApplyKnown(r, op) ==
  /\ Call(r, op) /\ op.type = "ins" /\ Present(r, op.id)
  /\ Then(r, <<>>)
  /\ UNCHANGED <<clock, nodes, pending>>

\* Mutants of ApplyInsert: the operations that wait for the node are not applied,
\* an insertion after a deleted node goes to the front, and a known id is set again.
ApplyInsertNoFlush(r, op) ==
  /\ Call(r, op) /\ op.type = "ins" /\ ~Present(r, op.id)
  /\ op.dep = Root \/ Present(r, op.dep)
  /\ CatchUp(r, op.id[1])
  /\ nodes' = [nodes EXCEPT ![r] =
       [k \in DOMAIN @ \cup {op.id} |->
          IF k = op.id THEN [after |-> op.dep, deleted |-> FALSE] ELSE @[k]]]
  /\ UNCHANGED pending
  /\ Then(r, <<>>)

ApplyInsertAtLive(r, op) ==
  /\ Call(r, op) /\ op.type = "ins" /\ ~Present(r, op.id)
  /\ op.dep = Root \/ Present(r, op.dep)
  /\ CatchUp(r, op.id[1])
  /\ LET gone == op.dep # Root /\ nodes[r][op.dep].deleted
     IN  nodes' = [nodes EXCEPT ![r] =
           [k \in DOMAIN @ \cup {op.id} |->
              IF k = op.id THEN [after |-> IF gone THEN Root ELSE op.dep, deleted |-> FALSE]
              ELSE @[k]]]
  /\ pending' = [pending EXCEPT ![r][op.id] = <<>>]
  /\ Then(r, pending[r][op.id])

ApplyInsertAgain(r, op) ==
  /\ Call(r, op) /\ op.type = "ins"
  /\ op.dep = Root \/ Present(r, op.dep)
  /\ CatchUp(r, op.id[1])
  /\ nodes' = [nodes EXCEPT ![r] =
       [k \in DOMAIN @ \cup {op.id} |->
          IF k = op.id THEN [after |-> op.dep, deleted |-> FALSE] ELSE @[k]]]
  /\ pending' = [pending EXCEPT ![r][op.id] = <<>>]
  /\ Then(r, pending[r][op.id])

ApplyInsert(r, op) ==
  /\ Call(r, op) /\ op.type = "ins" /\ ~Present(r, op.id)
  /\ op.dep = Root \/ Present(r, op.dep)
  /\ CatchUp(r, op.id[1])
  /\ nodes' = [nodes EXCEPT ![r] =
       [k \in DOMAIN @ \cup {op.id} |->
          IF k = op.id THEN [after |-> op.dep, deleted |-> FALSE] ELSE @[k]]]
  /\ pending' = [pending EXCEPT ![r][op.id] = <<>>]
  /\ Then(r, pending[r][op.id])

\* Mutant of Defer: the operation is dropped.
DeferDrops(r, op) == Then(r, <<>>) /\ UNCHANGED <<nodes, pending>>

Defer(r, op) ==
  /\ pending' = [pending EXCEPT ![r][op.dep] = Append(@, op)]
  /\ Then(r, <<>>)
  /\ UNCHANGED nodes

DeferInsert(r, op) ==
  /\ Call(r, op) /\ op.type = "ins" /\ ~Present(r, op.id)
  /\ op.dep # Root /\ ~Present(r, op.dep)
  /\ CatchUp(r, op.id[1])
  /\ Defer(r, op)

ApplyDelete(r, op) ==
  /\ Call(r, op) /\ op.type = "del" /\ Present(r, op.dep)
  /\ nodes' = [nodes EXCEPT ![r][op.dep].deleted = TRUE]
  /\ Then(r, <<>>)
  /\ UNCHANGED <<clock, pending>>

DeferDelete(r, op) ==
  /\ Call(r, op) /\ op.type = "del" /\ ~Present(r, op.dep)
  /\ Defer(r, op)
  /\ UNCHANGED clock

Apply(r) ==
  \E op \in sent : \/ ApplyKnown(r, op) \/ ApplyInsert(r, op) \/ DeferInsert(r, op)
                   \/ ApplyDelete(r, op) \/ DeferDelete(r, op)

Next ==
  \E r \in Replicas :
    \/ \E index \in 0 .. MaxOps : InsertAtIndex(r, index)
    \/ \E index \in 1 .. MaxOps : DeleteAtIndex(r, index)
    \/ \E op \in sent : Deliver(r, op)
    \/ Apply(r)

Spec == Init /\ [][Next]_vars

\* apply runs to its end, and the network delivers every operation some time,
\* however many copies of others it delivers meanwhile.
FairSpec ==
  /\ Spec
  /\ \A r \in Replicas : /\ WF_vars(Apply(r))
                         /\ SF_vars(\E op \in sent \ received[r] : Deliver(r, op))

-----------------------------------------------------------------------------
(* Properties.                                                             *)

\* Strong eventual consistency: two replicas that have been given the same
\* operations, in whatever order and however often, hold the same nodes.
Converged ==
  \A r, s \in Replicas :
    Idle(r) /\ Idle(s) /\ received[r] = received[s] => nodes[r] = nodes[s]

\* Replicas that have seen different operations still agree on the order of
\* the elements they share, so an element never jumps when operations arrive.
OrderAgrees ==
  \A r, s \in Replicas : r < s =>
    Keep(Ordered(nodes[r]), DOMAIN nodes[s]) = Keep(Ordered(nodes[s]), DOMAIN nodes[r])

\* The place in text s right after element e, the first place when e is the root.
PlaceAfter(s, e) == IF e = Root THEN 1 ELSE SelectInSeq(s, LAMBDA k : k = e) + 1

\* insertAt(index) puts the element at that index of the text its own replica
\* shows, whatever concurrent and deleted siblings are there: this is what the
\* Lamport catch-up is for.
InsertLandsAtIndex ==
  [][\A r \in Replicas, op \in sent :
       ApplyInsert(r, op) /\ op.id[2] = r =>
         LET old == Visible(nodes[r])
         IN  Visible(nodes'[r]) = InsertAt(old, PlaceAfter(old, op.dep), op.id)]_vars

\* A deleted element stays deleted, although its insertion may be delivered again.
NoResurrection ==
  [][\A r \in Replicas : \A k \in DOMAIN nodes[r] :
       /\ k \in DOMAIN nodes'[r]
       /\ nodes[r][k].deleted => nodes'[r][k].deleted]_vars

\* Once editing stops all replicas show the same text, for good, and an operation
\* is left in a buffer only if it depends on an insertion beyond the end.
EventuallyConsistent ==
  <>[](\A r, s \in Replicas : Visible(nodes[r]) = Visible(nodes[s])
         /\ \A id \in Ids : pending[r][id] # <<>> =>
              \E op \in sent : op.type = "ins" /\ op.id = id /\ ~Present(r, id))
=============================================================================
