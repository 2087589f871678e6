------------------------------ MODULE BPlusTree ------------------------------
(***************************************************************************)
(* The in-memory B+ tree of Java-BTree.  Nodes live in a heap, because the *)
(* leaves are reached in two ways, from the root and along the chain of    *)
(* next pointers, and put and remove have to keep the two in step.         *)
(*                                                                         *)
(* The recursion of insert and delete goes down one path and does its work *)
(* on the way back, one level per step: path holds the levels it has still *)
(* to return through.  Indices start at 1.                                 *)
(***************************************************************************)
EXTENDS Integers, Sequences, SequencesExt, FiniteSets

CONSTANTS
  Keys,       \* integers, for their order
  Values,
  Null,       \* no value, no leaf
  Order       \* order

ASSUME OrderAssumption == Order \in Nat /\ Order >= 3
ASSUME KeysAssumption == Keys \subseteq Int /\ Null \notin Values

MaxKeys == Order - 1
MinKeys == (Order - 1) \div 2

VARIABLES
  node,        \* the heap: id -> node
  root,        \* root
  firstLeaf,   \* firstLeaf
  size,        \* size
  op, path,    \* "put" or "remove" on its way back, and the levels left
  last,        \* lastPut, lastRemoved: what the call returns
  want         \* history: the value last put under each key, or Null

vars == <<node, root, firstLeaf, size, op, path, last, want>>

Leaf(keys, values, next) ==
  [leaf |-> TRUE, keys |-> keys, values |-> values, next |-> next, children |-> <<>>]
Internal(keys, children) ==
  [leaf |-> FALSE, keys |-> keys, values |-> <<>>, next |-> Null, children |-> children]

Init ==
  /\ node = [n \in {1} |-> Leaf(<<>>, <<>>, Null)]
  /\ root = 1 /\ firstLeaf = 1 /\ size = 0
  /\ op = "idle" /\ path = <<>> /\ last = Null
  /\ want = [k \in Keys |-> Null]

-----------------------------------------------------------------------------
(* Search.                                                                 *)

\* The first position whose key satisfies Test, or one past the end.
FirstPos(keys, Test(_)) ==
  LET i == SelectInSeq(keys, Test) IN IF i = 0 THEN Len(keys) + 1 ELSE i

\* Mutant of ChildIndex: > in place of >=, so a separator's key goes left.
ChildIndexLeft(n, key) == FirstPos(node[n].keys, LAMBDA k : key <= k)

ChildIndex(n, key) == FirstPos(node[n].keys, LAMBDA k : key < k)

LeafPos(n, key) == FirstPos(node[n].keys, LAMBDA k : key <= k)
InLeaf(n, key) ==
  LeafPos(n, key) <= Len(node[n].keys) /\ node[n].keys[LeafPos(n, key)] = key

\* From the root to the leaf that covers the key.
PathTo(key) ==
  LET from[n \in DOMAIN node] ==
        IF node[n].leaf THEN <<n>>
        ELSE <<n>> \o from[node[n].children[ChildIndex(n, key)]]
  IN  from[root]

LeafFor(key) == Last(PathTo(key))

Get(key) ==
  LET n == LeafFor(key)
  IN  IF InLeaf(n, key) THEN node[n].values[LeafPos(n, key)] ELSE Null

\* The entries from leaf n on along the chain, cut at the first key that is not
\* below `to'; either bound may be Null.
Scan(from, to) ==
  LET entries[n \in DOMAIN node \cup {Null}] ==
        IF n = Null THEN <<>>
        ELSE [i \in DOMAIN node[n].keys |-> <<node[n].keys[i], node[n].values[i]>>]
               \o entries[node[n].next]
      all == entries[IF from = Null THEN firstLeaf ELSE LeafFor(from)]
      end == FirstPos(all, LAMBDA e : to # Null /\ e[1] >= to) - 1
  IN  SelectSeq(SubSeq(all, 1, end), LAMBDA e : from = Null \/ e[1] >= from)

-----------------------------------------------------------------------------
(* put.                                                                    *)

Put(key, value) ==
  LET n == LeafFor(key)
      i == LeafPos(n, key)
  IN  /\ op = "idle"
      /\ IF InLeaf(n, key)
         THEN /\ node' = [node EXCEPT ![n].values[i] = value]
              /\ last' = node[n].values[i]
              /\ UNCHANGED <<size, op, path>>
         ELSE /\ node' = [node EXCEPT ![n].keys = InsertAt(@, i, key),
                                      ![n].values = InsertAt(@, i, value)]
              /\ last' = Null
              /\ size' = size + 1
              /\ op' = "put" /\ path' = PathTo(key)
      /\ want' = [want EXCEPT ![key] = value]
      /\ UNCHANGED <<root, firstLeaf>>

Fresh == CHOOSE n \in 1 .. Cardinality(DOMAIN node) + 1 : n \notin DOMAIN node

\* splitLeaf and splitInternal: what stays in n, the new right node, and the key
\* that goes up.
Split(n) ==
  LET this == node[n]
      half == Len(this.keys) \div 2
      Lo(s) == SubSeq(s, 1, half)
      Hi(s) == SubSeq(s, half + 1, Len(s))
  IN  IF this.leaf
      THEN [left |-> Leaf(Lo(this.keys), Lo(this.values), Fresh),
            right |-> Leaf(Hi(this.keys), Hi(this.values), this.next),
            key |-> this.keys[half + 1]]
      ELSE [left |-> Internal(Lo(this.keys), SubSeq(this.children, 1, half + 1)),
            right |-> Internal(Tail(Hi(this.keys)), Tail(Hi(this.children))),
            key |-> this.keys[half + 1]]

With(f, new) == [n \in DOMAIN f \cup DOMAIN new |-> IF n \in DOMAIN new THEN new[n] ELSE f[n]]

\* An overfull node is split and its parent gets the separator; above the root
\* a new root grows.
SplitStep ==
  LET n == Last(path)
      s == Split(n)
      grown == [k \in {n, Fresh} |-> IF k = n THEN s.left ELSE s.right]
  IN  /\ op = "put" /\ Len(node[n].keys) > MaxKeys
      /\ IF Len(path) = 1
         THEN LET split == With(node, grown)
                  top == CHOOSE k \in 1 .. Cardinality(DOMAIN split) + 1 : k \notin DOMAIN split
              IN  /\ node' = With(split, [k \in {top} |-> Internal(<<s.key>>, <<n, Fresh>>)])
                  /\ root' = top
                  /\ op' = "idle" /\ path' = <<>>
         ELSE LET parent == path[Len(path) - 1]
                  ci == SelectInSeq(node[parent].children, LAMBDA c : c = n)
              IN  /\ node' = With(node, With(grown, [k \in {parent} |->
                       Internal(InsertAt(node[parent].keys, ci, s.key),
                                InsertAt(node[parent].children, ci + 1, Fresh))]))
                  /\ path' = Front(path)
                  /\ UNCHANGED <<root, op>>
      /\ UNCHANGED <<firstLeaf, size, last, want>>

\* insert returns null: nothing changes above.
PutDone ==
  /\ op = "put" /\ Len(node[Last(path)].keys) <= MaxKeys
  /\ op' = "idle" /\ path' = <<>>
  /\ UNCHANGED <<node, root, firstLeaf, size, last, want>>

-----------------------------------------------------------------------------
(* remove.                                                                 *)

RemoveKey(key) ==
  LET n == LeafFor(key)
      i == LeafPos(n, key)
  IN  /\ op = "idle"
      /\ IF InLeaf(n, key)
         THEN /\ node' = [node EXCEPT ![n].keys = RemoveAt(@, i), ![n].values = RemoveAt(@, i)]
              /\ last' = node[n].values[i]
              /\ size' = size - 1
         ELSE last' = Null /\ UNCHANGED <<node, size>>
      /\ op' = "remove" /\ path' = PathTo(key)
      /\ want' = [want EXCEPT ![key] = Null]
      /\ UNCHANGED <<root, firstLeaf>>

\* Mutant of BorrowFromLeft: the parent keeps the old separator.
BorrowFromLeftOldKey(parent, ci) ==
  LET p == node[parent]
      c == p.children[ci]
      l == p.children[ci - 1]
      L == node[l]
      C == node[c]
  IN  [k \in {c, l} |->
         IF C.leaf
         THEN IF k = c THEN Leaf(<<Last(L.keys)>> \o C.keys, <<Last(L.values)>> \o C.values, C.next)
              ELSE Leaf(Front(L.keys), Front(L.values), L.next)
         ELSE IF k = c THEN Internal(<<p.keys[ci - 1]>> \o C.keys, <<Last(L.children)>> \o C.children)
              ELSE Internal(Front(L.keys), Front(L.children))]

\* What the nodes become that borrowFromLeft, borrowFromRight and mergeInto change.
BorrowFromLeft(parent, ci) ==
  LET p == node[parent]
      c == p.children[ci]
      l == p.children[ci - 1]
      L == node[l]
      C == node[c]
  IN  [k \in {c, l, parent} |->
         CASE k = parent -> Internal([p.keys EXCEPT ![ci - 1] = Last(L.keys)], p.children)
           [] k = c /\ C.leaf ->
                Leaf(<<Last(L.keys)>> \o C.keys, <<Last(L.values)>> \o C.values, C.next)
           [] k = c /\ ~C.leaf ->
                Internal(<<p.keys[ci - 1]>> \o C.keys, <<Last(L.children)>> \o C.children)
           [] k = l /\ C.leaf -> Leaf(Front(L.keys), Front(L.values), L.next)
           [] k = l /\ ~C.leaf -> Internal(Front(L.keys), Front(L.children))]

BorrowFromRight(parent, ci) ==
  LET p == node[parent]
      c == p.children[ci]
      r == p.children[ci + 1]
      R == node[r]
      C == node[c]
  IN  [k \in {c, r, parent} |->
         CASE k = parent ->
                Internal([p.keys EXCEPT ![ci] = IF C.leaf THEN R.keys[2] ELSE R.keys[1]], p.children)
           [] k = c /\ C.leaf ->
                Leaf(Append(C.keys, R.keys[1]), Append(C.values, R.values[1]), C.next)
           [] k = c /\ ~C.leaf ->
                Internal(Append(C.keys, p.keys[ci]), Append(C.children, R.children[1]))
           [] k = r /\ C.leaf -> Leaf(Tail(R.keys), Tail(R.values), R.next)
           [] k = r /\ ~C.leaf -> Internal(Tail(R.keys), Tail(R.children))]

\* mergeInto: children ci and ci + 1 become one.
Merged(parent, ci) ==
  LET p == node[parent]
      l == p.children[ci]
      L == node[l]
      R == node[p.children[ci + 1]]
  IN  [k \in {l, parent} |->
         IF k = parent THEN Internal(RemoveAt(p.keys, ci), RemoveAt(p.children, ci + 1))
         ELSE IF L.leaf THEN Leaf(L.keys \o R.keys, L.values \o R.values, R.next)
         ELSE Internal(Append(L.keys, p.keys[ci]) \o R.keys, L.children \o R.children)]

MergeInto(parent, ci) ==
  LET heap == With(node, Merged(parent, ci))
  IN  [n \in DOMAIN heap \ {node[parent].children[ci + 1]} |-> heap[n]]

\* On the way back from delete: an underfull child borrows from its left sibling,
\* else from its right one, else is merged with one of them.
RebalanceStep ==
  LET parent == path[Len(path) - 1]
      child == Last(path)
      kids == node[parent].children
      ci == SelectInSeq(kids, LAMBDA c : c = child)
      Spare(i) == i \in DOMAIN kids /\ Len(node[kids[i]].keys) > MinKeys
  IN  /\ op = "remove" /\ Len(path) > 1
      /\ node' = IF Len(node[child].keys) >= MinKeys THEN node
                 ELSE IF Spare(ci - 1) THEN With(node, BorrowFromLeft(parent, ci))
                 ELSE IF Spare(ci + 1) THEN With(node, BorrowFromRight(parent, ci))
                 ELSE IF ci > 1 THEN MergeInto(parent, ci - 1)
                 ELSE MergeInto(parent, ci)
      /\ path' = Front(path)
      /\ UNCHANGED <<root, firstLeaf, size, op, last, want>>

\* A root with one child gives way to it.
RemoveDone ==
  /\ op = "remove" /\ Len(path) = 1
  /\ IF ~node[root].leaf /\ Len(node[root].children) = 1
     THEN /\ root' = node[root].children[1]
          /\ node' = [n \in DOMAIN node \ {root} |-> node[n]]
     ELSE UNCHANGED <<root, node>>
  /\ op' = "idle" /\ path' = <<>>
  /\ UNCHANGED <<firstLeaf, size, last, want>>

-----------------------------------------------------------------------------
Next ==
  \/ \E key \in Keys, value \in Values : Put(key, value)
  \/ SplitStep \/ PutDone
  \/ \E key \in Keys : RemoveKey(key)
  \/ RebalanceStep \/ RemoveDone

Spec == Init /\ [][Next]_vars

-----------------------------------------------------------------------------
(* Properties.                                                             *)

IsIncreasing(s) == \A i \in 1 .. Len(s) - 1 : s[i] < s[i + 1]

\* collectLeafDepths.
Depths ==
  LET under[n \in DOMAIN node] ==
        IF node[n].leaf THEN {1}
        ELSE {1 + d : d \in UNION {under[c] : c \in ToSet(node[n].children)}}
  IN  under[root]

\* checkNode for every node: the keys are in order and inside the window that the
\* separators above leave, no node is underfull or overfull.
CheckNode ==
  LET keysUnder[n \in DOMAIN node] ==
        ToSet(node[n].keys) \cup UNION {keysUnder[c] : c \in ToSet(node[n].children)}
  IN  \A n \in DOMAIN node :
        /\ IsIncreasing(node[n].keys)
        /\ n # root => Len(node[n].keys) >= MinKeys
        /\ Len(node[n].keys) <= MaxKeys
        /\ ~node[n].leaf =>
             /\ Len(node[n].children) = Len(node[n].keys) + 1
             /\ \A i \in DOMAIN node[n].children : \A k \in keysUnder[node[n].children[i]] :
                  /\ i > 1 => k >= node[n].keys[i - 1]
                  /\ i <= Len(node[n].keys) => k < node[n].keys[i]

\* checkInvariants finds nothing: after every put and remove, whatever splits,
\* borrows and merges they took, all leaves are at one depth, every node is
\* ordered and neither underfull nor overfull, and the chain of leaves is
\* increasing and holds size keys.
Consistent ==
  op = "idle" =>
    /\ Cardinality(Depths) = 1
    /\ CheckNode
    /\ IsIncreasing([i \in DOMAIN Scan(Null, Null) |-> Scan(Null, Null)[i][1]])
    /\ Len(Scan(Null, Null)) = size

\* The tree is the map that the calls made: get finds, from the root, what was put
\* last and not removed, and every range scan, along the chain of leaves, returns
\* exactly the entries of the map between its bounds, in order: no leaf is skipped,
\* doubled or left behind by a split or a merge.
LookupsAgree ==
  op = "idle" =>
    /\ \A k \in Keys : Get(k) = want[k]
    /\ \A from, to \in Keys \cup {Null} :
         LET r == Scan(from, to)
             Inside(k) == (from = Null \/ k >= from) /\ (to = Null \/ k < to)
         IN  /\ IsIncreasing([i \in DOMAIN r |-> r[i][1]])
             /\ ToSet(r) = {<<k, want[k]>> : k \in {j \in Keys : want[j] # Null /\ Inside(j)}}
=============================================================================
