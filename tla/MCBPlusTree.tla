----------------------------- MODULE MCBPlusTree -----------------------------
(* BPlusTree on small instances.  Trees that differ only in the ids of their *)
(* nodes, and states that differ only in the value the last call returned,   *)
(* are the same to TLC: View numbers the nodes in preorder.                  *)
EXTENDS BPlusTree

View ==
  LET under[n \in DOMAIN node] ==
        <<n>> \o FlattenSeq([i \in DOMAIN node[n].children |-> under[node[n].children[i]]])
      order == under[root]
      At(n) == SelectInSeq(order, LAMBDA m : m = n)
      Renamed(n) == <<node[n].keys, node[n].values, At(node[n].next),
                      [i \in DOMAIN node[n].children |-> At(node[n].children[i])]>>
  IN  <<[i \in DOMAIN order |-> Renamed(order[i])], At(firstLeaf), size, op,
        [i \in DOMAIN path |-> At(path[i])], want>>
=============================================================================
