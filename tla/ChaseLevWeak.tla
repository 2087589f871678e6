---------------------------- MODULE ChaseLevWeak ----------------------------
(***************************************************************************)
(* The deque of ChaseLev on hardware that delays the owner's stores.  The  *)
(* variables of ChaseLev are the owner's view; `m' is what the thieves can *)
(* read, and `buf' holds the owner's stores that have not reached it.      *)
(*   InOrder = TRUE : stores become visible in program order (x86 TSO).    *)
(*   InOrder = FALSE: relaxed stores to different locations may overtake   *)
(*                    each other, except across a release fence (ARM, and  *)
(*                    what the C++ memory model allows a compiler).        *)
(* top_ is changed by compare_exchange only, which acts on memory itself.  *)
(* A Ring's cap is taken to be visible with the pointer to it; its slots   *)
(* are not.                                                                *)
(***************************************************************************)
EXTENDS ChaseLev, Sequences, SequencesExt

CONSTANT InOrder

VARIABLES buf, m

weakVars == <<vars, buf, m>>

\* Buffered stores: a location and a value, or a release fence.
Fence == [loc |-> <<"fence">>, val |-> 0]
StoreBottom(v) == [loc |-> <<"bottom">>, val |-> v]
StoreRing(r) == [loc |-> <<"ring">>, val |-> r]
StoreSlot(r, i, x) == [loc |-> <<"slot", r, i % rings'[r].cap>>, val |-> x]

\* What a thief reads: a slot nobody wrote is uninitialised memory.
Visible(loc) == IF loc \in DOMAIN m THEN m[loc] ELSE NoTask

WInit ==
  /\ Init
  /\ buf = <<>>
  /\ m = [loc \in {<<"bottom">>, <<"ring">>} |-> IF loc = <<"bottom">> THEN 0 ELSE 1]

-----------------------------------------------------------------------------
(* The owner.  Its loads of bottom_, ring_ and slots see its own stores.   *)

WPushLoad(x) == PushLoad(x) /\ UNCHANGED <<buf, m>>

\* The copies into the new ring, and then ring_, with no fence between them.
WPushGrow ==
  /\ PushGrow
  /\ buf' = buf \o [k \in 1 .. ob - ot |-> StoreSlot(ring', ot + k - 1, Get(ring, ot + k - 1))]
                \o <<StoreRing(ring')>>
  /\ UNCHANGED m

\* a->put(b, x), then the release fence.
WPushPut ==
  /\ PushPut
  /\ buf' = buf \o <<StoreSlot(ring, ob, ox), Fence>>
  /\ UNCHANGED m

WPushStore == PushStore /\ buf' = Append(buf, StoreBottom(ob + 1)) /\ UNCHANGED m

WPopDec == PopDec /\ buf' = Append(buf, StoreBottom(bottom - 1)) /\ UNCHANGED m

\* Mutant of SeqCstFence: pop has no fence.
NoFence == TRUE

\* The seq_cst fence: top_ is read only after every store has become visible.
SeqCstFence == buf = <<>>

WPopRead ==
  /\ SeqCstFence
  /\ PopTake \/ PopLast \/ PopEmpty
  /\ UNCHANGED <<buf, m>>

WPopCas == (PopCasWin \/ PopCasLose) /\ UNCHANGED <<buf, m>>

WPopRestore == PopRestore /\ buf' = Append(buf, StoreBottom(ob + 1)) /\ UNCHANGED m

-----------------------------------------------------------------------------
(* The thieves read m in program order.                                    *)

WStealTop(p) == StealTop(p) /\ UNCHANGED <<buf, m>>

WStealBottom(p) ==
  /\ spc[p] = "bottom"
  /\ spc' = [spc EXCEPT ![p] = IF st[p] < Visible(<<"bottom">>) THEN "ring" ELSE "idle"]
  /\ UNCHANGED <<top, bottom, ring, rings, ownerVars, st, sa, sx, fresh, given, buf, m>>

WStealRing(p) ==
  /\ spc[p] = "ring"
  /\ sa' = [sa EXCEPT ![p] = Visible(<<"ring">>)]
  /\ spc' = [spc EXCEPT ![p] = "get"]
  /\ UNCHANGED <<top, bottom, ring, rings, ownerVars, st, sx, fresh, given, buf, m>>

WStealGet(p) ==
  /\ spc[p] = "get"
  /\ sx' = [sx EXCEPT ![p] = Visible(<<"slot", sa[p], st[p] % rings[sa[p]].cap>>)]
  /\ spc' = [spc EXCEPT ![p] = "cas"]
  /\ UNCHANGED <<top, bottom, ring, rings, ownerVars, st, sa, fresh, given, buf, m>>

WStealCas(p) == (StealCasWin(p) \/ StealCasLose(p)) /\ UNCHANGED <<buf, m>>

WSteal(p) == WStealTop(p) \/ WStealBottom(p) \/ WStealRing(p) \/ WStealGet(p) \/ WStealCas(p)

-----------------------------------------------------------------------------
(* The memory system makes a store visible.                                *)

\* Store k is not held back by an earlier one.
MayDrain(k) ==
  /\ buf[k] # Fence
  /\ \A j \in 1 .. k - 1 : ~InOrder /\ buf[j] # Fence /\ buf[j].loc # buf[k].loc

\* A fence holds nothing back once it is first.
DropFences(s) == IF s # <<>> /\ Head(s) = Fence THEN Tail(s) ELSE s

Drain ==
  \E k \in DOMAIN buf :
    /\ MayDrain(k)
    /\ m' = [loc \in DOMAIN m \cup {buf[k].loc} |->
               IF loc = buf[k].loc THEN buf[k].val ELSE m[loc]]
    /\ buf' = DropFences(RemoveAt(buf, k))
    /\ UNCHANGED vars

WNext ==
  \/ \E x \in Tasks : WPushLoad(x)
  \/ WPushGrow \/ WPushPut \/ WPushStore
  \/ WPopDec \/ WPopRead \/ WPopCas \/ WPopRestore
  \/ \E p \in Thieves : WSteal(p)
  \/ Drain

WSpec == WInit /\ [][WNext]_weakVars

\* Stores become visible some time; the threads are scheduled as in ChaseLev.
WFairSpec ==
  /\ WSpec
  /\ WF_weakVars(Drain)
  /\ WF_weakVars(opc # "idle" /\ (\/ WPushGrow \/ WPushPut \/ WPushStore
                                  \/ WPopRead \/ WPopCas \/ WPopRestore))
  /\ \A p \in Thieves : WF_weakVars(WSteal(p))

=============================================================================
