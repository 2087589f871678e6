---------------------------- MODULE AbstractDeque ----------------------------
(***************************************************************************)
(* What a ws::Deque promises its callers (CPP-WorkStealing): a sequence of *)
(* tasks that the owner extends and shortens at the bottom and thieves     *)
(* shorten at the top, each operation in one indivisible step, and every   *)
(* task handed out to exactly one caller.  ChaseLev is shown to implement  *)
(* this specification, and ThreadPool uses deques that behave like it.     *)
(***************************************************************************)
EXTENDS Integers, Sequences

CONSTANT Tasks      \* the Task* values passed to push

VARIABLES
  items,            \* the queued tasks, items[1] at the top (steal) end
  given             \* given[x]: how often pop or steal returned x

vars == <<items, given>>

Init ==
  /\ items = <<>>
  /\ given = [x \in Tasks |-> 0]

Push(x) ==
  /\ items' = Append(items, x)
  /\ UNCHANGED given

\* pop: the newest task leaves at the bottom.
Pop ==
  /\ items # <<>>
  /\ items' = SubSeq(items, 1, Len(items) - 1)
  /\ given' = [given EXCEPT ![items[Len(items)]] = @ + 1]

\* steal: the oldest task leaves at the top.
Steal ==
  /\ items # <<>>
  /\ items' = Tail(items)
  /\ given' = [given EXCEPT ![items[1]] = @ + 1]

Next ==
  \/ \E x \in Tasks : Push(x)
  \/ Pop
  \/ Steal

Spec == Init /\ [][Next]_vars
=============================================================================
