------------------------- MODULE AbstractCoroutine -------------------------
(* What coroutine.h promises: a resumed coroutine runs until it yields or
   returns, then whoever resumed it goes on; each side receives the value the
   other one handed over.  chain is the stack of resumed coroutines, its last
   one runs; Main runs when it is empty. *)
EXTENDS Integers, Sequences, SequencesExt

CONSTANTS Coroutines, Main, Values

VARIABLES chain, status, got    \* got[x]: what the last call of x returned

aVars == <<chain, status, got>>

Contexts == Coroutines \cup {Main}
Current == IF chain = <<>> THEN Main ELSE Last(chain)
Resumer == IF Len(chain) < 2 THEN Main ELSE chain[Len(chain) - 1]

AInit ==
    /\ chain = <<>>
    /\ status = [c \in Coroutines |-> "none"]
    /\ got = [x \in Contexts |-> 0]

ACreate(c) ==
    /\ status[c] = "none"
    /\ status' = [status EXCEPT ![c] = "new"]
    /\ got' = [got EXCEPT ![c] = 0]
    /\ UNCHANGED chain

AResume(c, in) ==
    /\ status[c] \in {"new", "suspended"}
    /\ chain' = Append(chain, c)
    /\ status' = [status EXCEPT ![c] = "running"]
    /\ got' = IF status[c] = "suspended" THEN [got EXCEPT ![c] = in] ELSE got

AResumeDone(c) ==
    /\ status[c] = "done"
    /\ got' = [got EXCEPT ![Current] = 0]
    /\ UNCHANGED <<chain, status>>

Leave(as, out) ==
    /\ chain # <<>>
    /\ chain' = Front(chain)
    /\ status' = [status EXCEPT ![Current] = as]
    /\ got' = [got EXCEPT ![Resumer] = out]

ADestroy(c) ==
    /\ status[c] \in {"new", "suspended", "done"}
    /\ status' = [status EXCEPT ![c] = "none"]
    /\ got' = [got EXCEPT ![c] = 0]
    /\ UNCHANGED chain

ANext ==
    \/ \E c \in Coroutines : ACreate(c) \/ AResumeDone(c) \/ ADestroy(c)
    \/ \E c \in Coroutines, in \in Values : AResume(c, in)
    \/ \E out \in Values : Leave("suspended", out)
    \/ Leave("done", 0)

ASpec == AInit /\ [][ANext]_aVars

=============================================================================
