----------------------------- MODULE Coroutine -----------------------------
(***************************************************************************)
(* C-Coroutines (coroutine.c, switch.S): coroutines and the main program   *)
(* on stacks of their own, one of them on the processor.  co_switch parks  *)
(* the running context on its stack and goes on with what another stack    *)
(* was parked with, so a call of co_resume or co_yield is two steps: what  *)
(* it does before the switch, and what the context switched to does when   *)
(* it lands.  A stack pointer is the context whose stack it points into.   *)
(*                                                                         *)
(* The clients (user code of all contexts) create, resume, yield, return   *)
(* and destroy in any order, except that they resume and destroy only      *)
(* coroutines that are not running and not waiting for one they resumed.   *)
(***************************************************************************)
EXTENDS Integers, Sequences, SequencesExt, FiniteSets

CONSTANTS
    Coroutines,     \* the objects co_create may return
    Main,           \* the main program
    Values,         \* the values handed over
    NULL

ASSUME ContextAssumption == Main \notin Coroutines /\ NULL \notin Coroutines /\ 0 \in Values
ASSUME FinitelyMany == IsFiniteSet(Coroutines)

VARIABLES
    running,        \* the context on whose stack the processor works
    frame,          \* what lies on top of each stack
    g_current,
    alive,          \* the coroutines created and not destroyed
    sp, caller_sp, value, done,     \* fields of each coroutine
    self,           \* the local of the trampoline on each stack
    ret             \* what the last call made in each context returned

vars == <<running, frame, g_current, alive, sp, caller_sp, value, done, self, ret>>

Contexts == Coroutines \cup {Main}

(* The tops of a stack: user code, the trampoline's address that co_create
   put there, or a call parked in co_switch with its locals. *)
User == [at |-> "user"]
Trampoline == [at |-> "trampoline"]
InResume(co, prev) == [at |-> "resume", co |-> co, prev |-> prev]
InYield(co) == [at |-> "yield", co |-> co]

Init ==
    /\ running = Main
    /\ frame = [x \in Contexts |-> User]
    /\ g_current = NULL
    /\ alive = {}
    /\ sp = [c \in Coroutines |-> NULL]
    /\ caller_sp = [c \in Coroutines |-> NULL]
    /\ value = [c \in Coroutines |-> 0]
    /\ done = [c \in Coroutines |-> FALSE]
    /\ self = [c \in Coroutines |-> NULL]
    /\ ret = [x \in Contexts |-> 0]

InUserCode == frame[running] = User

(* Resumed and not yet back: the client does not resume or destroy these. *)
Resumed == {frame[x].co : x \in {y \in Contexts : frame[y].at = "resume"}}

-----------------------------------------------------------------------------
co_create(c) ==
    /\ InUserCode
    /\ c \notin alive
    /\ alive' = alive \cup {c}
    /\ frame' = [frame EXCEPT ![c] = Trampoline]
    /\ sp' = [sp EXCEPT ![c] = c]
    /\ caller_sp' = [caller_sp EXCEPT ![c] = NULL]
    /\ value' = [value EXCEPT ![c] = 0]
    /\ done' = [done EXCEPT ![c] = FALSE]
    /\ self' = [self EXCEPT ![c] = NULL]
    /\ ret' = [ret EXCEPT ![c] = 0]
    /\ UNCHANGED <<running, g_current>>

co_resume_done(c) ==
    /\ InUserCode
    /\ c \in alive
    /\ done[c]
    /\ ret' = [ret EXCEPT ![running] = 0]
    /\ UNCHANGED <<running, frame, g_current, alive, sp, caller_sp, value, done, self>>

co_resume(c, in) ==
    /\ InUserCode
    /\ c \in alive \ Resumed
    /\ ~done[c]
    /\ value' = [value EXCEPT ![c] = in]
    /\ g_current' = c
    /\ frame' = [frame EXCEPT ![running] = InResume(c, g_current)]
    /\ caller_sp' = [caller_sp EXCEPT ![c] = running]
    /\ running' = sp[c]
    /\ UNCHANGED <<alive, sp, done, self, ret>>

(* co_yield and the end of a coroutine take the coroutine from g_current and
   from the trampoline's local, not from the stack they run on. *)
co_yield(out) ==
    /\ InUserCode
    /\ running # Main
    /\ LET co == g_current IN
        /\ value' = [value EXCEPT ![co] = out]
        /\ frame' = [frame EXCEPT ![running] = InYield(co)]
        /\ sp' = [sp EXCEPT ![co] = running]
        /\ running' = caller_sp[co]
    /\ UNCHANGED <<g_current, alive, caller_sp, done, self, ret>>

\* Mutant: a coroutine that ends leaves the value of its last resume.
EndKeepsValue ==
    /\ InUserCode /\ running # Main
    /\ LET co == self[running] IN
        /\ done' = [done EXCEPT ![co] = TRUE]
        /\ sp' = [sp EXCEPT ![co] = running]
        /\ running' = caller_sp[co]
    /\ UNCHANGED <<frame, value, g_current, alive, caller_sp, self, ret>>

(* The function returns to the trampoline. *)
End ==
    /\ InUserCode
    /\ running # Main
    /\ LET co == self[running] IN
        /\ done' = [done EXCEPT ![co] = TRUE]
        /\ value' = [value EXCEPT ![co] = 0]
        /\ sp' = [sp EXCEPT ![co] = running]
        /\ running' = caller_sp[co]
    /\ UNCHANGED <<frame, g_current, alive, caller_sp, self, ret>>

(* The object and its stack are gone: nothing of them is kept. *)
co_destroy(c) ==
    /\ InUserCode
    /\ c \in alive \ Resumed
    /\ alive' = alive \ {c}
    /\ frame' = [frame EXCEPT ![c] = User]
    /\ sp' = [sp EXCEPT ![c] = NULL]
    /\ caller_sp' = [caller_sp EXCEPT ![c] = NULL]
    /\ value' = [value EXCEPT ![c] = 0]
    /\ done' = [done EXCEPT ![c] = FALSE]
    /\ self' = [self EXCEPT ![c] = NULL]
    /\ ret' = [ret EXCEPT ![c] = 0]
    /\ UNCHANGED <<running, g_current>>

-----------------------------------------------------------------------------
(* The context switched to goes on. *)

Land(returned) ==
    /\ frame' = [frame EXCEPT ![running] = User]
    /\ ret' = [ret EXCEPT ![running] = returned]
    /\ UNCHANGED <<running, alive, sp, caller_sp, value, done>>

LandInTrampoline ==
    /\ frame[running] = Trampoline
    /\ self' = [self EXCEPT ![running] = g_current]
    /\ Land(ret[running])
    /\ UNCHANGED g_current

\* Mutant: co_resume does not put g_current back.
LandInResumeKeepsCurrent ==
    /\ frame[running].at = "resume"
    /\ Land(value[frame[running].co])
    /\ UNCHANGED <<g_current, self>>

LandInResume ==
    /\ frame[running].at = "resume"
    /\ g_current' = frame[running].prev
    /\ Land(value[frame[running].co])
    /\ UNCHANGED self

LandInYield ==
    /\ frame[running].at = "yield"
    /\ Land(value[frame[running].co])
    /\ UNCHANGED <<g_current, self>>

Next ==
    \/ \E c \in Coroutines : co_create(c) \/ co_resume_done(c) \/ co_destroy(c)
    \/ \E c \in Coroutines, in \in Values : co_resume(c, in)
    \/ \E out \in Values : co_yield(out)
    \/ End \/ LandInTrampoline \/ LandInResume \/ LandInYield

Spec == Init /\ [][Next]_vars

-----------------------------------------------------------------------------
(* The chain of resumers, read off the stacks from Main's on: Chain[n] are its
   first n members, or all of them. *)
Top(chain) == IF chain = <<>> THEN Main ELSE Last(chain)

Chain[n \in 0..Cardinality(Coroutines)] ==
    IF n = 0 THEN <<>>
    ELSE LET chain == Chain[n - 1]
             top == Top(chain)
         IN IF top = running \/ frame[top].at # "resume" THEN chain
            ELSE Append(chain, frame[top].co)

Resumers == Chain[Cardinality(Coroutines)]

Status ==
    LET resumed == Range(Resumers)
    IN [c \in Coroutines |->
           CASE c \notin alive -> "none"
             [] c \in resumed -> "running"
             [] c \in alive \ resumed /\ done[c] -> "done"
             [] c \in alive \ resumed /\ ~done[c] /\ frame[c] = Trampoline -> "new"
             [] OTHER -> "suspended"]

(* A value in flight counts as received. *)
Received(x) ==
    IF x = running /\ frame[x].at \in {"resume", "yield"} THEN value[frame[x].co] ELSE ret[x]

-----------------------------------------------------------------------------
\* Everything a stack can be parked with.
Frames ==
    {User, Trampoline}
    \cup {InResume(co, prev) : co \in Coroutines, prev \in Coroutines \cup {NULL}}
    \cup {InYield(co) : co \in Coroutines}

\* Stack pointers point into stacks of coroutines, or nowhere.
TypeOK ==
    /\ running \in Contexts
    /\ frame \in [Contexts -> Frames]
    /\ g_current \in Coroutines \cup {NULL}
    /\ alive \subseteq Coroutines
    /\ sp \in [Coroutines -> Coroutines \cup {NULL}]
    /\ caller_sp \in [Coroutines -> Contexts \cup {NULL}]
    /\ value \in [Coroutines -> Values]
    /\ done \in [Coroutines -> BOOLEAN]
    /\ self \in [Coroutines -> Coroutines \cup {NULL}]
    /\ ret \in [Contexts -> Values]

(* What g_current holds while x runs. *)
Name(x) == IF x = Main THEN NULL ELSE x

(* Whatever nesting of resumes, yields, returns and destructions came before,
   user code runs as the coroutine that g_current and the trampoline's local
   on its stack name (both are how co_yield and the end of a coroutine find
   what to park), and its caller_sp leads to the context parked in the resume
   of it, which will put its own name back into g_current. *)
IdentityAgrees ==
    InUserCode =>
        /\ g_current = Name(running)
        /\ running # Main =>
            /\ self[running] = running
            /\ LET resumer == caller_sp[running]
               IN frame[resumer] = InResume(running, Name(resumer))

Abs == INSTANCE AbstractCoroutine WITH
    chain <- Resumers,
    status <- Status,
    got <- [x \in Contexts |-> Received(x)]

(* Every step is a step of asymmetric coroutines as coroutine.h promises them,
   or a stutter: control goes back to whoever resumed, the value arrives at
   the other side, a coroutine that ended returns 0 and never runs again. *)
RefinesAbstractCoroutine == Abs!ASpec

=============================================================================
