--------------------------- MODULE CoroutineProof ---------------------------
(***************************************************************************)
(* Proofs about Coroutine, for any number of coroutines and any values:    *)
(* every context runs under its own name (IdentityAgrees), and the stacks  *)
(* implement the coroutines of AbstractCoroutine.                          *)
(*                                                                         *)
(* IdentityAgrees speaks of the running context only, and where that one   *)
(* switches to depends on what others left behind.  The strengthening says *)
(* it of every stack: each is parked under its own name (FrameInv), and    *)
(* every coroutine that runs or waits in a resume has its resumer waiting  *)
(* in the resume of it (ChainInv).                                         *)
(***************************************************************************)
EXTENDS Coroutine, FiniteSetTheorems, WellFoundedInduction, TLAPS

\* What a stack may be parked with: it never waits under another's name.
ParkedAs(x) ==
    \/ frame[x] = User
    \/ x # Main /\ frame[x] = Trampoline
    \/ x # Main /\ frame[x] = InYield(x)
    \/ \E co \in Coroutines : frame[x] = InResume(co, Name(x))

FrameInv == \A x \in Contexts : ParkedAs(x)

\* A coroutine that is neither running nor done is parked on its own stack,
\* and knows itself once it has started.
AliveInv ==
    /\ running \in alive \cup {Main}
    /\ \A c \in alive :
        /\ sp[c] = c
        /\ frame[c] = User => c = running \/ done[c]
        /\ frame[c] # Trampoline => self[c] = c
    /\ \A c \in Coroutines \ alive : frame[c] = User

\* Runs, or waits in a resume of its own.
Active(c) == c = running \/ frame[c].at = "resume"

ChainInv ==
    \A c \in Coroutines :
        Active(c) => /\ caller_sp[c] \in Contexts
                     /\ frame[caller_sp[c]] = InResume(c, Name(caller_sp[c]))

\* Whoever lands in the resume of co finds co parked.
LandInv == frame[running].at = "resume" => ~Active(frame[running].co)

NameInv == frame[running].at # "resume" => g_current = Name(running)

IInv == TypeOK /\ FrameInv /\ AliveInv /\ ChainInv /\ LandInv /\ NameInv

-----------------------------------------------------------------------------
(* Induction: a set that holds zero and all successors is that of the      *)
(* naturals.                                                               *)

\* A set of naturals has a least element.
LEMMA LeastOf ==
  ASSUME NEW T \in SUBSET Nat, T # {}
  PROVE  \E x \in T : \A y \in T : x <= y
<1> DEFINE R == OpToRel(<, Nat)
<1>1. IsWellFoundedOn(R, Nat) BY NatLessThanWellFounded
<1> HIDE DEF R
<1>2. \E x \in T : \A y \in T : <<y, x>> \notin R BY <1>1, WFMin
<1>3. \A x, y \in Nat : y < x => <<y, x>> \in R BY DEF R, OpToRel
<1>4. PICK x \in T : \A y \in T : <<y, x>> \notin R BY <1>2
<1>5. ASSUME NEW y \in T PROVE x <= y
  <2>1. ~(y < x) BY <1>3, <1>4
  <2>2. x \in Int /\ y \in Int OBVIOUS
  <2> QED BY <2>1, <2>2
<1> QED BY <1>5

\* Upwards from 0.
LEMMA Upwards ==
  ASSUME NEW T \in SUBSET Nat, 0 \in T, \A n \in T : n + 1 \in T
  PROVE  T = Nat
<1> SUFFICES ASSUME Nat \ T # {} PROVE FALSE OBVIOUS
<1>1. PICK x \in Nat \ T : \A y \in Nat \ T : x <= y BY LeastOf
<1>2. x - 1 \in T BY <1>1
<1> QED BY <1>1, <1>2

-----------------------------------------------------------------------------
\* The fields of what lies on a stack.
LEMMA Tops ==
    /\ User.at = "user"
    /\ Trampoline.at = "trampoline"
    /\ \A co : InYield(co).at = "yield" /\ InYield(co).co = co
    /\ \A co, prev : /\ InResume(co, prev).at = "resume"
                     /\ InResume(co, prev).co = co
                     /\ InResume(co, prev).prev = prev
BY DEF User, Trampoline, InYield, InResume

\* User code lies on a stack.
LEMMA UserFrame == User \in Frames
BY DEF Frames

\* What a stack holds, told by its tag.
LEMMA ByTag ==
    ASSUME NEW x, ParkedAs(x)
    PROVE  /\ frame[x].at = "user" <=> frame[x] = User
           /\ frame[x].at = "trampoline" <=> frame[x] = Trampoline
           /\ frame[x].at = "trampoline" => x # Main
           /\ frame[x].at = "yield" => x # Main /\ frame[x] = InYield(x)
           /\ frame[x].at = "resume" =>
                /\ frame[x].co \in Coroutines
                /\ frame[x] = InResume(frame[x].co, Name(x))
                /\ frame[x].prev = Name(x)
           /\ frame[x].at \in {"user", "trampoline", "yield", "resume"}
BY Tops DEF ParkedAs

\* An active coroutine is somebody's resumed coroutine.
LEMMA ActiveIsResumed ==
    ASSUME ChainInv, NEW c \in Coroutines, Active(c)
    PROVE  c \in Resumed
BY Tops DEF ChainInv, Resumed

\* In user code the invariant says what IdentityAgrees says.
LEMMA InUser ==
    ASSUME IInv, InUserCode
    PROVE  /\ running \in Contexts
           /\ frame[running].at = "user"
           /\ g_current = Name(running)
           /\ running # Main =>
                /\ running \in Coroutines /\ running \in alive
                /\ self[running] = running
                /\ sp[running] = running
                /\ caller_sp[running] \in Contexts
                /\ caller_sp[running] # running
                /\ frame[caller_sp[running]] = InResume(running, Name(caller_sp[running]))
<1>1. running \in Contexts /\ frame[running] = User BY DEF IInv, TypeOK, InUserCode
<1>2. frame[running].at = "user" /\ frame[running] # Trampoline BY <1>1, Tops
<1>3. g_current = Name(running) BY <1>2 DEF IInv, NameInv
<1>4. ASSUME running # Main
      PROVE  /\ running \in Coroutines /\ running \in alive
             /\ self[running] = running /\ sp[running] = running
    BY <1>2, <1>4 DEF IInv, TypeOK, AliveInv
<1>5. ASSUME running # Main
      PROVE  /\ caller_sp[running] \in Contexts
             /\ frame[caller_sp[running]] = InResume(running, Name(caller_sp[running]))
    BY <1>4, <1>5 DEF IInv, ChainInv, Active
<1>6. running # Main => caller_sp[running] # running BY <1>1, <1>5, Tops
<1> QED BY <1>1, <1>2, <1>3, <1>4, <1>5, <1>6

\* A coroutine the client may resume or destroy is none of the active ones.
LEMMA Idle ==
    ASSUME IInv, NEW c \in alive \ Resumed
    PROVE  c \in Coroutines /\ c # running /\ frame[c].at # "resume"
BY ActiveIsResumed DEF IInv, TypeOK, Active

-----------------------------------------------------------------------------
\* A new coroutine disturbs no other stack.
LEMMA CreateKeeps ==
    ASSUME IInv, NEW c \in Coroutines, co_create(c)
    PROVE  IInv'
<1> USE ContextAssumption
<1>1. c # running /\ c # Main /\ c \in Contexts
    BY DEF IInv, AliveInv, co_create, Contexts
<1>2. /\ frame' = [frame EXCEPT ![c] = Trampoline]
      /\ frame \in [Contexts -> Frames]
      /\ frame[c] = User
      /\ running' = running /\ g_current' = g_current
    BY DEF co_create, IInv, TypeOK, AliveInv
<1>3. TypeOK'
  <2>1. Trampoline \in Frames BY DEF Frames
  <2>2. frame' \in [Contexts -> Frames] BY <1>2, <2>1
  <2> QED BY <2>2 DEF IInv, TypeOK, co_create, Contexts
<1>4. FrameInv' BY <1>1, <1>2 DEF IInv, FrameInv, ParkedAs, Name
<1>5. AliveInv'
    BY <1>1, <1>2, Tops DEF IInv, AliveInv, TypeOK, co_create, Contexts
<1>6. \A d \in Coroutines : Active(d)' => d # c /\ Active(d)
    BY <1>1, <1>2, Tops DEF Active, Contexts
<1>7. ChainInv'
    BY <1>1, <1>2, <1>6, Tops DEF IInv, ChainInv, TypeOK, co_create, Contexts, Name
<1>8. frame'[running] = frame[running] BY <1>1, <1>2
<1>9. LandInv' /\ NameInv'
    BY <1>1, <1>2, <1>8, Tops DEF IInv, LandInv, NameInv, Active, Name
<1> QED BY <1>3, <1>4, <1>5, <1>7, <1>9 DEF IInv

\* Resuming a coroutine that is done only returns 0.
LEMMA ResumeDoneKeeps ==
    ASSUME IInv, NEW c \in Coroutines, co_resume_done(c)
    PROVE  IInv'
<1>1. /\ frame' = frame /\ running' = running /\ g_current' = g_current
      /\ UNCHANGED <<alive, sp, caller_sp, value, done, self>>
    BY DEF co_resume_done
<1>2. TypeOK'
    BY <1>1, ContextAssumption DEF IInv, TypeOK, co_resume_done
<1>3. FrameInv' BY <1>1 DEF IInv, FrameInv, ParkedAs, Name
<1>4. AliveInv' BY <1>1 DEF IInv, AliveInv
<1>5. ChainInv' BY <1>1 DEF IInv, ChainInv, Active, Name
<1>6. LandInv' /\ NameInv' BY <1>1 DEF IInv, LandInv, NameInv, Active, Name
<1> QED BY <1>2, <1>3, <1>4, <1>5, <1>6 DEF IInv

\* co_resume makes the running context the resumer of an idle coroutine and
\* goes on with what that one is parked with.
LEMMA ResumeKeeps ==
    ASSUME IInv, NEW c \in Coroutines, NEW in \in Values, co_resume(c, in)
    PROVE  IInv'
<1> USE ContextAssumption
<1>1. /\ c \in alive \ Resumed /\ ~done[c]
      /\ frame' = [frame EXCEPT ![running] = InResume(c, Name(running))]
      /\ caller_sp' = [caller_sp EXCEPT ![c] = running]
      /\ g_current' = c
      /\ UNCHANGED <<alive, sp, done, self>>
      /\ running \in Contexts
      /\ frame[running] = User /\ frame[running].at = "user"
      /\ running # Main => running \in alive /\ self[running] = running
    BY InUser DEF co_resume, InUserCode
<1>2. c # running /\ c # Main /\ c \in Contexts /\ frame[c].at # "resume"
    BY <1>1, Idle DEF Contexts
<1>3. running' = c /\ sp[c] = c
    BY <1>1 DEF co_resume, IInv, AliveInv
<1>4. /\ frame \in [Contexts -> Frames]
      /\ caller_sp \in [Coroutines -> Contexts \cup {NULL}]
      /\ value \in [Coroutines -> Values]
      /\ alive \subseteq Coroutines
    BY DEF IInv, TypeOK
<1>5. /\ frame'[running] = InResume(c, Name(running))
      /\ \A x \in Contexts : x # running => frame'[x] = frame[x]
      /\ caller_sp'[c] = running
      /\ \A d \in Coroutines : d # c => caller_sp'[d] = caller_sp[d]
    BY <1>1, <1>4
<1>6. TypeOK'
  <2>1. Name(running) \in Coroutines \cup {NULL} BY <1>1 DEF Name, Contexts
  <2>2. InResume(c, Name(running)) \in Frames BY <2>1 DEF Frames
  <2>3. frame' \in [Contexts -> Frames] BY <1>1, <1>4, <2>2
  <2>4. caller_sp' \in [Coroutines -> Contexts \cup {NULL}] BY <1>1, <1>4
  <2>5. value' \in [Coroutines -> Values] BY <1>4 DEF co_resume
  <2>6. ret' = ret BY DEF co_resume
  <2> QED BY <1>1, <1>2, <1>3, <2>3, <2>4, <2>5, <2>6 DEF IInv, TypeOK
<1>7. FrameInv'
  <2>1. \A x \in Contexts : x # running => ParkedAs(x)'
      BY <1>5 DEF IInv, FrameInv, ParkedAs, Name
  <2>2. ParkedAs(running)
      BY <1>1 DEF ParkedAs
  <2>3. \E co \in Coroutines : frame'[running] = InResume(co, Name(running))
      BY <1>5
  <2>4. ASSUME NEW x \in Contexts, x = running PROVE ParkedAs(x)'
      BY <2>3, <2>4 DEF ParkedAs, Name
  <2> QED BY <2>1, <2>4 DEF FrameInv
<1>8. frame'[running] # User /\ frame'[running] # Trampoline /\ frame'[running].at = "resume"
    BY <1>5, Tops
<1>9. AliveInv'
    BY <1>1, <1>2, <1>3, <1>4, <1>5, <1>8 DEF IInv, AliveInv, Contexts
<1>10. ChainInv'
  <2> SUFFICES ASSUME NEW d \in Coroutines, Active(d)'
               PROVE  /\ caller_sp'[d] \in Contexts
                      /\ frame'[caller_sp'[d]] = InResume(d, Name(caller_sp'[d]))
      BY DEF ChainInv, Name
  <2>1. CASE d = c BY <2>1, <1>1, <1>5
  <2>2. CASE d # c
    <3>1. Active(d)
        BY <2>2, <1>3, <1>5 DEF Active, Contexts
    <3>2. /\ caller_sp[d] \in Contexts
          /\ frame[caller_sp[d]] = InResume(d, Name(caller_sp[d]))
        BY <3>1 DEF IInv, ChainInv
    <3>3. caller_sp[d] # running BY <3>2, <1>1, Tops
    <3> QED BY <2>2, <3>2, <3>3, <1>5
  <2> QED BY <2>1, <2>2
<1>11. LandInv' /\ NameInv'
    BY <1>1, <1>2, <1>3, <1>5 DEF LandInv, NameInv, Name
<1> QED BY <1>6, <1>7, <1>9, <1>10, <1>11 DEF IInv

\* The running coroutine x leaves to its resumer, with what lies on its own
\* stack then: co_yield and the end of a coroutine.
LEMMA LeaveKeeps ==
    ASSUME IInv, InUserCode, running # Main,
           frame' = [frame EXCEPT ![running] = frame'[running]],
           frame'[running] = InYield(running) \/ (frame'[running] = User /\ done'[running]),
           running' = caller_sp[running],
           sp' = [sp EXCEPT ![running] = running],
           \A c \in Coroutines : done[c] => done'[c],
           done' \in [Coroutines -> BOOLEAN],
           value' \in [Coroutines -> Values],
           UNCHANGED <<g_current, alive, caller_sp, self, ret>>
    PROVE  IInv'
<1> USE ContextAssumption
<1> DEFINE r == caller_sp[running]
<1>1. /\ running \in Coroutines /\ running \in alive /\ running \in Contexts
      /\ self[running] = running /\ sp[running] = running
      /\ frame[running].at = "user" /\ frame[running] = User
      /\ r \in Contexts /\ r # running /\ frame[r] = InResume(running, Name(r))
    BY InUser DEF InUserCode
<1>2. frame \in [Contexts -> Frames] /\ alive \subseteq Coroutines /\ sp' = sp
    BY <1>1 DEF IInv, TypeOK
<1>3. \A x \in Contexts : x # running => frame'[x] = frame[x]
    BY <1>2
<1>4. frame'[running].at # "resume" /\ frame'[running] # Trampoline
    BY Tops
<1>5. TypeOK'
  <2>1. frame'[running] \in Frames BY <1>1 DEF Frames
  <2>2. frame' \in [Contexts -> Frames] BY <1>2, <2>1
  <2> QED BY <1>1, <1>2, <2>2 DEF IInv, TypeOK
<1>6. FrameInv'
  <2>1. \A x \in Contexts : x # running => ParkedAs(x)'
      BY <1>3 DEF IInv, FrameInv, ParkedAs, Name
  <2>2. ASSUME NEW x \in Contexts, x = running PROVE ParkedAs(x)'
      BY <2>2 DEF ParkedAs
  <2> QED BY <2>1, <2>2 DEF FrameInv
<1>7. AliveInv'
  <2>1. running' \in alive' \cup {Main}
    <3>1. frame[r].at = "resume" /\ frame[r] # User BY <1>1, Tops
    <3> QED BY <1>1, <3>1 DEF IInv, AliveInv, Contexts
  <2>2. ASSUME NEW c \in alive
        PROVE  /\ sp'[c] = c
               /\ frame'[c] = User => c = running' \/ done'[c]
               /\ frame'[c] # Trampoline => self'[c] = c
    <3>1. CASE c = running BY <3>1, <1>1, <1>2, Tops
    <3>2. CASE c # running
        BY <3>2, <1>2, <1>3 DEF IInv, AliveInv, Contexts
    <3> QED BY <3>1, <3>2
  <2>3. \A c \in Coroutines \ alive : frame'[c] = User
      BY <1>1, <1>3 DEF IInv, AliveInv, Contexts
  <2> QED BY <2>1, <2>2, <2>3 DEF AliveInv
<1>8. \A d \in Coroutines : Active(d)' => Active(d) /\ d # running
    BY <1>1, <1>3, <1>4, Tops DEF Active, Contexts
<1>9. ChainInv'
  <2> SUFFICES ASSUME NEW d \in Coroutines, Active(d)'
               PROVE  /\ caller_sp[d] \in Contexts
                      /\ frame'[caller_sp[d]] = InResume(d, Name(caller_sp[d]))
      BY DEF ChainInv, Name
  <2>1. /\ caller_sp[d] \in Contexts
        /\ frame[caller_sp[d]] = InResume(d, Name(caller_sp[d]))
      BY <1>8 DEF IInv, ChainInv
  <2>2. caller_sp[d] # running BY <2>1, <1>1, Tops
  <2> QED BY <2>1, <2>2, <1>3
<1>10. LandInv' /\ NameInv'
  <2>1. frame'[r].at = "resume" /\ frame'[r].co = running BY <1>1, <1>3, Tops
  <2>2. ASSUME NEW x, x = running PROVE ~ Active(x)'
      BY <2>2, <1>1, <1>4 DEF Active
  <2>3. running' = r OBVIOUS
  <2>4. ~ Active(frame[running].co)' BY <2>1, <2>2, <2>3
  <2> QED BY <2>1, <2>3, <2>4 DEF LandInv, NameInv
<1> QED BY <1>5, <1>6, <1>7, <1>9, <1>10 DEF IInv

\* co_yield parks the running coroutine: g_current names it.
LEMMA YieldKeeps ==
    ASSUME IInv, NEW out \in Values, co_yield(out)
    PROVE  IInv'
<1>1. /\ InUserCode /\ running # Main
      /\ running \in Contexts /\ running \in Coroutines /\ g_current = running
    BY InUser DEF co_yield, Name
<1>2. /\ frame \in [Contexts -> Frames] /\ value \in [Coroutines -> Values]
      /\ done \in [Coroutines -> BOOLEAN]
    BY DEF IInv, TypeOK
<1>3. /\ frame' = [frame EXCEPT ![running] = InYield(running)]
      /\ running' = caller_sp[running]
      /\ sp' = [sp EXCEPT ![running] = running]
      /\ value' = [value EXCEPT ![running] = out]
      /\ UNCHANGED <<g_current, alive, caller_sp, done, self, ret>>
    BY <1>1 DEF co_yield
<1>4. frame'[running] = InYield(running) BY <1>1, <1>2, <1>3
<1>5. value' \in [Coroutines -> Values] BY <1>2, <1>3
<1>6. frame' = [frame EXCEPT ![running] = frame'[running]] BY <1>3, <1>4
<1>7. /\ \A c \in Coroutines : done[c] => done'[c]
      /\ done' \in [Coroutines -> BOOLEAN]
    BY <1>2, <1>3
<1>8. UNCHANGED <<g_current, alive, caller_sp, self, ret>> BY <1>3
<1>9. frame'[running] = InYield(running) \/ (frame'[running] = User /\ done'[running])
    BY <1>4
<1> QED BY <1>1, <1>3, <1>5, <1>6, <1>7, <1>8, <1>9, LeaveKeeps

\* A coroutine ends: the trampoline's local names it.
LEMMA EndKeeps ==
    ASSUME IInv, End
    PROVE  IInv'
<1>1. /\ InUserCode /\ running # Main /\ frame[running] = User
      /\ running \in Contexts /\ running \in Coroutines /\ self[running] = running
    BY InUser DEF End, InUserCode
<1>2. /\ frame \in [Contexts -> Frames] /\ value \in [Coroutines -> Values]
      /\ done \in [Coroutines -> BOOLEAN]
    BY DEF IInv, TypeOK
<1>3. /\ frame' = frame
      /\ running' = caller_sp[running]
      /\ sp' = [sp EXCEPT ![running] = running]
      /\ done' = [done EXCEPT ![running] = TRUE]
      /\ value' = [value EXCEPT ![running] = 0]
      /\ UNCHANGED <<g_current, alive, caller_sp, self, ret>>
    BY <1>1 DEF End
<1>4. frame'[running] = User /\ done'[running] BY <1>1, <1>2, <1>3
<1>5. /\ value' \in [Coroutines -> Values] /\ done' \in [Coroutines -> BOOLEAN]
      /\ \A c \in Coroutines : done[c] => done'[c]
    BY <1>2, <1>3, ContextAssumption
<1>6. frame' = [frame EXCEPT ![running] = frame'[running]] BY <1>2, <1>3
<1> QED BY <1>1, <1>3, <1>4, <1>5, <1>6, LeaveKeeps

\* Destroying an idle coroutine disturbs no other stack.
LEMMA DestroyKeeps ==
    ASSUME IInv, NEW c \in Coroutines, co_destroy(c)
    PROVE  IInv'
<1> USE ContextAssumption
<1>1. /\ c \in alive \ Resumed /\ c # running /\ c # Main /\ c \in Contexts
      /\ frame[c].at # "resume"
    BY Idle DEF co_destroy, Contexts
<1>2. /\ frame' = [frame EXCEPT ![c] = User]
      /\ frame \in [Contexts -> Frames]
      /\ running' = running /\ g_current' = g_current
      /\ alive' = alive \ {c}
      /\ alive \subseteq Coroutines
    BY DEF co_destroy, IInv, TypeOK
<1>3. /\ frame'[c] = User
      /\ \A x \in Contexts : x # c => frame'[x] = frame[x]
    BY <1>1, <1>2
<1>4. TypeOK'
  <2>1. frame' \in [Contexts -> Frames] BY <1>2, UserFrame
  <2> QED BY <1>2, <2>1 DEF IInv, TypeOK, co_destroy, Contexts
<1>5. FrameInv'
    BY <1>3 DEF IInv, FrameInv, ParkedAs, Name
<1>6. AliveInv'
  <2>1. running' \in alive' \cup {Main} BY <1>1, <1>2 DEF IInv, AliveInv
  <2>2. ASSUME NEW d \in alive'
        PROVE  /\ sp'[d] = d
               /\ frame'[d] = User => d = running' \/ done'[d]
               /\ frame'[d] # Trampoline => self'[d] = d
    <3>1. d \in alive /\ d # c /\ d \in Coroutines /\ d \in Contexts
        BY <1>2 DEF Contexts
    <3>2. frame'[d] = frame[d] BY <3>1, <1>3
    <3>3. sp'[d] = sp[d] /\ done'[d] = done[d] /\ self'[d] = self[d]
        BY <3>1 DEF co_destroy, IInv, TypeOK
    <3> QED BY <1>2, <3>1, <3>2, <3>3 DEF IInv, AliveInv
  <2>3. \A d \in Coroutines \ alive' : frame'[d] = User
      BY <1>2, <1>3 DEF IInv, AliveInv, Contexts
  <2> QED BY <2>1, <2>2, <2>3 DEF AliveInv
<1>7. \A d \in Coroutines : Active(d)' => d # c /\ Active(d)
    BY <1>1, <1>2, <1>3, Tops DEF Active, Contexts
<1>8. ChainInv'
  <2> SUFFICES ASSUME NEW d \in Coroutines, Active(d)'
               PROVE  /\ caller_sp'[d] \in Contexts
                      /\ frame'[caller_sp'[d]] = InResume(d, Name(caller_sp'[d]))
      BY DEF ChainInv, Name
  <2>1. d # c /\ Active(d) BY <1>7
  <2>2. caller_sp'[d] = caller_sp[d] BY <2>1 DEF co_destroy, IInv, TypeOK
  <2>3. /\ caller_sp[d] \in Contexts
        /\ frame[caller_sp[d]] = InResume(d, Name(caller_sp[d]))
      BY <2>1 DEF IInv, ChainInv
  <2>4. caller_sp[d] # c BY <2>3, <1>1, Tops
  <2> QED BY <2>2, <2>3, <2>4, <1>3
<1>9. LandInv' /\ NameInv'
  <2>1. frame'[running] = frame[running] /\ frame[running].at = "user"
      BY <1>1, <1>3, InUser DEF co_destroy
  <2> QED BY <1>2, <2>1 DEF IInv, LandInv, NameInv, Name
<1> QED BY <1>4, <1>5, <1>6, <1>8, <1>9 DEF IInv

-----------------------------------------------------------------------------
\* The context that lands, x, goes on in user code under its own name.
LEMMA LandKeeps ==
    ASSUME IInv, NEW x \in Contexts, NEW v \in Values,
           x = running, Land(v),
           frame[x] # User,
           self' = self \/ (x # Main /\ self' = [self EXCEPT ![x] = x]),
           x # Main /\ frame[x] = Trampoline => self'[x] = x,
           g_current' = Name(x)
    PROVE  IInv'
<1> USE ContextAssumption
<1>1. /\ frame' = [frame EXCEPT ![x] = User]
      /\ ret' = [ret EXCEPT ![x] = v]
      /\ UNCHANGED <<running, alive, sp, caller_sp, value, done>>
    BY DEF Land
<1>2. /\ frame \in [Contexts -> Frames] /\ alive \subseteq Coroutines
      /\ self \in [Coroutines -> Coroutines \cup {NULL}]
      /\ ret \in [Contexts -> Values]
    BY DEF IInv, TypeOK
<1>3. /\ frame'[x] = User
      /\ \A y \in Contexts : y # x => frame'[y] = frame[y]
    BY <1>1, <1>2
<1>4. /\ self' \in [Coroutines -> Coroutines \cup {NULL}]
      /\ \A y \in Coroutines : y # x => self'[y] = self[y]
      /\ x # Main => self'[x] = self[x] \/ self'[x] = x
    BY <1>2 DEF Contexts
<1>5. TypeOK'
  <2>1. frame' \in [Contexts -> Frames] BY <1>1, <1>2, UserFrame
  <2>2. ret' \in [Contexts -> Values] BY <1>1, <1>2
  <2>3. g_current' \in Coroutines \cup {NULL} BY DEF Name, Contexts
  <2> QED BY <1>1, <1>4, <2>1, <2>2, <2>3 DEF IInv, TypeOK
<1>6. FrameInv'
    BY <1>3 DEF IInv, FrameInv, ParkedAs, Name
<1>7. AliveInv'
  <2>1. ASSUME NEW c \in alive
        PROVE  /\ sp[c] = c
               /\ frame'[c] = User => c = running \/ done[c]
               /\ frame'[c] # Trampoline => self'[c] = c
    <3>1. c \in Coroutines /\ c \in Contexts /\ c # Main BY <1>2 DEF Contexts
    <3>2. CASE c = x BY <3>1, <3>2, <1>3, <1>4 DEF IInv, AliveInv
    <3>3. CASE c # x BY <3>1, <3>3, <1>3, <1>4 DEF IInv, AliveInv
    <3> QED BY <3>2, <3>3
  <2>2. \A c \in Coroutines \ alive : frame'[c] = User
      BY <1>3 DEF IInv, AliveInv, Contexts
  <2> QED BY <1>1, <2>1, <2>2 DEF IInv, AliveInv
<1>8. ChainInv'
  <2> SUFFICES ASSUME NEW d \in Coroutines, Active(d)'
               PROVE  /\ caller_sp[d] \in Contexts
                      /\ frame'[caller_sp[d]] = InResume(d, Name(caller_sp[d]))
      BY <1>1 DEF ChainInv, Name
  <2>1. Active(d) BY <1>1, <1>3, Tops DEF Active, Contexts
  <2>2. /\ caller_sp[d] \in Contexts
        /\ frame[caller_sp[d]] = InResume(d, Name(caller_sp[d]))
      BY <2>1 DEF IInv, ChainInv
  <2>3. caller_sp[d] # x BY <2>1, <2>2, Tops DEF IInv, LandInv
  <2> QED BY <2>2, <2>3, <1>3
<1>9. LandInv' /\ NameInv'
    BY <1>1, <1>3, Tops DEF LandInv, NameInv, Name
<1> QED BY <1>5, <1>6, <1>7, <1>8, <1>9 DEF IInv

\* A coroutine starts: the trampoline takes its name from g_current.
LEMMA TrampolineKeeps ==
    ASSUME IInv, LandInTrampoline
    PROVE  IInv'
<1>1. /\ running \in Contexts /\ frame[running] = Trampoline
      /\ frame[running].at = "trampoline" /\ frame[running] # User
    BY Tops DEF IInv, TypeOK, LandInTrampoline
<1>2. running # Main /\ running \in Coroutines
    BY <1>1, ByTag DEF IInv, FrameInv, Contexts
<1>3. g_current = running /\ g_current' = Name(running)
    BY <1>1, <1>2 DEF IInv, NameInv, Name, LandInTrampoline
<1>4. /\ ret[running] \in Values
      /\ self' = [self EXCEPT ![running] = running]
      /\ self \in [Coroutines -> Coroutines \cup {NULL}]
      /\ Land(ret[running])
    BY <1>1, <1>3 DEF IInv, TypeOK, LandInTrampoline
<1>5. self'[running] = running BY <1>2, <1>4
<1> QED BY <1>1, <1>2, <1>3, <1>4, <1>5, LandKeeps

\* A resume returns and puts its own name back.
LEMMA InResumeKeeps ==
    ASSUME IInv, LandInResume
    PROVE  IInv'
<1>1. running \in Contexts /\ frame[running].at = "resume"
    BY DEF IInv, TypeOK, LandInResume
<1>2. /\ frame[running].co \in Coroutines /\ frame[running].prev = Name(running)
      /\ frame[running] # User /\ frame[running] # Trampoline
    BY <1>1, ByTag, Tops DEF IInv, FrameInv
<1>3. /\ value[frame[running].co] \in Values
      /\ Land(value[frame[running].co])
      /\ self' = self /\ g_current' = Name(running)
    BY <1>2 DEF IInv, TypeOK, LandInResume
<1> QED BY <1>1, <1>2, <1>3, LandKeeps

\* A yield returns: the resume of this coroutine has set g_current.
LEMMA InYieldKeeps ==
    ASSUME IInv, LandInYield
    PROVE  IInv'
<1>1. running \in Contexts /\ frame[running].at = "yield"
    BY DEF IInv, TypeOK, LandInYield
<1>2. /\ running \in Coroutines /\ frame[running] = InYield(running)
      /\ frame[running].co = running
      /\ frame[running] # User /\ frame[running] # Trampoline
    BY <1>1, ByTag, Tops DEF IInv, FrameInv, Contexts
<1>3. /\ value[running] \in Values
      /\ Land(value[running])
      /\ self' = self /\ g_current' = Name(running)
    BY <1>1, <1>2 DEF IInv, TypeOK, NameInv, LandInYield
<1> QED BY <1>1, <1>2, <1>3, LandKeeps

-----------------------------------------------------------------------------
\* At the start there is only the main program.
THEOREM InitHolds == Init => IInv
<1> SUFFICES ASSUME Init PROVE IInv OBVIOUS
<1> USE ContextAssumption
<1>1. frame = [x \in Contexts |-> User] /\ running = Main /\ alive = {} BY DEF Init
<1>2. \A x \in Contexts : frame[x] = User /\ frame[x].at = "user" BY <1>1, Tops
<1>3. Main \in Contexts /\ Coroutines \subseteq Contexts BY DEF Contexts
<1>4. TypeOK BY <1>3 DEF Init, TypeOK, Frames
<1>5. FrameInv BY <1>2 DEF FrameInv, ParkedAs
<1>6. AliveInv BY <1>1, <1>2, <1>3 DEF AliveInv
<1>7. ChainInv BY <1>1, <1>2, <1>3 DEF ChainInv, Active
<1>8. LandInv /\ NameInv BY <1>1, <1>2, <1>3 DEF Init, LandInv, NameInv, Name
<1> QED BY <1>4, <1>5, <1>6, <1>7, <1>8 DEF IInv

\* Every step keeps the invariant.
THEOREM NextKeeps == IInv /\ [Next]_vars => IInv'
<1> SUFFICES ASSUME IInv, [Next]_vars PROVE IInv' OBVIOUS
<1>1. CASE \E c \in Coroutines : co_create(c) BY <1>1, CreateKeeps
<1>2. CASE \E c \in Coroutines : co_resume_done(c) BY <1>2, ResumeDoneKeeps
<1>3. CASE \E c \in Coroutines : co_destroy(c) BY <1>3, DestroyKeeps
<1>4. CASE \E c \in Coroutines, in \in Values : co_resume(c, in) BY <1>4, ResumeKeeps
<1>5. CASE \E out \in Values : co_yield(out) BY <1>5, YieldKeeps
<1>6. CASE End BY <1>6, EndKeeps
<1>7. CASE LandInTrampoline BY <1>7, TrampolineKeeps
<1>8. CASE LandInResume BY <1>8, InResumeKeeps
<1>9. CASE LandInYield BY <1>9, InYieldKeeps
<1>10. CASE UNCHANGED vars
    BY <1>10 DEF vars, IInv, TypeOK, FrameInv, ParkedAs, AliveInv, ChainInv,
                 LandInv, NameInv, Active, Name
<1> QED BY <1>1, <1>2, <1>3, <1>4, <1>5, <1>6, <1>7, <1>8, <1>9, <1>10 DEF Next

\* Whatever nesting of resumes, yields, ends and destructions came before, user
\* code runs under the name that co_yield and the trampoline use to find what to
\* park (coroutine.c:73-96), and its resumer waits in the resume of it.
THEOREM RunsUnderItsName == Spec => []IdentityAgrees
<1>1. IInv => IdentityAgrees BY InUser DEF IdentityAgrees
<1> QED BY <1>1, InitHolds, NextKeeps, PTL DEF Spec

-----------------------------------------------------------------------------
(***************************************************************************)
(* The refinement.  Status and the abstract chain are read off the stacks  *)
(* by a recursion (Chain).  CInv says that there is a chain: the resumed   *)
(* coroutines, each waiting in the resume of the next, from Main to the    *)
(* one that runs.  The recursion then gives that chain (ResumersAre), and  *)
(* what remains is to follow the chain through each action.                *)
(***************************************************************************)

\* The context below the i+1st member of a chain of resumers.
Below(s, i) == IF i = 0 THEN Main ELSE s[i]

\* s lists the resumed coroutines: each waits in the resume of the next, the last one runs.
IsChain(s) ==
    /\ \A i, j \in 1..Len(s) : s[i] = s[j] => i = j
    /\ Below(s, Len(s)) = running
    /\ \A i \in 1..Len(s) :
        /\ frame[Below(s, i - 1)].at = "resume"
        /\ frame[Below(s, i - 1)].co = s[i]
        /\ caller_sp[s[i]] = Below(s, i - 1)

\* A coroutine that has ended is at the end of its trampoline for good.
DoneInv == \A c \in Coroutines : done[c] => c # running /\ frame[c] = User

CInv == IInv /\ DoneInv /\ \E s \in Seq(Coroutines) : IsChain(s)

\* A chain has no more members than there are coroutines.
LEMMA ChainLength ==
    ASSUME NEW s \in Seq(Coroutines), \A i, j \in 1..Len(s) : s[i] = s[j] => i = j
    PROVE  Len(s) <= Cardinality(Coroutines) /\ Cardinality(Coroutines) \in Nat
<1>1. Len(s) \in Nat /\ s \in [1..Len(s) -> Coroutines] OBVIOUS
<1>2. s \in Injection(1..Len(s), Coroutines)
    BY <1>1 DEF Injection, IsInjective
<1>3. Cardinality(1..Len(s)) <= Cardinality(Coroutines)
    BY <1>2, FinitelyMany, FS_Injection
<1>4. Cardinality(1..Len(s)) = Len(s)
  <2>1. Cardinality(1..Len(s)) = IF 1 > Len(s) THEN 0 ELSE Len(s) - 1 + 1
      BY <1>1, FS_Interval
  <2> QED BY <1>1, <2>1
<1> QED BY <1>3, <1>4, FinitelyMany, FS_CardinalityType

\* The first k members.
LEMMA FirstMembers ==
    ASSUME NEW s \in Seq(Coroutines), NEW k \in 0..Len(s)
    PROVE  /\ SubSeq(s, 1, k) \in Seq(Coroutines)
           /\ Len(SubSeq(s, 1, k)) = k
           /\ \A i \in 1..k : SubSeq(s, 1, k)[i] = s[i]
OBVIOUS

\* The top of the first k members of a chain.
LEMMA TopOfPrefix ==
    ASSUME NEW s \in Seq(Coroutines), NEW k \in 0..Len(s)
    PROVE  Top(SubSeq(s, 1, k)) = Below(s, k)
<1>1. CASE k = 0
  <2>1. SubSeq(s, 1, k) = <<>> BY <1>1
  <2> QED BY <1>1, <2>1 DEF Top, Below
<1>2. CASE k > 0
  <2>1. SubSeq(s, 1, k) # <<>> /\ Len(SubSeq(s, 1, k)) = k /\ SubSeq(s, 1, k)[k] = s[k]
      BY <1>2
  <2> QED BY <1>2, <2>1 DEF Top, Below, Last
<1> QED BY <1>1, <1>2

\* What Chain's defining equation says of a function.
ReadsChain(f, n) ==
    f = [i \in 0..n |->
            IF i = 0 THEN <<>>
            ELSE LET chain == f[i - 1]
                     top == Top(chain)
                 IN IF top = running \/ frame[top].at # "resume" THEN chain
                    ELSE Append(chain, frame[top].co)]

\* The first k members, or all of them.
Prefix(s, k) == IF k <= Len(s) THEN SubSeq(s, 1, k) ELSE s

\* All the members, at the end.
LEMMA WholePrefix ==
    ASSUME NEW s \in Seq(Coroutines), NEW k \in Nat, k >= Len(s)
    PROVE  Prefix(s, k) = s
<1>0. Len(s) \in Nat OBVIOUS
<1>1. s = SubSeq(s, 1, Len(s)) OBVIOUS
<1>2. CASE k = Len(s) BY <1>1, <1>2, Zenon DEF Prefix
<1>3. CASE k # Len(s)
  <2>1. ~(k <= Len(s)) BY <1>0, <1>3
  <2> QED BY <2>1, Zenon DEF Prefix
<1> QED BY <1>2, <1>3

\* The prefixes of the chain satisfy Chain's defining equation.
LEMMA PrefixReads ==
    ASSUME NEW s \in Seq(Coroutines), IsChain(s), NEW k \in Nat
    PROVE  Prefix(s, k + 1) =
              LET chain == Prefix(s, k)
                  top == Top(chain)
              IN IF top = running \/ frame[top].at # "resume" THEN chain
                 ELSE Append(chain, frame[top].co)
<1> USE ContextAssumption
<1>0. Len(s) \in Nat OBVIOUS
<1>1. CASE k < Len(s)
  <2>1. Prefix(s, k) = SubSeq(s, 1, k) /\ Prefix(s, k + 1) = SubSeq(s, 1, k + 1)
      BY <1>1, <1>0 DEF Prefix
  <2>2. Top(Prefix(s, k)) = Below(s, k) BY <2>1, <1>1, <1>0, TopOfPrefix
  <2>3. Below(s, k) # running
    <3>1. Below(s, Len(s)) = s[Len(s)] BY <1>0, <1>1 DEF Below
    <3>2. s[Len(s)] \in Coroutines BY <1>0, <1>1
    <3>3. k # 0 => s[k] # s[Len(s)] BY <1>0, <1>1 DEF IsChain
    <3> QED BY <3>1, <3>2, <3>3 DEF IsChain, Below
  <2>4. frame[Below(s, k)].at = "resume" /\ frame[Below(s, k)].co = s[k + 1]
    <3>1. k + 1 \in 1..Len(s) /\ (k + 1) - 1 = k BY <1>0, <1>1
    <3> QED BY <3>1 DEF IsChain
  <2>5. SubSeq(s, 1, k + 1) = Append(SubSeq(s, 1, k), s[k + 1]) BY <1>0, <1>1
  <2> QED BY <2>1, <2>2, <2>3, <2>4, <2>5
<1>2. CASE k >= Len(s)
  <2>1. s = SubSeq(s, 1, Len(s)) /\ Len(s) \in 0..Len(s) OBVIOUS
  <2>2. Prefix(s, k) = s /\ Prefix(s, k + 1) = s
    <3>1. k + 1 \in Nat /\ k + 1 >= Len(s) BY <1>2, <1>0
    <3> QED BY <1>2, <3>1, WholePrefix
  <2>3. Top(SubSeq(s, 1, Len(s))) = Below(s, Len(s)) BY <2>1, TopOfPrefix
  <2>4. Top(s) = Below(s, Len(s)) BY <2>1, <2>3, Zenon
  <2> QED BY <2>2, <2>4 DEF IsChain
<1> QED BY <1>0, <1>1, <1>2

\* The chain that is read off the stacks is the chain there is.
LEMMA ResumersAre == \A s \in Seq(Coroutines) : IsChain(s) => Resumers = s
<1> SUFFICES ASSUME NEW s \in Seq(Coroutines), IsChain(s) PROVE Resumers = s
    OBVIOUS
<1> DEFINE n == Cardinality(Coroutines)
           p == [k \in 0..n |-> Prefix(s, k)]
<1>1. Len(s) <= n /\ n \in Nat /\ Len(s) \in Nat BY ChainLength DEF IsChain
<1>2. Chain = CHOOSE f : ReadsChain(f, n) BY DEF Chain, ReadsChain
<1> HIDE DEF n
<1>3. Prefix(s, 0) = <<>> BY <1>1 DEF Prefix
<1>4. ReadsChain(p, n)
  <2>1. ASSUME NEW i \in 0..n
        PROVE  p[i] = IF i = 0 THEN <<>>
                      ELSE LET chain == p[i - 1]
                               top == Top(chain)
                           IN IF top = running \/ frame[top].at # "resume" THEN chain
                              ELSE Append(chain, frame[top].co)
    <3>1. CASE i = 0 BY <3>1, <1>3
    <3>2. CASE i # 0
      <4>1. i - 1 \in Nat /\ (i - 1) + 1 = i /\ i - 1 \in 0..n BY <3>2, <1>1
      <4>2. p[i] = Prefix(s, i) /\ p[i - 1] = Prefix(s, i - 1) BY <4>1
      <4> HIDE DEF p
      <4> QED BY <4>1, <4>2, <3>2, PrefixReads
    <3> QED BY <3>1, <3>2
  <2> QED BY <2>1 DEF ReadsChain
<1> HIDE DEF p
<1>5. ReadsChain(Chain, n) BY <1>2, <1>4
<1>6. ASSUME NEW f, ReadsChain(f, n)
      PROVE  \A k \in 0..n : f[k] = Prefix(s, k)
  <2> DEFINE T == {k \in Nat : k <= n => f[k] = Prefix(s, k)}
  <2>1. 0 \in T BY <1>1, <1>3, <1>6 DEF ReadsChain
  <2>2. ASSUME NEW k \in T PROVE k + 1 \in T
    <3> SUFFICES ASSUME k + 1 <= n PROVE f[k + 1] = Prefix(s, k + 1) OBVIOUS
    <3>1. k \in Nat /\ f[k] = Prefix(s, k) /\ k + 1 \in 0..n /\ (k + 1) - 1 = k /\ k + 1 # 0
        BY <1>1
    <3> HIDE DEF T
    <3>2. f[k + 1] = LET chain == f[k]
                         top == Top(chain)
                     IN IF top = running \/ frame[top].at # "resume" THEN chain
                        ELSE Append(chain, frame[top].co)
        BY <3>1, <1>6 DEF ReadsChain
    <3> QED BY <3>1, <3>2, PrefixReads
  <2> HIDE DEF T
  <2>3. T = Nat
    <3>1. T \in SUBSET Nat BY DEF T
    <3> QED BY <2>1, <2>2, <3>1, Upwards
  <2> QED BY <2>3 DEF T
<1>7. Chain[n] = Prefix(s, n) BY <1>1, <1>5, <1>6
<1>8. Prefix(s, n) = s BY <1>1, WholePrefix
<1> QED BY <1>7, <1>8 DEF Resumers, n

-----------------------------------------------------------------------------
\* What Status says of c when s is the chain.
StatusIn(c, s) ==
    CASE c \notin alive -> "none"
      [] c \in Range(s) -> "running"
      [] c \in alive \ Range(s) /\ done[c] -> "done"
      [] c \in alive \ Range(s) /\ ~done[c] /\ frame[c] = Trampoline -> "new"
      [] OTHER -> "suspended"

\* The abstract status of every coroutine, read off the chain there is.
LEMMA StatusIs ==
    \A s \in Seq(Coroutines) : IsChain(s) => Status = [c \in Coroutines |-> StatusIn(c, s)]
<1> SUFFICES ASSUME NEW s \in Seq(Coroutines), IsChain(s)
             PROVE  Status = [c \in Coroutines |-> StatusIn(c, s)]
    OBVIOUS
<1>1. Resumers = s BY ResumersAre
<1> QED BY <1>1 DEF Status, StatusIn

\* The same for the state after a step.
LEMMA After ==
    \A s \in Seq(Coroutines) :
        IsChain(s)' => Resumers' = s /\ Status' = [c \in Coroutines |-> StatusIn(c, s)']
<1> DEFINE Now == \A s \in Seq(Coroutines) :
                    IsChain(s) => Resumers = s /\ Status = [c \in Coroutines |-> StatusIn(c, s)]
<1>1. Now BY ResumersAre, StatusIs
<1>2. Now' BY <1>1, PTL
<1> QED BY <1>2

\* Who stands where: the contexts below the last of the chain wait in a resume,
\* its members are alive and not done.
LEMMA Members ==
    ASSUME IInv, DoneInv, NEW s \in Seq(Coroutines), IsChain(s)
    PROVE  /\ \A i \in 0..Len(s) : Below(s, i) \in Contexts
           /\ \A i \in 1..Len(s) :
                /\ Below(s, i - 1) # running
                /\ frame[Below(s, i - 1)].at = "resume"
                /\ s[i] \in Resumed
                /\ s[i] \in alive /\ ~done[s[i]]
           /\ running = Main <=> s = <<>>
           /\ running # Main => s # <<>> /\ Len(s) \in 1..Len(s) /\ Last(s) = running
<1> USE ContextAssumption
<1>0. Len(s) \in Nat /\ \A i \in 1..Len(s) : s[i] \in Coroutines OBVIOUS
<1>1. \A i \in 0..Len(s) : Below(s, i) \in Contexts BY <1>0 DEF Below, Contexts
<1>2. s # <<>> => Len(s) \in 1..Len(s) /\ Last(s) = running /\ running \in Coroutines
  <2> SUFFICES ASSUME s # <<>> PROVE Len(s) \in 1..Len(s) /\ Last(s) = running /\ running \in Coroutines
      OBVIOUS
  <2>1. Len(s) \in 1..Len(s) /\ Len(s) # 0 OBVIOUS
  <2>2. Below(s, Len(s)) = s[Len(s)] BY <2>1 DEF Below
  <2> QED BY <2>1, <2>2, <1>0 DEF IsChain, Last
<1>3. s = <<>> => running = Main
  <2> SUFFICES ASSUME s = <<>> PROVE running = Main OBVIOUS
  <2>1. Len(s) = 0 OBVIOUS
  <2> QED BY <2>1 DEF IsChain, Below
<1>4. ASSUME NEW i \in 1..Len(s)
      PROVE  /\ Below(s, i - 1) # running
             /\ frame[Below(s, i - 1)].at = "resume"
             /\ s[i] \in Resumed
             /\ s[i] \in alive /\ ~done[s[i]]
  <2>1. i - 1 \in 0..Len(s) /\ s[i] \in Coroutines BY <1>0
  <2>2. /\ frame[Below(s, i - 1)].at = "resume" /\ frame[Below(s, i - 1)].co = s[i]
        /\ Below(s, i - 1) \in Contexts
      BY <1>1, <2>1 DEF IsChain
  <2>3. s[i] \in Resumed BY <2>2 DEF Resumed
  <2>4. s # <<>> /\ Len(s) \in 1..Len(s) /\ running = s[Len(s)] /\ running \in Coroutines
      BY <1>0, <1>2 DEF Last
  <2>5. Below(s, i - 1) # running
    <3>1. CASE i = 1 BY <3>1, <2>4 DEF Below
    <3>2. CASE i # 1
      <4>1. i - 1 \in 1..Len(s) /\ i - 1 # Len(s) /\ i - 1 # 0 BY <3>2, <1>0
      <4>2. s[i - 1] # s[Len(s)] BY <4>1, <2>4 DEF IsChain
      <4> QED BY <4>1, <4>2, <2>4 DEF Below
    <3> QED BY <3>1, <3>2
  <2>6. s[i] = running \/ frame[s[i]].at = "resume"
    <3>1. CASE i = Len(s) BY <3>1, <2>4
    <3>2. CASE i # Len(s)
      <4>1. i + 1 \in 1..Len(s) /\ (i + 1) - 1 = i /\ i # 0 BY <3>2, <1>0
      <4>2. frame[Below(s, i)].at = "resume" BY <4>1 DEF IsChain
      <4> QED BY <4>1, <4>2 DEF Below
    <3> QED BY <3>1, <3>2
  <2>7. s[i] \in alive BY <2>1, <2>4, <2>6, Tops DEF IInv, AliveInv
  <2>8. ~done[s[i]] BY <2>1, <2>6, Tops DEF DoneInv
  <2> QED BY <2>2, <2>3, <2>5, <2>7, <2>8
<1> QED BY <1>1, <1>2, <1>3, <1>4

\* A step that leaves the stacks of the chain alone leaves the chain.
LEMMA ChainKept ==
    ASSUME IInv, DoneInv, NEW s \in Seq(Coroutines), IsChain(s), running' = running,
           \A x \in Contexts : frame[x].at = "resume" /\ x # running => frame'[x] = frame[x],
           \A i \in 1..Len(s) : caller_sp'[s[i]] = caller_sp[s[i]]
    PROVE  IsChain(s)'
<1>1. ASSUME NEW i \in 1..Len(s) PROVE frame'[Below(s, i - 1)] = frame[Below(s, i - 1)]
  <2>1. i - 1 \in 0..Len(s) OBVIOUS
  <2> QED BY <2>1, Members
<1> QED BY <1>1 DEF IsChain, Below

\* co_create
LEMMA CreateMaps ==
    ASSUME IInv, DoneInv, NEW s \in Seq(Coroutines), IsChain(s),
           NEW c \in Coroutines, co_create(c)
    PROVE  DoneInv' /\ IsChain(s)' /\ Abs!ACreate(c)
<1> USE ContextAssumption
<1>1. /\ running \in Contexts /\ c # running /\ c \in Contexts /\ c # Main /\ c \notin alive
      /\ frame[c] = User /\ frame[c].at = "user"
    BY Tops DEF IInv, TypeOK, AliveInv, co_create, Contexts
<1>2. /\ \A x \in Contexts : x # c => frame'[x] = frame[x] /\ ret'[x] = ret[x]
      /\ frame'[c] = Trampoline /\ ret'[c] = 0 /\ ~done'[c]
      /\ \A d \in Coroutines : d # c => /\ caller_sp'[d] = caller_sp[d] /\ value'[d] = value[d]
                                         /\ done'[d] = done[d]
      /\ alive' = alive \cup {c} /\ running' = running
    BY <1>1 DEF IInv, TypeOK, co_create
<1>3. \A i \in 1..Len(s) : s[i] # c /\ s[i] \in Coroutines BY <1>1, Members
<1>4. IsChain(s)' BY <1>1, <1>2, <1>3, Tops, ChainKept
<1>5. DoneInv' BY <1>1, <1>2 DEF DoneInv, Contexts
<1>6. Resumers = s /\ Resumers' = s BY <1>4, ResumersAre, After
<1>7. /\ Status = [d \in Coroutines |-> StatusIn(d, s)]
      /\ Status' = [d \in Coroutines |-> StatusIn(d, s)']
    BY <1>4, StatusIs, After
<1>8. StatusIn(c, s) = "none" /\ StatusIn(c, s)' = "new"
  <2>1. c \notin Range(s) BY <1>3 DEF Range
  <2> QED BY <1>1, <1>2, <2>1 DEF StatusIn
<1>9. \A d \in Coroutines : d # c => StatusIn(d, s)' = StatusIn(d, s)
    BY <1>2 DEF StatusIn, Contexts
<1>10. Received(c)' = 0 BY <1>1, <1>2 DEF Received
<1>11. \A x \in Contexts : x # c => Received(x)' = Received(x)
  <2> SUFFICES ASSUME NEW x \in Contexts, x # c PROVE Received(x)' = Received(x) OBVIOUS
  <2>1. /\ frame[x].at = "yield" => frame[x].co = x /\ x \in Coroutines
        /\ frame[x].at = "resume" => frame[x].co \in Coroutines
      BY ByTag, Tops DEF IInv, FrameInv, Contexts
  <2>2. x = running /\ frame[x].at = "resume" => frame[x].co # c
      BY <1>1, Tops DEF co_create, InUserCode
  <2> QED BY <1>2, <2>1, <2>2 DEF Received
<1>12. Status' = [Status EXCEPT ![c] = "new"] BY <1>7, <1>8, <1>9
<1>13. [x \in Contexts |-> Received(x)]' = [[x \in Contexts |-> Received(x)] EXCEPT ![c] = 0]
    BY <1>10, <1>11
<1> QED BY <1>4, <1>5, <1>6, <1>7, <1>8, <1>12, <1>13 DEF Abs!ACreate

\* The abstract current context is the one that runs.
LEMMA CurrentIs ==
    ASSUME IInv, DoneInv, NEW s \in Seq(Coroutines), IsChain(s)
    PROVE  Abs!Current = running
<1>1. Resumers = s BY ResumersAre
<1> QED BY <1>1, Members DEF Abs!Current, Abs!Last, Last

\* What a context has received, when it is in user code or not the one that runs.
LEMMA ReceivedIs ==
    ASSUME NEW x, x # running \/ frame[x].at = "user"
    PROVE  Received(x) = ret[x]
BY DEF Received

\* co_resume of a coroutine that is done
LEMMA ResumeDoneMaps ==
    ASSUME IInv, DoneInv, NEW s \in Seq(Coroutines), IsChain(s),
           NEW c \in Coroutines, co_resume_done(c)
    PROVE  DoneInv' /\ IsChain(s)' /\ Abs!AResumeDone(c)
<1>1. /\ UNCHANGED <<running, frame, g_current, alive, sp, caller_sp, value, done, self>>
      /\ c \in alive /\ done[c]
      /\ ret' = [ret EXCEPT ![running] = 0]
      /\ ret \in [Contexts -> Values]
    BY DEF co_resume_done, IInv, TypeOK
<1>2. running \in Contexts /\ frame[running].at = "user" /\ frame'[running].at = "user"
    BY <1>1, InUser DEF co_resume_done
<1>3. IsChain(s)' BY <1>1 DEF IsChain, Below
<1>4. DoneInv' BY <1>1 DEF DoneInv
<1>5. Resumers = s /\ Resumers' = s BY <1>3, ResumersAre, After
<1>6. /\ Status = [d \in Coroutines |-> StatusIn(d, s)]
      /\ Status' = [d \in Coroutines |-> StatusIn(d, s)']
    BY <1>3, StatusIs, After
<1>7. \A d \in Coroutines : StatusIn(d, s)' = StatusIn(d, s) BY <1>1 DEF StatusIn
<1>8. StatusIn(c, s) = "done"
  <2>1. c \notin Range(s) BY <1>1, Members DEF Range
  <2> QED BY <1>1, <2>1 DEF StatusIn
<1>9. Received(running)' = 0 BY <1>1, <1>2 DEF Received
<1>10. \A x \in Contexts : x # running => Received(x)' = Received(x)
    BY <1>1 DEF Received
<1>11. [x \in Contexts |-> Received(x)]' = [[x \in Contexts |-> Received(x)] EXCEPT ![running] = 0]
    BY <1>1, <1>2, <1>9, <1>10
<1>12. Status' = Status BY <1>6, <1>7
<1> QED BY <1>3, <1>4, <1>5, <1>6, <1>8, <1>11, <1>12, CurrentIs DEF Abs!AResumeDone

\* co_destroy
LEMMA DestroyMaps ==
    ASSUME IInv, DoneInv, NEW s \in Seq(Coroutines), IsChain(s),
           NEW c \in Coroutines, co_destroy(c)
    PROVE  DoneInv' /\ IsChain(s)' /\ Abs!ADestroy(c)
<1> USE ContextAssumption
<1>1. /\ running \in Contexts /\ c # running /\ c \in Contexts /\ c # Main
      /\ c \in alive \ Resumed /\ frame[c].at # "resume"
    BY Idle DEF IInv, TypeOK, co_destroy, Contexts
<1>2. /\ \A x \in Contexts : x # c => frame'[x] = frame[x] /\ ret'[x] = ret[x]
      /\ frame'[c] = User /\ ret'[c] = 0 /\ ~done'[c]
      /\ \A d \in Coroutines : d # c => /\ caller_sp'[d] = caller_sp[d] /\ value'[d] = value[d]
                                         /\ done'[d] = done[d]
      /\ alive' = alive \ {c} /\ running' = running
    BY <1>1 DEF IInv, TypeOK, co_destroy
<1>3. \A i \in 1..Len(s) : s[i] # c /\ s[i] \in Coroutines BY <1>1, Members
<1>4. IsChain(s)' BY <1>1, <1>2, <1>3, ChainKept
<1>5. DoneInv' BY <1>1, <1>2 DEF DoneInv, Contexts
<1>6. /\ Resumers = s /\ Resumers' = s BY <1>4, ResumersAre, After
<1>7. /\ Status = [d \in Coroutines |-> StatusIn(d, s)]
      /\ Status' = [d \in Coroutines |-> StatusIn(d, s)']
    BY <1>4, StatusIs, After
<1>8. StatusIn(c, s) \in {"new", "suspended", "done"} /\ StatusIn(c, s)' = "none"
  <2>1. c \notin Range(s) BY <1>3 DEF Range
  <2> QED BY <1>1, <1>2, <2>1 DEF StatusIn
<1>9. \A d \in Coroutines : d # c => StatusIn(d, s)' = StatusIn(d, s)
    BY <1>2 DEF StatusIn, Contexts
<1>10. Received(c)' = 0 BY <1>1, <1>2 DEF Received
<1>11. \A x \in Contexts : x # c => Received(x)' = Received(x)
  <2> SUFFICES ASSUME NEW x \in Contexts, x # c PROVE Received(x)' = Received(x) OBVIOUS
  <2>1. x = running => frame[x].at = "user" BY InUser DEF co_destroy
  <2> QED BY <1>2, <2>1 DEF Received
<1>12. Status' = [Status EXCEPT ![c] = "none"] BY <1>7, <1>8, <1>9
<1>13. [x \in Contexts |-> Received(x)]' = [[x \in Contexts |-> Received(x)] EXCEPT ![c] = 0]
    BY <1>10, <1>11
<1> QED BY <1>4, <1>5, <1>6, <1>7, <1>8, <1>12, <1>13 DEF Abs!ADestroy

\* co_resume puts the coroutine on top of the chain.
LEMMA ResumeMaps ==
    ASSUME IInv, DoneInv, NEW s \in Seq(Coroutines), IsChain(s),
           NEW c \in Coroutines, NEW in \in Values, co_resume(c, in)
    PROVE  DoneInv' /\ IsChain(Append(s, c))' /\ Abs!AResume(c, in)
<1> USE ContextAssumption
<1> DEFINE t == Append(s, c)
<1>1. /\ running \in Contexts /\ c # running /\ c \in Contexts /\ c # Main
      /\ c \in alive \ Resumed /\ frame[c].at # "resume" /\ ~done[c] /\ sp[c] = c
      /\ frame[running] = User /\ frame[running].at = "user"
    BY Idle, Tops DEF IInv, TypeOK, AliveInv, co_resume, Contexts, InUserCode
<1>2. /\ \A x \in Contexts : x # running => frame'[x] = frame[x]
      /\ frame'[running] = InResume(c, g_current)
      /\ frame'[running].at = "resume" /\ frame'[running].co = c
      /\ caller_sp'[c] = running /\ value'[c] = in /\ running' = c
      /\ \A d \in Coroutines : d # c => caller_sp'[d] = caller_sp[d]
      /\ UNCHANGED <<alive, done, ret>>
    BY <1>1, Tops DEF IInv, TypeOK, co_resume
<1>3. \A i \in 1..Len(s) : s[i] # c /\ s[i] \in Coroutines BY <1>1, Members
<1>4. /\ t \in Seq(Coroutines) /\ Len(s) \in Nat /\ Len(t) = Len(s) + 1
      /\ t[Len(t)] = c /\ \A i \in 1..Len(s) : t[i] = s[i]
    OBVIOUS
<1> HIDE DEF t
<1>5. IsChain(t)'
  <2>1. ASSUME NEW i \in 1..Len(t), NEW j \in 1..Len(t), t[i] = t[j] PROVE i = j
    <3>1. i \in 1..Len(s) \/ i = Len(t) BY <1>4
    <3>2. j \in 1..Len(s) \/ j = Len(t) BY <1>4
    <3> QED BY <3>1, <3>2, <2>1, <1>3, <1>4 DEF IsChain
  <2>2. Below(t, Len(t)) = running' BY <1>2, <1>4 DEF Below
  <2>3. ASSUME NEW i \in 1..Len(t)
        PROVE  /\ frame'[Below(t, i - 1)].at = "resume"
               /\ frame'[Below(t, i - 1)].co = t[i]
               /\ caller_sp'[t[i]] = Below(t, i - 1)
    <3>1. Below(t, i - 1) = Below(s, i - 1)
      <4>1. i = 1 \/ i - 1 \in 1..Len(s) BY <1>4
      <4> QED BY <4>1, <1>4 DEF Below
    <3>2. CASE i \in 1..Len(s)
      <4>1. i - 1 \in 0..Len(s) BY <3>2
      <4>2. /\ Below(s, i - 1) \in Contexts /\ Below(s, i - 1) # running
          BY <3>2, <4>1, Members
      <4>3. /\ frame[Below(s, i - 1)].at = "resume"
            /\ frame[Below(s, i - 1)].co = s[i]
            /\ caller_sp[s[i]] = Below(s, i - 1)
          BY <3>2 DEF IsChain
      <4> QED BY <3>1, <3>2, <4>2, <4>3, <1>2, <1>3, <1>4
    <3>3. CASE i = Len(t)
      <4>1. i - 1 = Len(s) /\ t[i] = c BY <3>3, <1>4
      <4>2. Below(s, Len(s)) = running BY DEF IsChain
      <4> QED BY <3>1, <4>1, <4>2, <1>2
    <3>4. i \in 1..Len(s) \/ i = Len(t) BY <1>4
    <3> QED BY <3>2, <3>3, <3>4
  <2> QED BY <2>1, <2>2, <2>3 DEF IsChain, Below
<1>6. DoneInv'
  <2> SUFFICES ASSUME NEW d \in Coroutines, done[d] PROVE d # c /\ frame'[d] = User
      BY <1>2 DEF DoneInv
  <2> QED BY <1>1, <1>2 DEF DoneInv, Contexts
<1>7. Resumers = s /\ Resumers' = t BY <1>4, <1>5, ResumersAre, After
<1>8. /\ Status = [d \in Coroutines |-> StatusIn(d, s)]
      /\ Status' = [d \in Coroutines |-> StatusIn(d, t)']
    BY <1>4, <1>5, StatusIs, After
<1>9. Range(t) = Range(s) \cup {c}
  <2>1. DOMAIN t = 1..Len(t) /\ DOMAIN s = 1..Len(s) BY <1>4
  <2>2. \A i \in 1..Len(t) : t[i] \in Range(s) \cup {c}
    <3>1. \A i \in 1..Len(t) : i \in 1..Len(s) \/ i = Len(t) BY <1>4
    <3> QED BY <3>1, <2>1, <1>4 DEF Range
  <2>3. \A i \in 1..Len(s) : s[i] \in Range(t)
    <3>1. \A i \in 1..Len(s) : i \in 1..Len(t) BY <1>4
    <3> QED BY <3>1, <2>1, <1>4 DEF Range
  <2>4. c \in Range(t)
    <3>1. Len(t) \in 1..Len(t) BY <1>4
    <3> QED BY <3>1, <2>1, <1>4 DEF Range
  <2> QED BY <2>1, <2>2, <2>3, <2>4 DEF Range
<1>10. c \notin Range(s) BY <1>3 DEF Range
<1>11. /\ StatusIn(c, s) = IF frame[c] = Trampoline THEN "new" ELSE "suspended"
       /\ StatusIn(c, t)' = "running"
    BY <1>1, <1>2, <1>9, <1>10 DEF StatusIn
<1>12. ASSUME NEW d \in Coroutines, d # c PROVE StatusIn(d, t)' = StatusIn(d, s)
  <2>1. d \in Range(t) <=> d \in Range(s) BY <1>9, <1>12
  <2>2. d = running => d \in Range(s)
    <3> SUFFICES ASSUME d = running PROVE d \in Range(s) OBVIOUS
    <3>1. running # Main OBVIOUS
    <3>2. Len(s) \in 1..Len(s) /\ s[Len(s)] = running BY <3>1, Members DEF Last
    <3> QED BY <3>2 DEF Range
  <2>3. d # running => frame'[d] = frame[d] BY <1>2 DEF Contexts
  <2> QED BY <2>1, <2>2, <2>3, <1>2 DEF StatusIn
<1>13. Received(c)' = IF frame[c] = Trampoline THEN Received(c) ELSE in
  <2>1. frame'[c] = frame[c] /\ Received(c) = ret[c] BY <1>1, <1>2 DEF Received
  <2>2. frame[c] # User BY <1>1 DEF IInv, AliveInv
  <2>3. CASE frame[c] = Trampoline BY <2>1, <2>3, <1>2, Tops DEF Received
  <2>4. CASE frame[c] # Trampoline
    <3>1. frame[c] = InYield(c) BY <2>2, <2>4, <1>1, Tops DEF IInv, FrameInv, ParkedAs
    <3> QED BY <3>1, <2>1, <2>4, <1>2, Tops DEF Received
  <2> QED BY <2>3, <2>4
<1>14. \A x \in Contexts : x # c => Received(x)' = Received(x)
    BY <1>1, <1>2 DEF Received
<1>15. Status' = [Status EXCEPT ![c] = "running"] BY <1>8, <1>11, <1>12
<1>16. ASSUME frame[c] # Trampoline
       PROVE  [x \in Contexts |-> Received(x)]' = [[x \in Contexts |-> Received(x)] EXCEPT ![c] = in]
    BY <1>13, <1>14, <1>16
<1>17. ASSUME frame[c] = Trampoline
       PROVE  [x \in Contexts |-> Received(x)]' = [x \in Contexts |-> Received(x)]
    BY <1>13, <1>14, <1>17
<1>18. Status[c] = IF frame[c] = Trampoline THEN "new" ELSE "suspended" BY <1>8, <1>11
<1> QED BY <1>5, <1>6, <1>7, <1>15, <1>16, <1>17, <1>18 DEF Abs!AResume, t

\* The running coroutine c leaves the chain, by a yield or at its end.
LEMMA LeaveMaps ==
    ASSUME IInv, DoneInv, NEW s \in Seq(Coroutines), IsChain(s),
           NEW c \in Coroutines, c = running, InUserCode, NEW v \in Values, NEW as,
           running' = caller_sp[c], value' = [value EXCEPT ![c] = v],
           UNCHANGED <<ret, alive, caller_sp>>,
           \A x \in Contexts : x # c => frame'[x] = frame[x],
           \A d \in Coroutines : d # c => done'[d] = done[d],
           \/ as = "suspended" /\ ~done'[c] /\ frame'[c] = InYield(c)
           \/ as = "done" /\ done'[c] /\ frame'[c] = User
    PROVE  DoneInv' /\ IsChain(Front(s))' /\ Abs!Leave(as, v)
<1> USE ContextAssumption
<1> DEFINE t == Front(s)
           r == caller_sp[c]
<1>1. /\ c \in Contexts /\ c # Main /\ c \in alive /\ frame[c].at = "user"
      /\ r \in Contexts /\ r # c /\ frame[r] = InResume(c, Name(r))
    BY InUser DEF Contexts
<1>2. frame[r].at = "resume" /\ frame[r].co = c BY <1>1, Tops
<1>3. Len(s) \in 1..Len(s) /\ s # <<>> /\ s[Len(s)] = c BY <1>1, Members DEF Last
<1>4. /\ t \in Seq(Coroutines) /\ Len(t) = Len(s) - 1 /\ Len(t) \in Nat
      /\ \A i \in 1..Len(t) : t[i] = s[i] /\ i \in 1..Len(s)
      /\ \A i \in 1..Len(s) : i \in 1..Len(t) \/ i = Len(s)
  <2> DEFINE n == Len(s)
  <2>1. n \in Nat /\ n \in 1..n BY <1>3
  <2>2. n - 1 \in Nat /\ n - 1 <= n BY <2>1
  <2>3. t = SubSeq(s, 1, n - 1) BY DEF Front
  <2> HIDE DEF t
  <2>4. /\ t \in Seq(Coroutines) /\ Len(t) = n - 1
        /\ \A i \in 1..n - 1 : t[i] = s[i]
    <3>1. n - 1 \in 0..Len(s) BY <2>1
    <3> QED BY <2>3, <3>1, FirstMembers, Zenon
  <2> HIDE DEF n
  <2>5. /\ \A i \in 1..n - 1 : i \in 1..n
        /\ \A i \in 1..n : i \in 1..n - 1 \/ i = n
      BY <2>1
  <2> QED BY <2>2, <2>4, <2>5 DEF n
<1>5. \A i \in 0..Len(t) : Below(t, i) = Below(s, i) BY <1>4 DEF Below
<1>6. Below(s, Len(s) - 1) = r BY <1>3 DEF IsChain
<1>7. Below(t, Len(t)) = r BY <1>4, <1>5, <1>6
<1> HIDE DEF t, r
<1>8. \A i \in 1..Len(t) : s[i] # c BY <1>3, <1>4 DEF IsChain
<1>9. IsChain(t)'
  <2>1. ASSUME NEW i \in 1..Len(t), NEW j \in 1..Len(t), t[i] = t[j] PROVE i = j
      BY <2>1, <1>4 DEF IsChain
  <2>2. Below(t, Len(t)) = running' BY <1>7 DEF r
  <2>3. ASSUME NEW i \in 1..Len(t)
        PROVE  /\ frame'[Below(t, i - 1)].at = "resume"
               /\ frame'[Below(t, i - 1)].co = t[i]
               /\ caller_sp'[t[i]] = Below(t, i - 1)
    <3>1. i \in 1..Len(s) /\ t[i] = s[i] BY <1>4
    <3>2. i - 1 \in 0..Len(t) /\ i - 1 \in 0..Len(s) BY <1>4, <3>1
    <3>3. Below(t, i - 1) = Below(s, i - 1) BY <1>5, <3>2
    <3>4. Below(s, i - 1) \in Contexts /\ Below(s, i - 1) # c BY <3>1, <3>2, Members
    <3> QED BY <3>1, <3>3, <3>4 DEF IsChain
  <2> QED BY <2>1, <2>2, <2>3 DEF IsChain, Below
<1>10. DoneInv'
  <2> SUFFICES ASSUME NEW d \in Coroutines, done'[d] PROVE d # running' /\ frame'[d] = User
      BY DEF DoneInv
  <2>1. running' = r BY DEF r
  <2>2. CASE d = c BY <2>1, <2>2, <1>1, Tops
  <2>3. CASE d # c
    <3>1. frame[d] = User /\ frame'[d] = frame[d] BY <2>3 DEF DoneInv, Contexts
    <3>2. d # r BY <3>1, <1>2, Tops
    <3> QED BY <2>1, <3>1, <3>2
  <2> QED BY <2>2, <2>3
<1>11. Resumers = s /\ Resumers' = t BY <1>4, <1>9, ResumersAre, After
<1>12. /\ Status = [d \in Coroutines |-> StatusIn(d, s)]
       /\ Status' = [d \in Coroutines |-> StatusIn(d, t)']
    BY <1>4, <1>9, StatusIs, After
<1>13. Range(s) = Range(t) \cup {c} /\ c \notin Range(t)
  <2>1. DOMAIN t = 1..Len(t) /\ DOMAIN s = 1..Len(s) BY <1>4
  <2>2. \A i \in 1..Len(s) : s[i] \in Range(t) \cup {c} BY <2>1, <1>3, <1>4 DEF Range
  <2>3. \A i \in 1..Len(t) : t[i] \in Range(s) BY <2>1, <1>4 DEF Range
  <2>4. c \in Range(s) BY <2>1, <1>3 DEF Range
  <2>5. c \notin Range(t) BY <2>1, <1>4, <1>8 DEF Range
  <2> QED BY <2>1, <2>2, <2>3, <2>4, <2>5 DEF Range
<1>14. StatusIn(c, t)' = as
  <2>1. c \in alive' /\ c \notin Range(t) BY <1>1, <1>13
  <2>2. InYield(c) # Trampoline BY Tops
  <2> QED BY <2>1, <2>2 DEF StatusIn
<1>15. ASSUME NEW d \in Coroutines, d # c PROVE StatusIn(d, t)' = StatusIn(d, s)
  <2>1. d \in Range(t) <=> d \in Range(s) BY <1>13, <1>15
  <2>2. frame'[d] = frame[d] /\ done'[d] = done[d] BY <1>15 DEF Contexts
  <2> QED BY <2>1, <2>2 DEF StatusIn
<1>16. Status' = [Status EXCEPT ![c] = as] BY <1>12, <1>14, <1>15
<1>17. Received(r)' = v
  <2>1. running' = r /\ frame'[r] = frame[r] /\ value'[c] = v
      BY <1>1 DEF r, IInv, TypeOK
  <2> QED BY <2>1, <1>2 DEF Received, r
<1>18. \A x \in Contexts : x # r => Received(x)' = Received(x)
    BY <1>1 DEF Received, r
<1>19. [x \in Contexts |-> Received(x)]' = [[x \in Contexts |-> Received(x)] EXCEPT ![r] = v]
    BY <1>17, <1>18, <1>1 DEF r
<1>20. Abs!Resumer = r
  <2>1. CASE Len(s) = 1
    <3>1. Len(s) < 2 /\ Len(s) - 1 = 0 BY <2>1
    <3> QED BY <3>1, <1>6, <1>11 DEF Abs!Resumer, Below
  <2>2. CASE Len(s) # 1
    <3> DEFINE n == Len(s)
    <3>1. n \in 1..n /\ n # 1 /\ n \in Nat BY <1>3, <2>2
    <3> HIDE DEF n
    <3>2. ~(n < 2) /\ n - 1 # 0 BY <3>1
    <3> USE DEF n
    <3> QED BY <3>2, <1>6, <1>11 DEF Abs!Resumer, Below
  <2> QED BY <2>1, <2>2
<1>21. Abs!Current = c BY CurrentIs
<1>22. Resumers' = Front(Resumers) /\ Resumers # <<>> BY <1>3, <1>11 DEF t
<1> QED BY <1>9, <1>10, <1>16, <1>19, <1>20, <1>21, <1>22 DEF Abs!Leave, Abs!Front, Front, t

\* co_yield
LEMMA YieldMaps ==
    ASSUME IInv, DoneInv, NEW s \in Seq(Coroutines), IsChain(s),
           NEW out \in Values, co_yield(out)
    PROVE  DoneInv' /\ IsChain(Front(s))' /\ Abs!Leave("suspended", out)
<1>1. /\ InUserCode /\ running \in Coroutines /\ g_current = running
      /\ frame[running].at = "user" /\ running # Main
    BY InUser DEF co_yield, Name
<1>2. /\ frame' = [frame EXCEPT ![running] = InYield(running)]
      /\ frame \in [Contexts -> Frames] /\ running \in Contexts
      /\ UNCHANGED <<ret, alive, caller_sp, done>>
      /\ running' = caller_sp[running] /\ value' = [value EXCEPT ![running] = out]
    BY <1>1 DEF co_yield, IInv, TypeOK, Contexts
<1>3. ~done[running] BY <1>1 DEF DoneInv
<1>4. /\ \A x \in Contexts : x # running => frame'[x] = frame[x]
      /\ frame'[running] = InYield(running)
    BY <1>2
<1> QED BY <1>1, <1>2, <1>3, <1>4, LeaveMaps

\* The end of a coroutine
LEMMA EndMaps ==
    ASSUME IInv, DoneInv, NEW s \in Seq(Coroutines), IsChain(s), End
    PROVE  DoneInv' /\ IsChain(Front(s))' /\ Abs!Leave("done", 0)
<1>1. /\ InUserCode /\ running \in Coroutines /\ self[running] = running
      /\ frame[running] = User
    BY InUser DEF End, InUserCode
<1>2. /\ done' = [done EXCEPT ![running] = TRUE] /\ done \in [Coroutines -> BOOLEAN]
      /\ UNCHANGED <<ret, alive, caller_sp, frame>>
      /\ running' = caller_sp[running] /\ value' = [value EXCEPT ![running] = 0]
    BY <1>1 DEF End, IInv, TypeOK
<1>3. /\ \A d \in Coroutines : d # running => done'[d] = done[d]
      /\ done'[running]
    BY <1>1, <1>2
<1> QED BY <1>1, <1>2, <1>3, ContextAssumption, LeaveMaps

\* The context that lands received its value when the other side handed it over.
LEMMA LandMaps ==
    ASSUME IInv, DoneInv, NEW s \in Seq(Coroutines), IsChain(s),
           LandInTrampoline \/ LandInResume \/ LandInYield
    PROVE  DoneInv' /\ IsChain(s)' /\ UNCHANGED <<Resumers, Status, [x \in Contexts |-> Received(x)]>>
<1> USE ContextAssumption
<1>1. /\ running \in Contexts /\ frame \in [Contexts -> Frames] /\ ret \in [Contexts -> Values]
    BY DEF IInv, TypeOK
<1>2. PICK v : Land(v) /\ v = Received(running)
    BY Tops DEF LandInTrampoline, LandInResume, LandInYield, Received
<1>3. /\ \A x \in Contexts : x # running => frame'[x] = frame[x] /\ ret'[x] = ret[x]
      /\ frame'[running] = User /\ ret'[running] = v
      /\ UNCHANGED <<running, alive, sp, caller_sp, value, done>>
    BY <1>1, <1>2 DEF Land
<1>4. IsChain(s)' BY <1>3, ChainKept
<1>5. DoneInv' BY <1>3 DEF DoneInv, Contexts
<1>6. Resumers = s /\ Resumers' = s BY <1>4, ResumersAre, After
<1>7. /\ Status = [d \in Coroutines |-> StatusIn(d, s)]
      /\ Status' = [d \in Coroutines |-> StatusIn(d, s)']
    BY <1>4, StatusIs, After
<1>8. ASSUME NEW d \in Coroutines PROVE StatusIn(d, s)' = StatusIn(d, s)
  <2>1. CASE d = running
    <3>1. running # Main BY <2>1
    <3>2. Len(s) \in 1..Len(s) /\ s[Len(s)] = running BY <3>1, Members DEF Last
    <3>3. d \in Range(s) BY <2>1, <3>2 DEF Range
    <3> QED BY <3>3, <1>3 DEF StatusIn
  <2>2. CASE d # running BY <2>2, <1>3 DEF StatusIn, Contexts
  <2> QED BY <2>1, <2>2
<1>9. \A x \in Contexts : Received(x)' = Received(x)
    BY <1>2, <1>3, Tops DEF Received
<1> QED BY <1>4, <1>5, <1>6, <1>7, <1>8, <1>9

-----------------------------------------------------------------------------
\* At the start nobody is resumed.
LEMMA InitMaps == Init => CInv /\ Abs!AInit
<1> SUFFICES ASSUME Init PROVE CInv /\ Abs!AInit OBVIOUS
<1>1. IInv BY InitHolds
<1>2. DoneInv BY DEF Init, DoneInv
<1>3. IsChain(<<>>) BY DEF Init, IsChain, Below
<1>4. <<>> \in Seq(Coroutines) OBVIOUS
<1>5. Resumers = <<>> BY <1>3, <1>4, ResumersAre
<1>6. Status = [c \in Coroutines |-> "none"]
  <2>1. Status = [c \in Coroutines |-> StatusIn(c, <<>>)] BY <1>3, <1>4, StatusIs
  <2>2. alive = {} BY DEF Init
  <2>3. \A c \in Coroutines : StatusIn(c, <<>>) = "none"
    <3> SUFFICES ASSUME NEW c \in Coroutines PROVE StatusIn(c, <<>>) = "none" OBVIOUS
    <3> DEFINE r == Range(<<>>)
    <3>1. c \notin alive /\ ~(c \in alive \ r) BY <2>2
    <3>2. c \notin r BY DEF Range
    <3> HIDE DEF r
    <3>3. StatusIn(c, <<>>) = CASE c \notin alive -> "none"
            [] c \in r -> "running"
            [] c \in alive \ r /\ done[c] -> "done"
            [] c \in alive \ r /\ ~done[c] /\ frame[c] = Trampoline -> "new"
            [] OTHER -> "suspended" BY Zenon DEF StatusIn, r
    <3> QED BY <3>1, <3>2, <3>3
  <2> QED BY <2>1, <2>3
<1>7. [x \in Contexts |-> Received(x)] = [x \in Contexts |-> 0]
  <2>1. \A x \in Contexts : Received(x) = 0 BY Tops DEF Init, Received
  <2> QED BY <2>1
<1> QED BY <1>1, <1>2, <1>3, <1>4, <1>5, <1>6, <1>7 DEF CInv, Abs!AInit, Abs!Contexts, Contexts

\* Every step keeps the chain and is a step of the abstract coroutines or a stutter.
LEMMA NextMaps == CInv /\ [Next]_vars => CInv' /\ [Abs!ANext]_(Abs!aVars)
<1> SUFFICES ASSUME CInv, [Next]_vars PROVE CInv' /\ [Abs!ANext]_(Abs!aVars) OBVIOUS
<1>1. IInv /\ DoneInv BY DEF CInv
<1>2. PICK s \in Seq(Coroutines) : IsChain(s) BY DEF CInv
<1>3. IInv' BY <1>1, NextKeeps
<1>4. running # Main => Front(s) \in Seq(Coroutines) BY <1>1, <1>2, Members DEF Front
<1>5. CASE \E c \in Coroutines : co_create(c)
    BY <1>1, <1>2, <1>3, <1>5, CreateMaps DEF CInv, Abs!ANext
<1>6. CASE \E c \in Coroutines : co_resume_done(c)
    BY <1>1, <1>2, <1>3, <1>6, ResumeDoneMaps DEF CInv, Abs!ANext
<1>7. CASE \E c \in Coroutines : co_destroy(c)
    BY <1>1, <1>2, <1>3, <1>7, DestroyMaps DEF CInv, Abs!ANext
<1>8. CASE \E c \in Coroutines, in \in Values : co_resume(c, in)
  <2>1. PICK c \in Coroutines, in \in Values : co_resume(c, in) BY <1>8
  <2>2. Append(s, c) \in Seq(Coroutines) OBVIOUS
  <2> QED BY <1>1, <1>2, <1>3, <2>1, <2>2, ResumeMaps DEF CInv, Abs!ANext
<1>9. CASE \E out \in Values : co_yield(out)
  <2>1. PICK out \in Values : co_yield(out) BY <1>9
  <2>2. Front(s) \in Seq(Coroutines) BY <1>4, <2>1 DEF co_yield
  <2> QED BY <1>1, <1>2, <1>3, <2>1, <2>2, YieldMaps DEF CInv, Abs!ANext
<1>10. CASE End
  <2>1. Front(s) \in Seq(Coroutines) BY <1>4, <1>10 DEF End
  <2> QED BY <1>1, <1>2, <1>3, <1>10, <2>1, EndMaps DEF CInv, Abs!ANext
<1>11. CASE LandInTrampoline \/ LandInResume \/ LandInYield
    BY <1>1, <1>2, <1>3, <1>11, LandMaps DEF CInv, Abs!aVars
<1>12. CASE UNCHANGED vars
  <2>1. IsChain(s)' BY <1>2, <1>12 DEF vars, IsChain, Below
  <2>2. DoneInv' BY <1>1, <1>12 DEF vars, DoneInv
  <2>3. Resumers = s /\ Resumers' = s BY <1>2, <2>1, ResumersAre, After
  <2>4. Status' = Status BY <1>2, <2>1, <1>12, StatusIs, After DEF vars, StatusIn
  <2>5. \A x \in Contexts : Received(x)' = Received(x) BY <1>12 DEF vars, Received
  <2>6. UNCHANGED <<Resumers, Status, [x \in Contexts |-> Received(x)]>> BY <2>3, <2>4, <2>5
  <2> QED BY <1>3, <2>1, <2>2, <2>6 DEF CInv, Abs!aVars
<1> QED BY <1>5, <1>6, <1>7, <1>8, <1>9, <1>10, <1>11, <1>12 DEF Next

\* Every create, resume, yield, end and destroy of the stacks and switches is the
\* one of coroutine.h, the landings are invisible: control returns to whoever
\* resumed (coroutine.c:80-104) and each side receives what the other handed over.
THEOREM Refinement == Spec => RefinesAbstractCoroutine
<1> QED BY InitMaps, NextMaps, PTL DEF Spec, RefinesAbstractCoroutine, Abs!ASpec

=============================================================================
