-------------------------------- MODULE Signals --------------------------------
(***************************************************************************)
(* Reactive-Signals: signals, computeds and effects.  A write marks the    *)
(* graph (CLEAN, CHECK, DIRTY); a read or the flush of the queued effects  *)
(* then pulls nodes up to date, running their functions, which may write   *)
(* in turn and so start a flush inside a flush.  JavaScript's call stack is*)
(* the variable `stack'; its frames are the calls of updateIfNecessary,    *)
(* update, markStale and flush in progress.                                *)
(* Functions returned by an effect as its cleanup are taken not to use the *)
(* graph, and are left out.                                                *)
(***************************************************************************)
EXTENDS Integers, FiniteSets, Sequences, SequencesExt

CONSTANTS
  Sigs, Computeds, Effects,  \* the nodes of the graph
  Values,                    \* of signals and computeds
  Initial,                   \* the value signals are created with
  Domain(_),                 \* Domain(s): the values the user sets signal s to
  Undefined,                 \* the value of a computed that never ran
  MaxBatch,                  \* bound on the nesting of batch()
  MaxCalls,                  \* bound on the calls the user makes
  Body(_, _, _),             \* Body(n, seen, wrote): what n's function does next,
                             \* having read `seen', and written or not
  Depth(_)                   \* Depth(n): of a computed, over the signals

Reactions == Computeds \cup Effects
Readable == Sigs \cup Computeds
Nodes == Sigs \cup Reactions

ASSUME NodesAssumption ==
  /\ IsFiniteSet(Nodes) /\ Undefined \notin Values \cup Nodes
  /\ Sigs \cap Reactions = {} /\ Computeds \cap Effects = {}
  /\ Initial \in Values /\ \A s \in Sigs : Domain(s) \subseteq Values
  /\ \A n \in Readable : Depth(n) \in Nat

\* The user's functions.  That of a computed reads, tracked, what lies below it, each
\* node once (a second read would give the same), and returns or throws; it depends on
\* nothing else.  That of an effect may also read untracked, read again, and write signals.
ASSUME BodyAssumption ==
  \A n \in Reactions : \A seen \in [Readable -> Values \cup {Undefined}], wrote \in BOOLEAN :
    LET next == Body(n, seen, wrote)
    IN  \/ /\ next.op \in IF n \in Computeds THEN {"read"} ELSE {"read", "peek"}
           /\ next.node \in Readable
           /\ n \in Computeds => seen[next.node] = Undefined /\ Depth(next.node) < Depth(n)
        \/ n \in Effects /\ next.op = "write" /\ next.node \in Sigs /\ next.to \in Values
        \/ next.op = "return" /\ (n \in Computeds => next.to \in Values)
        \/ next.op = "throw"

CLEAN == 0
CHECK == 1
DIRTY == 2

VARIABLES
  value, state,        \* of each node
  sources, observers,  \* of each node, in the order they were added
  pendingEffects, batchDepth,
  stack,               \* the calls in progress, the innermost last
  calls,               \* how many calls the user has made
  life,                \* of each effect: "none", "live" or "disposed"
  saw,                 \* saw[n][m]: what n's last run read from m
  moved,               \* history: reactions with no complete run since a source changed
  lost                 \* history: effects that an exception kept from running

vars == <<value, state, sources, observers, pendingEffects, batchDepth, stack,
          calls, life, saw, moved, lost>>
graph == <<sources, observers>>
history == <<moved, lost>>

\* What a function does next.
ToRead(m) == [op |-> "read", node |-> m, to |-> Undefined]    \* m()
ToPeek(m) == [op |-> "peek", node |-> m, to |-> Undefined]    \* untrack(m), m.peek()
ToWrite(s, v) == [op |-> "write", node |-> s, to |-> v]       \* s.set(v)
ToReturn(v) == [op |-> "return", node |-> Undefined, to |-> v]
ToThrow == [op |-> "throw", node |-> Undefined, to |-> Undefined]

Unread == [m \in Readable |-> Undefined]

\* A call of updateIfNecessary: `left' are the sources still to be checked.
Pull(n) == [call |-> "pull", node |-> n, done |-> FALSE,
            left |-> IF state[n] = CHECK THEN sources[n] ELSE <<>>]
\* A call of update: the function of n runs; `reading' is a read in progress.
Run(n) == [call |-> "run", node |-> n, reading |-> Undefined, wrote |-> FALSE]
\* A call of flush: `left' are the effects it has taken and not come to.
Flush == [call |-> "flush", left |-> <<>>]
\* The calls markStale(colour) of nodes in turn, and of their observers.
Marks(nodes, colour) == [i \in 1 .. Len(nodes) |-> <<nodes[i], colour>>]
Mark(nodes, colour) == [call |-> "mark", left |-> Marks(nodes, colour)]

Top == Last(stack)
Idle == stack = <<>>
In(call) == ~ Idle /\ Top.call = call

\* The innermost call goes on as `frame'; it makes the call `inner'; it returns.
GoesOn(frame) == stack' = [stack EXCEPT ![Len(stack)] = frame]
Calls(frame, inner) == stack' = Append([stack EXCEPT ![Len(stack)] = frame], inner)
Returns == stack' = Front(stack)

\* new Reactive: signals and computeds exist from the start, computeds not run.
Init ==
  /\ value = [n \in Nodes |-> IF n \in Sigs THEN Initial ELSE Undefined]
  /\ state = [n \in Nodes |-> IF n \in Sigs THEN CLEAN ELSE DIRTY]
  /\ sources = [n \in Nodes |-> <<>>] /\ observers = [n \in Nodes |-> <<>>]
  /\ pendingEffects = <<>> /\ batchDepth = 0 /\ stack = <<>> /\ calls = 0
  /\ life = [e \in Effects |-> "none"]
  /\ saw = [n \in Reactions |-> Unread]
  /\ moved = Reactions /\ lost = {}

Add(seq, x) == IF Contains(seq, x) THEN seq ELSE Append(seq, x)
Detached(n) == [m \in Nodes |-> IF Contains(sources[n], m) THEN RemoveFirst(observers[m], n)
                                ELSE observers[m]]

\* The reactions whose last run has read m, tracked.
ReadersOf(m) == {n \in Reactions : Contains(sources[n], m) /\ saw[n][m] # Undefined}

\* flush returns at once inside a batch.
Flushing(below, depth) == IF depth = 0 THEN Append(below, Flush) ELSE below

\* set(): the observers are marked, then comes the flush.
Assign(s, v, below) ==
  /\ value' = [value EXCEPT ![s] = v]
  /\ moved' = moved \cup ReadersOf(s)
  /\ stack' = Append(Flushing(below, batchDepth), Mark(observers[s], DIRTY))

-----------------------------------------------------------------------------
(* Calls of the user, outside every reaction.                              *)

Called == Idle /\ calls < MaxCalls /\ calls' = calls + 1

Set(s, v) ==
  /\ Called
  /\ v # value[s]
  /\ Assign(s, v, stack)
  /\ UNCHANGED <<state, graph, pendingEffects, batchDepth, life, saw, lost>>

\* get() on a computed, with no current reaction to record.
Read(n) ==
  /\ Called
  /\ stack' = <<Pull(n)>>
  /\ UNCHANGED <<value, state, graph, pendingEffects, batchDepth, life, saw, history>>

\* effect(fn): run now, or queued when a batch is open.
CreateEffect(e) ==
  /\ Called
  /\ life[e] = "none"
  /\ life' = [life EXCEPT ![e] = "live"]
  /\ IF batchDepth > 0
     THEN pendingEffects' = Append(pendingEffects, e) /\ stack' = stack
     ELSE pendingEffects' = pendingEffects /\ stack' = <<Pull(e)>>
  /\ UNCHANGED <<value, state, graph, batchDepth, saw, history>>

Dispose(e) ==
  /\ Called
  /\ life[e] = "live"
  /\ life' = [life EXCEPT ![e] = "disposed"]
  /\ observers' = [Detached(e) EXCEPT ![e] = <<>>]
  /\ sources' = [sources EXCEPT ![e] = <<>>]
  /\ state' = [state EXCEPT ![e] = CLEAN]
  /\ UNCHANGED <<value, pendingEffects, batchDepth, stack, saw, history>>

BatchBegin ==
  /\ Called
  /\ batchDepth < MaxBatch
  /\ batchDepth' = batchDepth + 1
  /\ UNCHANGED <<value, state, graph, pendingEffects, stack, life, saw, history>>

BatchEnd ==
  /\ Called
  /\ batchDepth > 0
  /\ batchDepth' = batchDepth - 1
  /\ stack' = Flushing(stack, batchDepth - 1)
  /\ UNCHANGED <<value, state, graph, pendingEffects, life, saw, history>>

-----------------------------------------------------------------------------
(* markStale.                                                              *)

\* Mutant: an effect is queued only when it is found DIRTY.
QueueDirty(n, colour) ==
  pendingEffects' = IF colour = DIRTY /\ n \in Effects THEN Append(pendingEffects, n)
                    ELSE pendingEffects

Queue(n, colour) ==
  pendingEffects' = IF state[n] = CLEAN /\ n \in Effects THEN Append(pendingEffects, n)
                    ELSE pendingEffects

MarkStale ==
  /\ In("mark") /\ Top.left # <<>>
  /\ LET n == Head(Top.left)[1]
         colour == Head(Top.left)[2]
     IN IF state[n] >= colour
        THEN /\ GoesOn([Top EXCEPT !.left = Tail(@)])
             /\ UNCHANGED <<state, pendingEffects>>
        ELSE /\ state' = [state EXCEPT ![n] = colour]
             /\ Queue(n, colour)
             /\ GoesOn([Top EXCEPT !.left = Marks(observers[n], CHECK) \o Tail(@)])
  /\ UNCHANGED <<calls, value, graph, batchDepth, life, saw, history>>

MarkDone ==
  /\ In("mark") /\ Top.left = <<>>
  /\ Returns
  /\ UNCHANGED <<calls, value, state, graph, pendingEffects, batchDepth, life, saw, history>>

-----------------------------------------------------------------------------
(* flush: takes the queue, pulls each effect that is not CLEAN, and looks  *)
(* again.                                                                  *)

FlushTake ==
  /\ In("flush") /\ Top.left = <<>> /\ pendingEffects # <<>>
  /\ GoesOn([Top EXCEPT !.left = pendingEffects])
  /\ pendingEffects' = <<>>
  /\ UNCHANGED <<calls, value, state, graph, batchDepth, life, saw, history>>

FlushNext ==
  /\ In("flush") /\ Top.left # <<>>
  /\ LET e == Head(Top.left)
         rest == [Top EXCEPT !.left = Tail(@)]
     IN IF state[e] # CLEAN THEN Calls(rest, Pull(e)) ELSE GoesOn(rest)
  /\ UNCHANGED <<calls, value, state, graph, pendingEffects, batchDepth, life, saw, history>>

FlushDone ==
  /\ In("flush") /\ Top.left = <<>> /\ pendingEffects = <<>>
  /\ Returns
  /\ UNCHANGED <<calls, value, state, graph, pendingEffects, batchDepth, life, saw, history>>

-----------------------------------------------------------------------------
(* updateIfNecessary.                                                      *)

\* CHECK: bring the next source up to date.
PullSource ==
  /\ In("pull") /\ ~ Top.done
  /\ state[Top.node] = CHECK /\ Top.left # <<>>
  /\ Calls([Top EXCEPT !.left = Tail(@)], Pull(Head(Top.left)))
  /\ UNCHANGED <<calls, value, state, graph, pendingEffects, batchDepth, life, saw, history>>

\* DIRTY: update() detaches the node from its sources and calls its function.
PullUpdate ==
  /\ In("pull") /\ ~ Top.done
  /\ LET n == Top.node
     IN /\ state[n] = DIRTY
        /\ observers' = Detached(n)
        /\ sources' = [sources EXCEPT ![n] = <<>>]
        /\ saw' = [saw EXCEPT ![n] = Unread]
        /\ moved' = moved \ {n}
        /\ Calls([Top EXCEPT !.done = TRUE, !.left = <<>>], Run(n))
  /\ UNCHANGED <<calls, value, state, pendingEffects, batchDepth, life, lost>>

\* Mutant: a node in CHECK trusts its first source.
PullDoneEarly ==
  /\ In("pull")
  /\ Top.done \/ (state[Top.node] # DIRTY /\ Len(Top.left) <= 1)
  /\ state' = [state EXCEPT ![Top.node] = CLEAN]
  /\ Returns
  /\ UNCHANGED <<calls, value, graph, pendingEffects, batchDepth, life, saw, history>>

\* Recomputed, or no source changed.
PullDone ==
  /\ In("pull")
  /\ Top.done \/ (state[Top.node] # DIRTY /\ Top.left = <<>>)
  /\ state' = [state EXCEPT ![Top.node] = CLEAN]
  /\ Returns
  /\ UNCHANGED <<calls, value, graph, pendingEffects, batchDepth, life, saw, history>>

-----------------------------------------------------------------------------
(* The function of the node on top of the stack runs.                      *)

NextOp(frame) == Body(frame.node, saw[frame.node], frame.wrote)
Running(op) == In("run") /\ Top.reading = Undefined /\ NextOp(Top).op = op

\* get(): the edge is recorded, unless untracked, and a computed is pulled.
Reads(m, tracked) ==
  /\ IF tracked
     THEN /\ sources' = [sources EXCEPT ![Top.node] = Add(@, m)]
          /\ observers' = [observers EXCEPT ![m] = Add(@, Top.node)]
     ELSE UNCHANGED graph
  /\ LET here == [Top EXCEPT !.reading = m]
     IN IF m \in Sigs THEN GoesOn(here) ELSE Calls(here, Pull(m))
  /\ saw' = [saw EXCEPT ![Top.node][m] = Undefined]
  /\ UNCHANGED <<calls, value, state, pendingEffects, batchDepth, life, history>>

RunRead == Running("read") /\ Reads(NextOp(Top).node, TRUE)

RunPeek == Running("peek") /\ Reads(NextOp(Top).node, FALSE)

\* get() returns.
RunGets ==
  /\ In("run") /\ Top.reading # Undefined
  /\ saw' = [saw EXCEPT ![Top.node][Top.reading] = value[Top.reading]]
  /\ GoesOn([Top EXCEPT !.reading = Undefined])
  /\ UNCHANGED <<calls, value, state, graph, pendingEffects, batchDepth, life, history>>

\* An effect calls set() on a signal.
RunWrite ==
  /\ Running("write")
  /\ LET s == NextOp(Top).node
         v == NextOp(Top).to
         here == [stack EXCEPT ![Len(stack)].wrote = TRUE]
     IN IF v = value[s]
        THEN stack' = here /\ UNCHANGED <<value, moved>>
        ELSE Assign(s, v, here)
  /\ UNCHANGED <<calls, state, graph, pendingEffects, batchDepth, life, saw, lost>>

\* Mutant: a changed value is not announced to the observers.
ChangedQuietly(n, v) ==
  /\ value' = [value EXCEPT ![n] = v]
  /\ moved' = moved \cup ReadersOf(n)
  /\ UNCHANGED state

\* The function returns; a computed whose value changed makes its observers DIRTY.
Changed(n, v) ==
  /\ value' = [value EXCEPT ![n] = v]
  /\ state' = [m \in Nodes |-> IF Contains(observers[n], m) THEN DIRTY ELSE state[m]]
  /\ moved' = moved \cup ReadersOf(n)

\* Mutant: no equality cutoff, every recomputation makes the observers DIRTY.
KeptDirties ==
  /\ state' = [m \in Nodes |-> IF In("run") /\ Contains(observers[Top.node], m) THEN DIRTY
                               ELSE state[m]]
  /\ UNCHANGED <<value, moved>>

Kept == UNCHANGED <<value, state, moved>>

RunReturn ==
  /\ Running("return")
  /\ LET n == Top.node
         v == NextOp(Top).to
     IN IF n \in Computeds /\ v # value[n] THEN Changed(n, v) ELSE Kept
  /\ Returns
  /\ UNCHANGED <<calls, graph, pendingEffects, batchDepth, life, saw, lost>>

\* The function throws.  Nothing catches it before the user: every call in progress
\* is abandoned, no node it was updating becomes CLEAN, and no effect taken by a
\* flush in progress runs.
RunThrow ==
  /\ Running("throw")
  /\ stack' = <<>>
  /\ LET frames(call) == {i \in DOMAIN stack : stack[i].call = call}
         ran == {stack[i].node : i \in frames("run")}
         pulled == {stack[i].node : i \in frames("pull")}
         taken == UNION {ToSet(stack[i].left) : i \in frames("flush")}
     IN /\ moved' = moved \cup ran
        /\ lost' = lost \cup ((pulled \cup taken) \cap Effects)
  /\ UNCHANGED <<calls, value, state, graph, pendingEffects, batchDepth, life, saw>>

UserStep ==
  \/ \E s \in Sigs : \E v \in Domain(s) : Set(s, v)
  \/ \E n \in Computeds : Read(n)
  \/ \E e \in Effects : CreateEffect(e) \/ Dispose(e)
  \/ BatchBegin \/ BatchEnd

Next ==
  \/ UserStep
  \/ MarkStale \/ MarkDone
  \/ FlushTake \/ FlushNext \/ FlushDone
  \/ PullSource \/ PullUpdate \/ PullDone
  \/ RunRead \/ RunPeek \/ RunGets \/ RunWrite \/ RunReturn \/ RunThrow

Spec == Init /\ [][Next]_vars

-----------------------------------------------------------------------------
(* The reference: what a node is worth when everything it reads is computed*)
(* afresh from the signals.  Undefined when its function throws.           *)

\* One more read of the function of n, when every node m is worth w[m].
After(n, seen, w) ==
  LET next == Body(n, seen, FALSE)
  IN  IF next.op = "read" /\ w[next.node] # Undefined
      THEN [seen EXCEPT ![next.node] = w[next.node]] ELSE seen

\* No function reads more often than there are nodes.
Outcome(n, w) ==
  LET seen[i \in 0 .. Cardinality(Readable)] == IF i = 0 THEN Unread ELSE After(n, seen[i - 1], w)
      last == Body(n, seen[Cardinality(Readable)], FALSE)
  IN  IF last.op = "return" THEN last.to ELSE Undefined

Worth(val) ==
  LET worth[n \in Readable] == IF n \in Sigs THEN val[n] ELSE Outcome(n, worth)
  IN  worth

\* A computed that is CLEAN holds its value as of the latest write, whatever was
\* marked, cut off, detached or abandoned on the way (updateIfNecessary, update).  While
\* a write is still marking, nothing is read.
CleanIsCurrent ==
  ~ In("mark") =>
    \A n \in Computeds : state[n] = CLEAN => value[n] = Worth(value)[n]

\* No function ever reads a value that is not current: a node with two paths to a
\* changed signal never sees one path updated and the other not (the glitch that
\* the header of signals.js rules out).
NoGlitch ==
  [][\A n \in Reactions, m \in Readable :
       (saw'[n][m] # saw[n][m] /\ saw'[n][m] # Undefined)
         => saw'[n][m] = Worth(value')[m]]_vars

\* A function that has run to its end runs again only after a value it read has
\* changed: no redundant work, for the equality cutoff and CHECK included.
NoRedundantRun ==
  [][\A n \in Reactions :
       (Len(stack') > Len(stack) /\ Last(stack').call = "run" /\ Last(stack').node = n)
         => n \in moved]_vars

\* When no call is in progress and no batch is open, every live effect has run on the
\* current values of what it read, except those an exception kept from running
\* (markStale, flush).
EffectsCurrent ==
  (Idle /\ batchDepth = 0) =>
    \A e \in Effects : (life[e] = "live" /\ e \notin lost) =>
      /\ e \notin moved
      /\ \A m \in ToSet(sources[e]) : saw[e][m] = Worth(value)[m]
=============================================================================
