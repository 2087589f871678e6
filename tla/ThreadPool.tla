----------------------------- MODULE ThreadPool -----------------------------
(***************************************************************************)
(* The scheduler of CPP-WorkStealing (class ws::ThreadPool): workers that  *)
(* pop their own deque, drain the global queue, steal, or sleep on a       *)
(* condition variable; outside threads (clients) that submit, wait_idle    *)
(* and destroy.  A worker's deque is the abstract one that ChaseLev        *)
(* implements (its operations are indivisible, a steal may fail).          *)
(*                                                                         *)
(* idle_mtx_ is modelled where it matters: a thread that finds nothing to  *)
(* do keeps it from the test of its predicate to the moment it is on the   *)
(* wait set; the other critical sections are short and become one step     *)
(* that needs the mutex free.                                              *)
(***************************************************************************)
EXTENDS Integers, Sequences, FiniteSets, SequencesExt

CONSTANTS
  N,          \* the number of workers
  Clients,    \* threads that are not workers
  Tasks,      \* tasks that get submitted, each once
  None        \* no task, no thread

Workers == 1 .. N       \* by their worker_id_
Threads == Workers \cup Clients

ASSUME NAssumption == N \in Nat \ {0}
ASSUME ThreadsAssumption == Clients \cap Workers = {}
ASSUME NoneAssumption == None \notin Tasks \cup Threads

VARIABLES
  pc,         \* each thread's position in run, enqueue, wait_idle, ~ThreadPool
  task,       \* the task a worker is running
  arg,        \* the task of the thread's submit
  deq,        \* deques_
  gq,         \* gq_
  pending,    \* pending_
  done,       \* done_
  lock,       \* idle_mtx_: the thread holding it
  waiting,    \* threads blocked on idle_cv_
  fresh,      \* tasks not yet submitted
  ran         \* history: how often each task's fn was called

queues == <<deq, gq>>
history == <<fresh, ran>>
vars == <<pc, task, arg, queues, pending, done, lock, waiting, history>>

Init ==
  /\ pc = [u \in Threads |-> IF u \in Workers THEN "loop" ELSE "idle"]
  /\ task = [w \in Workers |-> None]
  /\ arg = [u \in Threads |-> None]
  /\ deq = [w \in Workers |-> <<>>] /\ gq = <<>>
  /\ pending = 0 /\ done = FALSE
  /\ lock = None /\ waiting = {}
  /\ fresh = Tasks /\ ran = [x \in Tasks |-> 0]

Goto(u, l) == pc' = [pc EXCEPT ![u] = l]
Free == lock = None

-----------------------------------------------------------------------------
(* submit and enqueue, by a client or by a task running on a worker.       *)

\* Mutant of Submit: pending_ is not counted up.
SubmitUncounted(u, x) ==
  /\ x \in fresh
  /\ IF u \in Workers THEN pc[u] = "run" ELSE pc[u] = "idle" /\ ~done
  /\ arg' = [arg EXCEPT ![u] = x]
  /\ fresh' = fresh \ {x}
  /\ Goto(u, "enqPush")
  /\ UNCHANGED <<task, queues, pending, done, lock, waiting, ran>>

Submit(u, x) ==
  /\ x \in fresh
  /\ IF u \in Workers THEN pc[u] = "run" ELSE pc[u] = "idle" /\ ~done
  /\ pending' = pending + 1
  /\ arg' = [arg EXCEPT ![u] = x]
  /\ fresh' = fresh \ {x}
  /\ Goto(u, "enqPush")
  /\ UNCHANGED <<task, queues, done, lock, waiting, ran>>

\* worker_id_ >= 0: onto its own deque; otherwise into the global queue.
EnqPush(u) ==
  /\ pc[u] = "enqPush"
  /\ IF u \in Workers
     THEN deq' = [deq EXCEPT ![u] = Append(@, arg[u])] /\ UNCHANGED gq
     ELSE gq' = Append(gq, arg[u]) /\ UNCHANGED deq
  /\ Goto(u, "enqLock")
  /\ UNCHANGED <<task, arg, pending, done, lock, waiting, history>>

\* The empty critical section: nobody is between testing its predicate and waiting.
EnqLock(u) ==
  /\ pc[u] = "enqLock" /\ Free
  /\ Goto(u, "enqNotify")
  /\ UNCHANGED <<task, arg, queues, pending, done, lock, waiting, history>>

\* notify_one wakes any one waiter: a worker, or a client in wait_idle.
EnqNotify(u) ==
  LET return == IF u \in Workers THEN "run" ELSE "idle"
  IN  /\ pc[u] = "enqNotify"
      /\ \/ waiting = {} /\ Goto(u, return) /\ UNCHANGED waiting
         \/ \E v \in waiting : /\ waiting' = waiting \ {v}
                               /\ pc' = [pc EXCEPT ![u] = return, ![v] = "woken"]
      /\ arg' = [arg EXCEPT ![u] = None]
      /\ UNCHANGED <<task, queues, pending, done, lock, history>>

-----------------------------------------------------------------------------
(* run, by worker w.                                                       *)

\* Mutant of Loop: the worker does not look at done_.
LoopForever(w) ==
  /\ pc[w] = "loop"
  /\ Goto(w, "pop")
  /\ UNCHANGED <<task, arg, queues, pending, done, lock, waiting, history>>

Loop(w) ==
  /\ pc[w] = "loop"
  /\ Goto(w, IF done THEN "exit" ELSE "pop")
  /\ UNCHANGED <<task, arg, queues, pending, done, lock, waiting, history>>

Take(w, x) == task' = [task EXCEPT ![w] = x] /\ Goto(w, "run")

\* Mutant of PopOwn: a worker with an empty deque goes stealing at once.
PopOwnThenSteal(w) ==
  /\ pc[w] = "pop"
  /\ IF deq[w] = <<>>
     THEN Goto(w, "steal") /\ UNCHANGED <<task, deq>>
     ELSE Take(w, Last(deq[w])) /\ deq' = [deq EXCEPT ![w] = Front(@)]
  /\ UNCHANGED <<arg, gq, pending, done, lock, waiting, history>>

PopOwn(w) ==
  /\ pc[w] = "pop"
  /\ IF deq[w] = <<>>
     THEN Goto(w, "global") /\ UNCHANGED <<task, deq>>
     ELSE Take(w, Last(deq[w])) /\ deq' = [deq EXCEPT ![w] = Front(@)]
  /\ UNCHANGED <<arg, gq, pending, done, lock, waiting, history>>

TakeGlobal(w) ==
  /\ pc[w] = "global"
  /\ IF gq = <<>>
     THEN Goto(w, "steal") /\ UNCHANGED <<task, gq>>
     ELSE Take(w, Head(gq)) /\ gq' = Tail(gq)
  /\ UNCHANGED <<arg, deq, pending, done, lock, waiting, history>>

StealFromOthers(w) ==
  /\ pc[w] = "steal"
  /\ \E v \in Workers \ {w} :
       /\ deq[v] # <<>>
       /\ Take(w, Head(deq[v])) /\ deq' = [deq EXCEPT ![v] = Tail(@)]
  /\ UNCHANGED <<arg, gq, pending, done, lock, waiting, history>>

\* All 2n random tries picked the thief itself, an empty deque, or lost a race.
StealFail(w) ==
  /\ pc[w] = "steal"
  /\ Goto(w, "sleep")
  /\ UNCHANGED <<task, arg, queues, pending, done, lock, waiting, history>>

\* t->fn() returns.
RunTask(w) ==
  /\ pc[w] = "run"
  /\ ran' = [ran EXCEPT ![task[w]] = @ + 1]
  /\ Goto(w, "ran")
  /\ UNCHANGED <<task, arg, queues, pending, done, lock, waiting, fresh>>

\* Mutant of FetchSub: the value fetch_sub returns is compared with 0.
FetchSubZero(w) ==
  /\ pc[w] = "ran"
  /\ pending' = pending - 1
  /\ task' = [task EXCEPT ![w] = None]
  /\ Goto(w, IF pending = 0 THEN "last" ELSE "loop")
  /\ UNCHANGED <<arg, queues, done, lock, waiting, history>>

FetchSub(w) ==
  /\ pc[w] = "ran"
  /\ pending' = pending - 1
  /\ task' = [task EXCEPT ![w] = None]
  /\ Goto(w, IF pending = 1 THEN "last" ELSE "loop")
  /\ UNCHANGED <<arg, queues, done, lock, waiting, history>>

\* notify_all: every waiter has to test its predicate again.
WakeAll(u, l) ==
  /\ pc' = [v \in Threads |-> IF v = u THEN l ELSE IF v \in waiting THEN "woken" ELSE pc[v]]
  /\ waiting' = {}

\* The last task is done: notify_all under the mutex.
LastNotify(w) ==
  /\ pc[w] = "last" /\ Free
  /\ WakeAll(w, "loop")
  /\ UNCHANGED <<task, arg, queues, pending, done, lock, history>>

\* wait_for's predicate, tested with the mutex held.
SleepTest(w) ==
  /\ pc[w] \in {"sleep", "woken"} /\ Free
  /\ IF done \/ pending > 0
     THEN Goto(w, "loop") /\ UNCHANGED lock
     ELSE Goto(w, "block") /\ lock' = w
  /\ UNCHANGED <<task, arg, queues, pending, done, waiting, history>>

\* The atomic release-and-wait.
Block(u) ==
  /\ pc[u] = "block"
  /\ lock' = None
  /\ waiting' = waiting \cup {u}
  /\ Goto(u, "waiting")
  /\ UNCHANGED <<task, arg, queues, pending, done, history>>

\* The 1 ms of wait_for are over; the mutex is taken again before it returns.
Timeout(w) ==
  /\ pc[w] = "waiting"
  /\ waiting' = waiting \ {w}
  /\ Goto(w, "expired")
  /\ UNCHANGED <<task, arg, queues, pending, done, lock, history>>

Expired(w) ==
  /\ pc[w] = "expired" /\ Free
  /\ Goto(w, "loop")
  /\ UNCHANGED <<task, arg, queues, pending, done, lock, waiting, history>>

-----------------------------------------------------------------------------
(* wait_idle and ~ThreadPool, by client c.                                 *)

WaitIdle(c) ==
  /\ pc[c] = "idle" /\ ~done
  /\ Goto(c, "wait")
  /\ UNCHANGED <<task, arg, queues, pending, done, lock, waiting, history>>

WaitTest(c) ==
  /\ pc[c] \in {"wait", "woken"} /\ Free
  /\ IF pending = 0
     THEN Goto(c, "idle") /\ UNCHANGED lock
     ELSE Goto(c, "block") /\ lock' = c
  /\ UNCHANGED <<task, arg, queues, pending, done, waiting, history>>

\* The pool is destroyed once, when no client is using it.  Tasks may still be
\* queued: the workers leave without draining them.
DtorDone(c) ==
  /\ ~done /\ \A d \in Clients : pc[d] = "idle"
  /\ done' = TRUE
  /\ Goto(c, "dtorLock")
  /\ UNCHANGED <<task, arg, queues, pending, lock, waiting, history>>

DtorLock(c) ==
  /\ pc[c] = "dtorLock" /\ Free
  /\ Goto(c, "dtorNotify")
  /\ UNCHANGED <<task, arg, queues, pending, done, lock, waiting, history>>

DtorNotify(c) ==
  /\ pc[c] = "dtorNotify"
  /\ WakeAll(c, "join")
  /\ UNCHANGED <<task, arg, queues, pending, done, lock, history>>

DtorJoin(c) ==
  /\ pc[c] = "join"
  /\ \A w \in Workers : pc[w] = "exit"
  /\ Goto(c, "idle")
  /\ UNCHANGED <<task, arg, queues, pending, done, lock, waiting, history>>

-----------------------------------------------------------------------------
EnqueueStep(u) == EnqPush(u) \/ EnqLock(u) \/ EnqNotify(u)

RunStep(w) ==
  \/ Loop(w) \/ PopOwn(w) \/ TakeGlobal(w) \/ StealFromOthers(w) \/ StealFail(w)
  \/ RunTask(w) \/ FetchSub(w) \/ LastNotify(w)
  \/ SleepTest(w) \/ Block(w) \/ Timeout(w) \/ Expired(w)

ClientStep(c) == WaitTest(c) \/ Block(c) \/ DtorLock(c) \/ DtorNotify(c) \/ DtorJoin(c)

Next ==
  \/ \E u \in Threads, x \in Tasks : Submit(u, x)
  \/ \E u \in Threads : EnqueueStep(u)
  \/ \E w \in Workers : RunStep(w)
  \/ \E c \in Clients : WaitIdle(c) \/ DtorDone(c) \/ ClientStep(c)

Spec == Init /\ [][Next]_vars

\* Every thread that can run is scheduled, tasks return, timeouts expire, and
\* idle_mtx_, which is held for a few instructions only, is obtained in the end.
\* Nobody has to submit, wait or destroy.
Fairness ==
  /\ \A u \in Threads : SF_vars(EnqueueStep(u))
  /\ \A w \in Workers : SF_vars(RunStep(w))
  /\ \A c \in Clients : SF_vars(ClientStep(c))
FairSpec == Spec /\ Fairness

-----------------------------------------------------------------------------
(* Properties.                                                             *)

\* pending_ = 0, which is what wait_idle returns on, means that every task that
\* was submitted, by clients or by other tasks, has run: it is never 0 while a
\* task is being enqueued, queued, or held by a worker.
IdleMeansDone == pending = 0 => \A x \in Tasks \ fresh : ran[x] = 1

\* Every submitted task is eventually run unless the pool is destroyed first,
\* although notify_one may wake a wait_idle caller instead of a worker and a
\* steal may fail.
EveryTaskRuns == \A x \in Tasks : (x \notin fresh) ~> (ran[x] = 1 \/ done)

\* wait_idle returns.
WaitIdleReturns == \A c \in Clients : (pc[c] = "wait") ~> (pc[c] = "idle")

\* ~ThreadPool returns: every worker sees done_ and is joined, however many tasks
\* are still queued.
DestructorReturns == \A c \in Clients : (pc[c] = "dtorLock") ~> (pc[c] = "idle")
=============================================================================
