------------------------------- MODULE APromise -------------------------------
(***************************************************************************)
(* Promises-APlus: APromise, its microtasks, and resolvePromise, together  *)
(* with the code that uses them: it creates promises, calls resolve and    *)
(* reject at any time and in any order, registers handlers, and provides   *)
(* foreign thenables whose `then' calls back late, twice, or throws.       *)
(*                                                                         *)
(* JavaScript runs one call at a time, so a step is one call of the API or *)
(* one microtask.  What a handler does through the API is a step of its own*)
(* just before the handler returns.  The promise that `then' returns to    *)
(* resolvePromise, all and race is held by nobody and is left out (next =  *)
(* 0).  catch, finally, resolve and reject are combinations of the others. *)
(***************************************************************************)
EXTENDS Integers, Sequences, FiniteSets

CONSTANTS
  N,            \* bound on the promises created
  Values,       \* values and reasons that are not thenables
  Thenables,    \* objects of other libraries with a `then' method
  TypeError,    \* the reason of a chaining cycle
  None,
  Uses,         \* which of "then", "all" and "race" the user calls
  MaxPairs      \* bound on the pairs of callbacks given to thenables

ASSUME BoundsAssumption == N \in Nat /\ MaxPairs \in Nat

Ids == 1 .. N

VARIABLES
  made,        \* promises 1 .. made exist
  st, val,     \* #state and #value
  callbacks,   \* #callbacks: handlers registered while pending
  queue,       \* the microtask queue
  pairs,       \* pairs of callbacks given to a thenable: [to, from, called]
  agg,         \* agg[p]: the call of all (its items, results, remaining) or race that made p
  parent,      \* history: the promise whose `then' made p, or 0
  asked,       \* history: what p was first asked to become, if it was
  again,       \* history: promises that were asked once more while still pending
  ran          \* history: promises made by `then' whose handler has run

vars == <<made, st, val, callbacks, queue, pairs, agg, parent, asked, again, ran>>
promises == <<st, val, callbacks>>

\* What resolve can be called with: a promise, a foreign thenable, or any value
\* that is neither (an object whose `then' is not a function included).
Promise(p) == [kind |-> "promise", is |-> p]
Foreign(t) == [kind |-> "thenable", is |-> t]
Plain(v) == [kind |-> "plain", is |-> v]
Reasons == {Plain(v) : v \in Values}

Fn(name, to, i) == [fn |-> name, to |-> to, i |-> i]
NoFn == Fn("none", 0, 0)
UserFn == Fn("user", 0, 0)
Handler(onFulfilled, onRejected, next) ==
  [onFulfilled |-> onFulfilled, onRejected |-> onRejected, next |-> next]
Job(handler, state, value) == [handler |-> handler, state |-> state, value |-> value]

Init ==
  /\ made = 0
  /\ st = [p \in Ids |-> "pending"] /\ val = [p \in Ids |-> None]
  /\ callbacks = [p \in Ids |-> <<>>]
  /\ queue = <<>> /\ pairs = <<>>
  /\ agg = [p \in Ids |-> [kind |-> "none"]] /\ parent = [p \in Ids |-> 0]
  /\ asked = [p \in Ids |-> <<>>] /\ again = {} /\ ran = {}

-----------------------------------------------------------------------------
(* Settling and subscribing.  q is the microtask queue before the call, ps *)
(* the pairs of callbacks before it.                                       *)

\* Mutant of Settle: the handlers are scheduled last first.
SettleReversed(p, state, value, q) ==
  LET n == Len(callbacks[p]) IN
  IF st[p] # "pending" THEN queue' = q /\ UNCHANGED promises
  ELSE /\ st' = [st EXCEPT ![p] = state]
       /\ val' = [val EXCEPT ![p] = value]
       /\ callbacks' = [callbacks EXCEPT ![p] = <<>>]
       /\ queue' = q \o [i \in 1 .. n |-> Job(callbacks[p][n + 1 - i], state, value)]

\* #fulfill and #reject, with #flush and #schedule.
Settle(p, state, value, q) ==
  IF st[p] # "pending" THEN queue' = q /\ UNCHANGED promises
  ELSE /\ st' = [st EXCEPT ![p] = state]
       /\ val' = [val EXCEPT ![p] = value]
       /\ callbacks' = [callbacks EXCEPT ![p] = <<>>]
       /\ queue' = q \o [i \in DOMAIN callbacks[p] |-> Job(callbacks[p][i], state, value)]

\* Mutant of Subscribed: a settled promise keeps the handler too.
SubscribedKeeps(s, p, handler) == [s EXCEPT !.callbacks[p] = Append(@, handler)]

\* then: a settled promise schedules the handler, a pending one keeps it.
Subscribed(s, p, handler) ==
  IF st[p] # "pending"
  THEN [s EXCEPT !.queue = Append(@, Job(handler, st[p], val[p]))]
  ELSE [s EXCEPT !.callbacks[p] = Append(@, handler)]

\* then for each item, in turn.
SubscribeEach(items, handlers, q) ==
  LET after[i \in 0 .. Len(items)] ==
        IF i = 0 THEN [callbacks |-> callbacks, queue |-> q]
        ELSE Subscribed(after[i - 1], items[i], handlers[i])
      end == after[Len(items)]
  IN  callbacks' = end.callbacks /\ queue' = end.queue /\ UNCHANGED <<st, val>>

Subscribe(p, handler, q) ==
  LET end == Subscribed([callbacks |-> callbacks, queue |-> q], p, handler)
  IN  callbacks' = end.callbacks /\ queue' = end.queue /\ UNCHANGED <<st, val>>

\* The resolution procedure.  Reading or calling the `then' of a foreign thenable
\* may throw before it has called back.
ResolvePromise(p, x, q, ps) ==
  LET c == Len(ps) + 1
      given == Append(ps, [to |-> p, from |-> x, called |-> FALSE])
  IN  \/ /\ x.kind = "promise" /\ x.is = p
         /\ Settle(p, "rejected", Plain(TypeError), q) /\ pairs' = ps
      \/ /\ x.kind = "promise" /\ x.is # p /\ c <= MaxPairs
         /\ Subscribe(x.is, Handler(Fn("adopt", c, 0), Fn("adopt", c, 0), 0), q)
         /\ pairs' = given
      \/ /\ x.kind = "thenable" /\ c <= MaxPairs /\ pairs' = given
         /\ \/ queue' = q /\ UNCHANGED promises
            \/ \E r \in Reasons : Settle(p, "rejected", r, q)
      \/ /\ x.kind = "plain"
         /\ Settle(p, "fulfilled", x, q) /\ pairs' = ps

\* #resolve
Resolve(p, x, q, ps) ==
  IF st[p] # "pending" THEN queue' = q /\ pairs' = ps /\ UNCHANGED promises
  ELSE ResolvePromise(p, x, q, ps)

Reject(p, r, q) == Settle(p, "rejected", r, q) /\ UNCHANGED pairs

\* What a user or a handler may pass to resolve.
Things ==
  Reasons \cup {Foreign(t) : t \in Thenables} \cup {Promise(p) : p \in 1 .. made}

Ask(p, what) ==
  /\ asked' = [asked EXCEPT ![p] = IF @ = <<>> THEN what ELSE @]
  /\ again' = IF asked[p] # <<>> /\ st[p] = "pending" THEN again \cup {p} ELSE again

-----------------------------------------------------------------------------
(* Calls of the API.                                                       *)

\* new APromise: what the executor does are the steps UserResolve and UserReject.
Create ==
  /\ made < N /\ made' = made + 1
  /\ UNCHANGED <<promises, queue, pairs, agg, parent, asked, again, ran>>

\* The user holds the resolve and reject of the promises made by the constructor, and
\* may call them at any time, after the first time too.
Held(p) == p <= made /\ parent[p] = 0 /\ agg[p].kind = "none"

UserResolve(p, x) ==
  /\ Held(p)
  /\ Resolve(p, x, queue, pairs)
  /\ Ask(p, <<"resolve", x>>)
  /\ UNCHANGED <<made, agg, parent, ran>>

UserReject(p, r) ==
  /\ Held(p)
  /\ Reject(p, r, queue)
  /\ Ask(p, <<"reject", r>>)
  /\ UNCHANGED <<made, agg, parent, ran>>

\* p.then(onFulfilled, onRejected), either of which may be no function.
Then(p, onFulfilled, onRejected) ==
  /\ "then" \in Uses /\ p <= made /\ made < N /\ made' = made + 1
  /\ Subscribe(p, Handler(onFulfilled, onRejected, made + 1), queue)
  /\ parent' = [parent EXCEPT ![made + 1] = p]
  /\ UNCHANGED <<pairs, agg, asked, again, ran>>

\* all: with no item it resolves at once.
All(items) ==
  /\ "all" \in Uses /\ made < N /\ made' = made + 1
  /\ LET p == made + 1 IN
     /\ agg' = [agg EXCEPT ![p] = [kind |-> "all", items |-> items,
          results |-> [i \in DOMAIN items |-> None], remaining |-> Len(items)]]
     /\ IF items = <<>> THEN Resolve(p, Plain(<<>>), queue, pairs)
        ELSE /\ SubscribeEach(items, [i \in DOMAIN items |->
                  Handler(Fn("slot", p, i), Fn("reject", p, 0), 0)], queue)
             /\ UNCHANGED pairs
  /\ UNCHANGED <<parent, asked, again, ran>>

Race(items) ==
  /\ "race" \in Uses /\ made < N /\ made' = made + 1
  /\ LET p == made + 1 IN
     /\ agg' = [agg EXCEPT ![p] = [kind |-> "race", items |-> items]]
     /\ SubscribeEach(items, [i \in DOMAIN items |->
          Handler(Fn("resolve", p, 0), Fn("reject", p, 0), 0)], queue)
  /\ UNCHANGED <<pairs, parent, asked, again, ran>>

-----------------------------------------------------------------------------
(* The first microtask of the queue.                                       *)

RunJob(name) ==
  /\ queue # <<>>
  /\ LET job == Head(queue)
         fn == IF job.state = "fulfilled" THEN job.handler.onFulfilled ELSE job.handler.onRejected
     IN  /\ fn.fn = name
         /\ ran' = ran \cup ({job.handler.next} \ {0})
  /\ UNCHANGED <<made, parent>>

Current == Head(queue)
CurrentFn ==
  IF Current.state = "fulfilled" THEN Current.handler.onFulfilled ELSE Current.handler.onRejected

\* No handler for this outcome: it passes through.
PassThrough ==
  /\ RunJob("none")
  /\ LET next == Current.handler.next IN
     IF Current.state = "fulfilled"
     THEN Resolve(next, Current.value, Tail(queue), pairs) /\ Ask(next, <<"resolve", Current.value>>)
     ELSE Reject(next, Current.value, Tail(queue)) /\ Ask(next, <<"reject", Current.value>>)
  /\ UNCHANGED agg

\* The user's handler returns x, or throws r.
UserReturns(x) ==
  /\ RunJob("user")
  /\ Resolve(Current.handler.next, x, Tail(queue), pairs)
  /\ Ask(Current.handler.next, <<"resolve", x>>)
  /\ UNCHANGED agg

UserThrows(r) ==
  /\ RunJob("user")
  /\ Reject(Current.handler.next, r, Tail(queue))
  /\ Ask(Current.handler.next, <<"reject", r>>)
  /\ UNCHANGED agg

\* Mutant of CallBack: the rejection of the adopted promise fulfils.
CallBackFulfils(c, state, y, q) ==
  IF pairs[c].called THEN queue' = q /\ UNCHANGED <<promises, pairs>>
  ELSE ResolvePromise(pairs[c].to, y, q, [pairs EXCEPT ![c].called = TRUE])

\* A pair of callbacks is called back: the first call counts.
CallBack(c, state, y, q) ==
  IF pairs[c].called THEN queue' = q /\ UNCHANGED <<promises, pairs>>
  ELSE LET ps == [pairs EXCEPT ![c].called = TRUE]
       IN  IF state = "fulfilled" THEN ResolvePromise(pairs[c].to, y, q, ps)
           ELSE Settle(pairs[c].to, "rejected", y, q) /\ pairs' = ps

Adopt ==
  /\ RunJob("adopt")
  /\ CallBack(CurrentFn.to, Current.state, Current.value, Tail(queue))
  /\ UNCHANGED <<agg, asked, again>>

\* Mutants of AllSlot: results in the order of completion; remaining counted
\* one too far.
AllSlotPushes ==
  /\ RunJob("slot")
  /\ LET p == CurrentFn.to
         next == 1 + Cardinality({i \in DOMAIN agg[p].items : agg[p].results[i] # None})
         results == [agg[p].results EXCEPT ![next] = Current.value]
     IN  /\ agg' = [agg EXCEPT ![p].results = results, ![p].remaining = @ - 1]
         /\ IF agg[p].remaining = 1 THEN Resolve(p, Plain(results), Tail(queue), pairs)
            ELSE queue' = Tail(queue) /\ UNCHANGED <<promises, pairs>>
  /\ UNCHANGED <<asked, again>>

AllSlotOffByOne ==
  /\ RunJob("slot")
  /\ LET p == CurrentFn.to
         results == [agg[p].results EXCEPT ![CurrentFn.i] = Current.value]
     IN  /\ agg' = [agg EXCEPT ![p].results = results, ![p].remaining = @ - 1]
         /\ IF agg[p].remaining = 0 THEN Resolve(p, Plain(results), Tail(queue), pairs)
            ELSE queue' = Tail(queue) /\ UNCHANGED <<promises, pairs>>
  /\ UNCHANGED <<asked, again>>

\* The handlers of all: one result is in; the last one resolves.
AllSlot ==
  /\ RunJob("slot")
  /\ LET p == CurrentFn.to
         results == [agg[p].results EXCEPT ![CurrentFn.i] = Current.value]
     IN  /\ agg' = [agg EXCEPT ![p].results = results, ![p].remaining = @ - 1]
         /\ IF agg[p].remaining = 1 THEN Resolve(p, Plain(results), Tail(queue), pairs)
            ELSE queue' = Tail(queue) /\ UNCHANGED <<promises, pairs>>
  /\ UNCHANGED <<asked, again>>

RaceResolve ==
  /\ RunJob("resolve")
  /\ Resolve(CurrentFn.to, Current.value, Tail(queue), pairs)
  /\ UNCHANGED <<agg, asked, again>>

RejectNext ==
  /\ RunJob("reject")
  /\ Reject(CurrentFn.to, Current.value, Tail(queue))
  /\ UNCHANGED <<agg, asked, again>>

\* A foreign thenable calls back, perhaps again, perhaps with another thenable.
ForeignCallBack(c, state, y) ==
  /\ pairs[c].from.kind = "thenable"
  /\ CallBack(c, state, y, queue)
  /\ UNCHANGED <<made, agg, parent, asked, again, ran>>

Microtask ==
  \/ PassThrough \/ Adopt \/ AllSlot \/ RaceResolve \/ RejectNext
  \/ \E x \in Things : UserReturns(x)
  \/ \E r \in Reasons : UserThrows(r)

ItemLists == UNION {[1 .. n -> 1 .. made] : n \in 0 .. 2}

Next ==
  \/ Create
  \/ \E p \in 1 .. made, x \in Things : UserResolve(p, x)
  \/ \E p \in 1 .. made, r \in Reasons : UserReject(p, r)
  \/ \E p \in 1 .. made, f, g \in {NoFn, UserFn} : Then(p, f, g)
  \/ \E items \in ItemLists : All(items) \/ Race(items)
  \/ \E c \in DOMAIN pairs :
       \/ \E y \in Things : ForeignCallBack(c, "fulfilled", y)
       \/ \E r \in Reasons : ForeignCallBack(c, "rejected", r)
  \/ Microtask

Spec == Init /\ [][Next]_vars

\* The event loop runs the microtasks.
FairSpec == Spec /\ WF_vars(Microtask)

-----------------------------------------------------------------------------
(* Properties.                                                             *)

Settled(p) == st[p] # "pending"
IsAll(p) == agg[p].kind = "all"
IsRace(p) == agg[p].kind = "race"

\* The first thing a promise is asked to become is what it becomes: rejected,
\* fulfilled with the value, or whatever the promise it was resolved with became; a
\* resolve or reject of a settled promise is ignored, and so is a second call of a
\* pair of callbacks.  Not claimed of promises in `again': one that is locked in to
\* a pending promise or thenable takes a second resolve or reject, as its state is
\* all that #resolve and #reject look at (promise.js:82, 96), although promise.js:14-16
\* and the test "settle-once: a second resolve or reject is ignored" say otherwise.
FirstResolutionWins ==
  \A p \in Ids \ again : Settled(p) /\ asked[p] # <<>> =>
    LET x == asked[p][2] IN
    IF asked[p][1] = "reject" THEN st[p] = "rejected" /\ val[p] = x
    ELSE CASE x.kind = "plain" -> st[p] = "fulfilled" /\ val[p] = x
           [] x.kind = "promise" /\ x.is = p -> st[p] = "rejected" /\ val[p] = Plain(TypeError)
           [] x.kind = "promise" /\ x.is # p -> st[p] = st[x.is] /\ val[p] = val[x.is]
           [] x.kind = "thenable" -> \E c \in DOMAIN pairs : pairs[c].to = p

\* A handler given to `then' is in exactly one place: with its promise while that
\* is pending, then in one microtask, until it has run; none is lost or doubled.
HandledExactlyOnce ==
  \A q \in 1 .. made : parent[q] # 0 =>
    LET kept == Cardinality({i \in DOMAIN callbacks[parent[q]] : callbacks[parent[q]][i].next = q})
        jobs == Cardinality({i \in DOMAIN queue : queue[i].handler.next = q})
    IN  IF Settled(parent[q])
        THEN kept = 0 /\ jobs = IF q \in ran THEN 0 ELSE 1
        ELSE kept = 1 /\ jobs = 0 /\ q \notin ran

\* The handlers of one promise run in the order in which they were registered,
\* before or after it settled (promises are numbered as they are made).
RunInOrder ==
  [][\A q \in ran' \ ran : \A o \in 1 .. q - 1 : parent[o] = parent[q] => o \in ran]_vars

\* all fulfils with the items' values, in their order, and rejects with the reason
\* of an item; race settles as one of its items did.
CombinatorsMatchItems ==
  \A p \in 1 .. made :
    /\ IsAll(p) /\ st[p] = "fulfilled" =>
         /\ Len(val[p].is) = Len(agg[p].items)
         /\ \A i \in DOMAIN agg[p].items :
              st[agg[p].items[i]] = "fulfilled" /\ val[p].is[i] = val[agg[p].items[i]]
    /\ (IsAll(p) /\ st[p] = "rejected") \/ (IsRace(p) /\ Settled(p)) =>
         \E i \in DOMAIN agg[p].items :
           st[agg[p].items[i]] = st[p] /\ val[agg[p].items[i]] = val[p]

\* The items of all have settled, or one of the items of race, but p has not.
Owes(p) ==
  /\ \/ IsAll(p) /\ \A i \in DOMAIN agg[p].items : Settled(agg[p].items[i])
     \/ IsRace(p) /\ \E i \in DOMAIN agg[p].items : Settled(agg[p].items[i])
  /\ ~Settled(p)

\* all settles when its items have; race settles when one of its items has.  (What is
\* settled stays so: a promise that owed it for ever would do so at any later time.)
CombinatorsSettle == []<>(\A p \in Ids : ~Owes(p))
=============================================================================
