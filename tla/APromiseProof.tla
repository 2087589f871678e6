----------------------------- MODULE APromiseProof -----------------------------
(***************************************************************************)
(* Proofs about APromise, for any bounds on promises and pairs, any values *)
(* and thenables, and any use of then, all and race: each handler of       *)
(* `then' is handled exactly once and in the order of registration, the    *)
(* first resolution of a promise is the one that counts, and all and race  *)
(* settle as their items did.                                              *)
(*                                                                         *)
(* HandledExactlyOnce is not inductive.  That a job runs its handler only  *)
(* once needs that no other list holds the same handler; that a promise    *)
(* which settles schedules all its handlers needs to know what they are;   *)
(* and a handler of all or race must not be taken for one of `then'.       *)
(* GoodInv says                                                            *)
(*  - Kept: a promise keeps only handlers registered with it by `then', by *)
(*    the resolution procedure, or by all and race (HandlerOf), and of     *)
(*    those of `then' only ones that have not run;                         *)
(*  - Scheduled: a job is such a handler, with the state and the value of  *)
(*    the settled promise it was registered with;                          *)
(*  - KeptInOrder and JobsInOrder: handlers of `then' wait in the order in *)
(*    which their promises were made;                                      *)
(*  - NoneForgotten: a handler of `then' waits in one of these places      *)
(*    until it runs, and it runs only if its promise is settled.           *)
(*                                                                         *)
(* The parts are stated of parameters in place of the variables, because   *)
(* an action goes through states of its own: a microtask is taken from     *)
(* the queue before its promise is resolved, all subscribes to one item    *)
(* after another.                                                          *)
(*                                                                         *)
(* FirstResolutionWins speaks of settled promises only.  AskedInv says     *)
(* what became of every request: the promise is settled so, or follows a   *)
(* promise that is pending or has its state, or a thenable was given a     *)
(* pair of callbacks for it, and no pair is given for a promise that was   *)
(* asked something else or nothing.  Of a promise in `again', which was    *)
(* asked once more while it followed another, nothing like it is known;    *)
(* those that follow it do as it does nonetheless, since they wait for its *)
(* settled state, which does not change.                                   *)
(*                                                                         *)
(* CombinatorsMatchItems needs to know why all resolves when remaining     *)
(* comes to 1: CombInv says that the handler of an item waits in one place *)
(* at most, that remaining counts the items whose handler still waits, and *)
(* that the results of the others are their values.  A step moves handlers *)
(* between #callbacks and the queue (Keeps), subscribes new ones, or takes *)
(* one out of the queue.                                                   *)
(***************************************************************************)
EXTENDS APromise, Functions, WellFoundedInduction, SequenceTheorems, FiniteSetTheorems, TLAPS

FnNames == {"none", "user", "adopt", "slot", "resolve", "reject"}
Fns == [fn : FnNames, to : Nat, i : Nat]
Handlers == [onFulfilled : Fns, onRejected : Fns, next : Nat]
States == {"pending", "fulfilled", "rejected"}

\* What the pairs of callbacks may be given to when m promises exist.
Sources(m) == {Promise(p) : p \in 1 .. m} \cup {Foreign(t) : t \in Thenables}
Pairs(m) == [to : 1 .. m, from : Sources(m), called : BOOLEAN]

AdoptHandler(c) == Handler(Fn("adopt", c, 0), Fn("adopt", c, 0), 0)
SlotHandler(a, i) == Handler(Fn("slot", a, i), Fn("reject", a, 0), 0)
RaceHandler(a) == Handler(Fn("resolve", a, 0), Fn("reject", a, 0), 0)

(* The state with parameters for the variables: made, st, val, callbacks, queue, *)
(* pairs, agg, parent, ran.                                                      *)

ThenHandler(p, h, m, pa, rn) ==
  /\ h \in Handlers /\ h.next \in 1 .. m /\ pa[h.next] = p /\ h.next \notin rn
  /\ h.onFulfilled \in {NoFn, UserFn} /\ h.onRejected \in {NoFn, UserFn}

ItemHandler(p, h, m, ag) ==
  \E a \in 1 .. m :
    \/ ag[a].kind = "all" /\ \E i \in DOMAIN ag[a].items : ag[a].items[i] = p /\ h = SlotHandler(a, i)
    \/ ag[a].kind = "race" /\ (\E i \in DOMAIN ag[a].items : ag[a].items[i] = p) /\ h = RaceHandler(a)

\* The handlers that may be registered with p.
HandlerOf(p, h, m, ps, ag, pa, rn) ==
  \/ ThenHandler(p, h, m, pa, rn)
  \/ \E c \in DOMAIN ps : ps[c].from = Promise(p) /\ h = AdoptHandler(c)
  \/ ItemHandler(p, h, m, ag)

\* A job is what a settled promise scheduled.
JobFits(job, m, s, v, ps, ag, pa, rn) ==
  \E p \in 1 .. m : /\ s[p] # "pending"
                    /\ job = Job(job.handler, s[p], v[p])
                    /\ HandlerOf(p, job.handler, m, ps, ag, pa, rn)

\* The queue is a sequence; no set of jobs is named for it.
IsSeq(q) == q \in Seq(Range(q))

Typed(m, s, v, cb, q, ps, ag, pa, rn) ==
  /\ m \in 0 .. N /\ s \in [Ids -> States] /\ DOMAIN v = Ids
  /\ cb \in [Ids -> Seq(Handlers)] /\ IsSeq(q) /\ ps \in Seq(Pairs(m))
  /\ DOMAIN ag = Ids /\ pa \in [Ids -> 0 .. m] /\ rn \subseteq 1 .. m

\* Promises that do not exist yet.
Unmade(m, s, cb, ag, pa) ==
  \A p \in Ids : p > m => s[p] = "pending" /\ cb[p] = <<>> /\ pa[p] = 0 /\ ag[p].kind = "none"

\* The records of all and race.
Combined(m, ag, pa) ==
  \A p \in Ids :
    \/ ag[p].kind = "none"
    \/ /\ ag[p].kind \in {"all", "race"} /\ pa[p] = 0 /\ ag[p].items \in Seq(1 .. m)
       /\ ag[p].kind = "all" => DOMAIN ag[p] = {"kind", "items", "results", "remaining"}

\* A settled promise keeps no handlers, and its value is no thenable.
Settledness(s, v, cb) == \A p \in Ids : s[p] # "pending" => cb[p] = <<>> /\ v[p].kind = "plain"

\* Kept, Scheduled, KeptInOrder, JobsInOrder, NoneForgotten: see above.
Kept(m, cb, ps, ag, pa, rn) ==
  \A p \in Ids : \A i \in 1 .. Len(cb[p]) : HandlerOf(p, cb[p][i], m, ps, ag, pa, rn)

Scheduled(m, s, v, q, ps, ag, pa, rn) ==
  \A i \in 1 .. Len(q) : JobFits(q[i], m, s, v, ps, ag, pa, rn)

KeptInOrder(cb) ==
  \A p \in Ids : \A i, j \in 1 .. Len(cb[p]) :
    i < j /\ cb[p][i].next # 0 /\ cb[p][j].next # 0 => cb[p][i].next < cb[p][j].next

JobsInOrder(q, pa) ==
  \A i, j \in 1 .. Len(q) :
    /\ i < j /\ q[i].handler.next # 0 /\ q[j].handler.next # 0
    /\ pa[q[i].handler.next] = pa[q[j].handler.next]
    => q[i].handler.next < q[j].handler.next

KeptBy(h, p, cb) == \E i \in 1 .. Len(cb[p]) : cb[p][i].next = h
InQueue(h, q) == \E i \in 1 .. Len(q) : q[i].handler.next = h

Placed(h, p, cb, q) == KeptBy(h, p, cb) \/ InQueue(h, q)

NoneForgotten(m, s, cb, q, pa, rn) ==
  /\ \A h \in 1 .. m : pa[h] # 0 /\ h \notin rn => Placed(h, pa[h], cb, q)
  /\ \A h \in rn : pa[h] # 0 /\ s[pa[h]] # "pending"

Fit(m, s, v, cb, q, ps, ag, pa, rn) ==
  /\ Typed(m, s, v, cb, q, ps, ag, pa, rn)
  /\ Unmade(m, s, cb, ag, pa) /\ Combined(m, ag, pa) /\ Settledness(s, v, cb)
  /\ Kept(m, cb, ps, ag, pa, rn) /\ Scheduled(m, s, v, q, ps, ag, pa, rn)
  /\ KeptInOrder(cb) /\ JobsInOrder(q, pa)

Good(m, s, v, cb, q, ps, ag, pa, rn) ==
  Fit(m, s, v, cb, q, ps, ag, pa, rn) /\ NoneForgotten(m, s, cb, q, pa, rn)

GoodInv == Good(made, st, val, callbacks, queue, pairs, agg, parent, ran)

\* The pairs given for p follow from what p was asked.
PairsFit(p) ==
  \A c \in DOMAIN pairs : pairs[c].to = p =>
    /\ asked[p][1] = "resolve"
    /\ LET x == asked[p][2] IN
       x.kind = "thenable" \/ (x.kind = "promise" /\ x.is # p /\ pairs[c].from = x)

\* What p was asked has been done, or is under way.
Met(p) ==
  LET x == asked[p][2] IN
  IF asked[p][1] = "reject" THEN st[p] = "rejected" /\ val[p] = x
  ELSE /\ asked[p][1] = "resolve"
       /\ \/ x.kind = "plain" /\ st[p] = "fulfilled" /\ val[p] = x
          \/ x.kind = "promise" /\ x.is = p /\ st[p] = "rejected" /\ val[p] = Plain(TypeError)
          \/ /\ x.kind = "promise" /\ x.is # p /\ x.is \in 1 .. made
             /\ Settled(p) => Settled(x.is) /\ st[p] = st[x.is] /\ val[p] = val[x.is]
          \/ x.kind = "thenable" /\ \E c \in DOMAIN pairs : pairs[c].to = p

\* A promise that was asked nothing has not been settled by a resolve or reject of its own.
AskedAt(p) ==
  /\ asked[p] = <<>> =>
       /\ agg[p].kind = "none" => st[p] = "pending"
       /\ \A c \in DOMAIN pairs : pairs[c].to # p
       /\ p \notin ran
  /\ asked[p] # <<>> =>
       /\ p \in 1 .. made /\ agg[p].kind = "none" /\ (parent[p] # 0 => p \in ran)
       /\ p \notin again => PairsFit(p) /\ Met(p)

AskedInv == DOMAIN asked = Ids /\ \A p \in Ids : AskedAt(p)

-----------------------------------------------------------------------------
(* Induction: a set that holds zero and all successors is that of the      *)
(* naturals.                                                               *)

\* A set of naturals has a least element.
LEMMA LeastOf ==
  ASSUME NEW T \in SUBSET Nat, T # {}
  PROVE  \E x \in T : \A y \in T : x <= y
<1> DEFINE R == OpToRel(<, Nat)
<1>1. IsWellFoundedOn(R, Nat) BY NatLessThanWellFounded
<1> HIDE DEF R
<1>2. \E x \in T : \A y \in T : <<y, x>> \notin R BY <1>1, WFMin
<1>3. \A x, y \in Nat : y < x => <<y, x>> \in R BY DEF R, OpToRel
<1>4. PICK x \in T : \A y \in T : <<y, x>> \notin R BY <1>2
<1>5. ASSUME NEW y \in T PROVE x <= y
  <2>1. ~(y < x) BY <1>3, <1>4
  <2>2. x \in Int /\ y \in Int OBVIOUS
  <2> QED BY <2>1, <2>2
<1> QED BY <1>5

\* Upwards from 0.
LEMMA Upwards ==
  ASSUME NEW T \in SUBSET Nat, 0 \in T, \A n \in T : n + 1 \in T
  PROVE  T = Nat
<1> SUFFICES ASSUME Nat \ T # {} PROVE FALSE OBVIOUS
<1>1. PICK x \in Nat \ T : \A y \in Nat \ T : x <= y BY LeastOf
<1>2. x - 1 \in T BY <1>1
<1> QED BY <1>1, <1>2

-----------------------------------------------------------------------------
(* Sequences whose elements are anything.                                  *)

\* Any sequence is a sequence of its own elements.
LEMMA SeqIs == ASSUME NEW S, NEW q \in Seq(S) PROVE IsSeq(q)
<1>1. Len(q) \in Nat /\ q \in [1 .. Len(q) -> S] /\ DOMAIN q = 1 .. Len(q) BY LenProperties
<1>2. q \in [1 .. Len(q) -> Range(q)] BY <1>1 DEF Range
<1>3. q \in Seq(Range(q)) BY <1>1, <1>2
<1> QED BY <1>3 DEF IsSeq

\* A sequence over a set is one over a larger set.
LEMMA SeqSubset == ASSUME NEW S, NEW T, S \subseteq T, NEW q \in Seq(S) PROVE q \in Seq(T)
<1>1. Len(q) \in Nat /\ q \in [1 .. Len(q) -> S] BY LenProperties
<1>2. q \in [1 .. Len(q) -> T] BY <1>1
<1> QED BY <1>1, <1>2

\* The length, domain and elements of such a sequence.
LEMMA SeqLen ==
  ASSUME NEW q, IsSeq(q)
  PROVE  Len(q) \in Nat /\ DOMAIN q = 1 .. Len(q) /\ (Len(q) = 0 <=> q = <<>>)
BY LenProperties, EmptySeq DEF IsSeq

\* The empty sequence.
LEMMA SeqEmpty == IsSeq(<<>>) /\ Len(<<>>) = 0
<1>1. <<>> \in Seq({}) /\ Len(<<>>) = 0 OBVIOUS
<1> QED BY <1>1, SeqIs

\* A function on 1 .. n is a sequence of length n.
LEMMA SeqMake ==
  ASSUME NEW n \in Nat, NEW f, f = [i \in 1 .. n |-> f[i]]
  PROVE  IsSeq(f) /\ Len(f) = n
<1>1. f \in Seq({f[i] : i \in 1 .. n}) /\ Len(f) = n BY SMT
<1> QED BY <1>1, SeqIs

\* Concatenation: the elements of the one, then those of the other.
LEMMA SeqCat ==
  ASSUME NEW q, NEW r, IsSeq(q), IsSeq(r)
  PROVE  /\ IsSeq(q \o r) /\ Len(q \o r) = Len(q) + Len(r)
         /\ \A i \in 1 .. Len(q) : (q \o r)[i] = q[i]
         /\ \A j \in 1 .. Len(r) : (q \o r)[Len(q) + j] = r[j]
<1> DEFINE S == Range(q) \cup Range(r)
<1>1. q \in Seq(S) /\ r \in Seq(S)
  <2>1. Len(q) \in Nat /\ q \in [1 .. Len(q) -> Range(q)] BY LenProperties DEF IsSeq
  <2>2. Len(r) \in Nat /\ r \in [1 .. Len(r) -> Range(r)] BY LenProperties DEF IsSeq
  <2>3. q \in [1 .. Len(q) -> S] /\ r \in [1 .. Len(r) -> S] BY <2>1, <2>2
  <2> QED BY <2>1, <2>2, <2>3
<1> HIDE DEF S
<1>2. q \o r \in Seq(S) /\ Len(q \o r) = Len(q) + Len(r) BY <1>1, ConcatProperties
<1>3. \A i \in 1 .. Len(q) + Len(r) : (q \o r)[i] = IF i <= Len(q) THEN q[i] ELSE r[i - Len(q)]
  BY <1>1, ConcatProperties
<1>4. Len(q) \in Nat /\ Len(r) \in Nat BY <1>1, LenProperties
<1>5. ASSUME NEW j \in 1 .. Len(r) PROVE (q \o r)[Len(q) + j] = r[j]
  <2>1. Len(q) + j \in 1 .. Len(q) + Len(r) /\ ~(Len(q) + j <= Len(q)) /\ Len(q) + j - Len(q) = j
    BY <1>4
  <2> QED BY <1>3, <2>1
<1>6. \A i \in 1 .. Len(q) : (q \o r)[i] = q[i] BY <1>3, <1>4
<1> QED BY <1>2, <1>5, <1>6, SeqIs

\* Append: one element more, at the end.
LEMMA SeqAppend ==
  ASSUME NEW q, NEW x, IsSeq(q)
  PROVE  /\ IsSeq(Append(q, x)) /\ Len(Append(q, x)) = Len(q) + 1
         /\ \A i \in 1 .. Len(q) : Append(q, x)[i] = q[i]
         /\ Append(q, x)[Len(q) + 1] = x
<1> DEFINE S == Range(q) \cup {x}
<1>1. q \in Seq(S)
  <2>1. Len(q) \in Nat /\ q \in [1 .. Len(q) -> Range(q)] BY LenProperties DEF IsSeq
  <2>2. q \in [1 .. Len(q) -> S] BY <2>1
  <2> QED BY <2>1, <2>2
<1>2. x \in S OBVIOUS
<1> HIDE DEF S
<1>3. /\ Append(q, x) \in Seq(S) /\ Len(Append(q, x)) = Len(q) + 1
      /\ \A i \in 1 .. Len(q) : Append(q, x)[i] = q[i]
      /\ Append(q, x)[Len(q) + 1] = x
  BY <1>1, <1>2, AppendProperties
<1> QED BY <1>3, SeqIs

\* Tail: every element moves one place to the front.
LEMMA SeqTail ==
  ASSUME NEW q, IsSeq(q), q # <<>>
  PROVE  /\ IsSeq(Tail(q)) /\ Len(q) \in Nat \ {0} /\ Len(Tail(q)) = Len(q) - 1
         /\ Head(q) = q[1]
         /\ \A i \in 1 .. Len(q) - 1 : Tail(q)[i] = q[i + 1]
<1> DEFINE S == Range(q)
<1>1. q \in Seq(S) BY DEF IsSeq
<1> HIDE DEF S
<1>2. Tail(q) \in Seq(S) /\ Len(Tail(q)) = Len(q) - 1
      /\ \A i \in 1 .. Len(q) - 1 : Tail(q)[i] = q[i + 1]
  BY <1>1, HeadTailProperties
<1>3. Len(q) \in Nat \ {0} BY <1>1, EmptySeq
<1>4. Head(q) = q[1] BY <1>1
<1> QED BY <1>2, <1>3, <1>4, SeqIs

-----------------------------------------------------------------------------
(* Handlers and jobs.                                                      *)

\* The handlers that the code registers.
LEMMA FnIn ==
  /\ \A name \in FnNames, to, i \in Nat : Fn(name, to, i) \in Fns
  /\ \A name, to, i : Fn(name, to, i).fn = name /\ Fn(name, to, i).to = to /\ Fn(name, to, i).i = i
BY DEF Fn, Fns

\* What Handler builds is a handler's record.
LEMMA HandlerIn ==
  /\ \A f, g \in Fns, next \in Nat : Handler(f, g, next) \in Handlers
  /\ \A f, g, next : /\ Handler(f, g, next).onFulfilled = f /\ Handler(f, g, next).onRejected = g
                      /\ Handler(f, g, next).next = next
BY DEF Handler, Handlers

\* The handlers of the resolution procedure, all and race belong to no `then'.
LEMMA CodeHandlers ==
  /\ \A c \in Nat : AdoptHandler(c) \in Handlers
  /\ \A a, i \in Nat : SlotHandler(a, i) \in Handlers /\ RaceHandler(a) \in Handlers
<1>1. "adopt" \in FnNames /\ "slot" \in FnNames /\ "reject" \in FnNames /\ "resolve" \in FnNames
  BY DEF FnNames
<1>2. 0 \in Nat OBVIOUS
<1>3. \A c \in Nat : AdoptHandler(c) \in Handlers
  BY <1>1, <1>2, FnIn, HandlerIn DEF AdoptHandler
<1>4. \A a, i \in Nat : SlotHandler(a, i) \in Handlers
  BY <1>1, <1>2, FnIn, HandlerIn DEF SlotHandler
<1>5. \A a \in Nat : RaceHandler(a) \in Handlers
  BY <1>1, <1>2, FnIn, HandlerIn DEF RaceHandler
<1> QED BY <1>3, <1>4, <1>5

\* What a handler is, by what it does.
LEMMA HandlerFacts ==
  ASSUME NEW m, NEW ps, NEW ag, NEW pa, NEW rn, NEW p, NEW h,
         m \in 0 .. N, DOMAIN ps \subseteq Nat, Combined(m, ag, pa),
         HandlerOf(p, h, m, ps, ag, pa, rn)
  PROVE  /\ h \in Handlers
         /\ h.next # 0 => ThenHandler(p, h, m, pa, rn)
         /\ \A fn \in {h.onFulfilled, h.onRejected} :
              /\ fn.fn \in {"none", "user"} => ThenHandler(p, h, m, pa, rn)
              /\ fn.fn = "adopt" =>
                   h.next = 0 /\ fn.to \in DOMAIN ps /\ ps[fn.to].from = Promise(p)
              /\ fn.fn \in {"slot", "resolve", "reject"} =>
                   h.next = 0 /\ fn.to \in 1 .. m /\ ag[fn.to].kind \in {"all", "race"}
              /\ fn.fn = "slot" => ag[fn.to].kind = "all" /\ fn.i \in DOMAIN ag[fn.to].items
              /\ fn.fn = "resolve" => ag[fn.to].kind = "race"
<1>1. CASE ThenHandler(p, h, m, pa, rn)
  <2>1. h.onFulfilled.fn \in {"none", "user"} /\ h.onRejected.fn \in {"none", "user"}
    BY <1>1 DEF ThenHandler, NoFn, UserFn, Fn
  <2> QED BY <1>1, <2>1 DEF ThenHandler
<1>2. CASE \E c \in DOMAIN ps : ps[c].from = Promise(p) /\ h = AdoptHandler(c)
  <2>1. PICK c \in DOMAIN ps : ps[c].from = Promise(p) /\ h = AdoptHandler(c) BY <1>2
  <2>2. c \in Nat OBVIOUS
  <2>3. /\ h.next = 0 /\ h.onFulfilled = Fn("adopt", c, 0) /\ h.onRejected = Fn("adopt", c, 0)
        /\ h \in Handlers
    BY <2>1, <2>2, CodeHandlers, HandlerIn DEF AdoptHandler
  <2>4. Fn("adopt", c, 0).fn = "adopt" /\ Fn("adopt", c, 0).to = c BY FnIn
  <2> QED BY <2>1, <2>3, <2>4
<1>3. CASE ItemHandler(p, h, m, ag)
  <2>1. PICK a \in 1 .. m :
          \/ ag[a].kind = "all" /\ \E i \in DOMAIN ag[a].items : ag[a].items[i] = p /\ h = SlotHandler(a, i)
          \/ ag[a].kind = "race" /\ (\E i \in DOMAIN ag[a].items : ag[a].items[i] = p) /\ h = RaceHandler(a)
    BY <1>3 DEF ItemHandler
  <2>2. a \in Nat /\ a \in Ids BY BoundsAssumption DEF Ids
  <2>3. CASE ag[a].kind = "all" /\ \E i \in DOMAIN ag[a].items : h = SlotHandler(a, i)
    <3>1. PICK i \in DOMAIN ag[a].items : h = SlotHandler(a, i) BY <2>3
    <3>2. ag[a].items \in Seq(1 .. m) BY <2>2, <2>3 DEF Combined
    <3>3. i \in Nat BY <3>2, LenProperties
    <3>4. /\ h.next = 0 /\ h.onFulfilled = Fn("slot", a, i) /\ h.onRejected = Fn("reject", a, 0)
          /\ h \in Handlers
      BY <2>2, <3>1, <3>3, CodeHandlers, HandlerIn DEF SlotHandler
    <3>5. /\ Fn("slot", a, i).fn = "slot" /\ Fn("slot", a, i).to = a /\ Fn("slot", a, i).i = i
          /\ Fn("reject", a, 0).fn = "reject" /\ Fn("reject", a, 0).to = a
      BY FnIn
    <3> QED BY <2>3, <3>4, <3>5
  <2>4. CASE ag[a].kind = "race" /\ h = RaceHandler(a)
    <3>1. /\ h.next = 0 /\ h.onFulfilled = Fn("resolve", a, 0) /\ h.onRejected = Fn("reject", a, 0)
          /\ h \in Handlers
      BY <2>2, <2>4, CodeHandlers, HandlerIn DEF RaceHandler
    <3>2. /\ Fn("resolve", a, 0).fn = "resolve" /\ Fn("resolve", a, 0).to = a
          /\ Fn("reject", a, 0).fn = "reject" /\ Fn("reject", a, 0).to = a
      BY FnIn
    <3> QED BY <2>4, <3>1, <3>2
  <2> QED BY <2>1, <2>3, <2>4
<1> QED BY <1>1, <1>2, <1>3 DEF HandlerOf

\* Good, with more promises, pairs and calls of all and race.
LEMMA Grow ==
  ASSUME NEW m, NEW s, NEW v, NEW cb, NEW q, NEW ps, NEW ag, NEW pa, NEW rn,
         NEW m2, NEW ps2, NEW ag2,
         Good(m, s, v, cb, q, ps, ag, pa, rn),
         m2 \in m .. N, ps2 \in Seq(Pairs(m2)), DOMAIN ag2 = Ids,
         \A c \in DOMAIN ps : c \in DOMAIN ps2 /\ ps2[c].from = ps[c].from,
         \A p \in 1 .. m : /\ ag2[p].kind = ag[p].kind
                           /\ ag[p].kind # "none" => ag2[p].items = ag[p].items,
         \A p \in Ids : p > m2 => ag2[p].kind = "none",
         Combined(m2, ag2, pa)
  PROVE  Good(m2, s, v, cb, q, ps2, ag2, pa, rn)
<1> USE BoundsAssumption
<1>0. m \in 0 .. N /\ m2 \in 0 .. N /\ m <= m2 BY DEF Good, Fit, Typed
<1>1. Typed(m2, s, v, cb, q, ps2, ag2, pa, rn) BY <1>0 DEF Good, Fit, Typed
<1>2. Unmade(m2, s, cb, ag2, pa) BY <1>0 DEF Good, Fit, Unmade, Ids
<1>3. ASSUME NEW p, NEW h, HandlerOf(p, h, m, ps, ag, pa, rn)
      PROVE  HandlerOf(p, h, m2, ps2, ag2, pa, rn)
  <2>1. CASE ThenHandler(p, h, m, pa, rn)
    <3>1. ThenHandler(p, h, m2, pa, rn) BY <1>0, <2>1 DEF ThenHandler
    <3> QED BY <3>1 DEF HandlerOf
  <2>2. CASE \E c \in DOMAIN ps : ps[c].from = Promise(p) /\ h = AdoptHandler(c)
    BY <2>2 DEF HandlerOf
  <2>3. CASE ItemHandler(p, h, m, ag)
    <3>1. PICK a \in 1 .. m :
            \/ ag[a].kind = "all" /\ \E i \in DOMAIN ag[a].items : ag[a].items[i] = p /\ h = SlotHandler(a, i)
            \/ ag[a].kind = "race" /\ (\E i \in DOMAIN ag[a].items : ag[a].items[i] = p) /\ h = RaceHandler(a)
      BY <2>3 DEF ItemHandler
    <3>2. a \in 1 .. m2 /\ ag2[a].kind = ag[a].kind /\ ag2[a].items = ag[a].items BY <1>0, <3>1
    <3>3. ItemHandler(p, h, m2, ag2) BY <3>1, <3>2 DEF ItemHandler
    <3> QED BY <3>3 DEF HandlerOf
  <2> QED BY <1>3, <2>1, <2>2, <2>3 DEF HandlerOf
<1>4. Kept(m2, cb, ps2, ag2, pa, rn) BY <1>3 DEF Good, Fit, Kept
<1>5. Scheduled(m2, s, v, q, ps2, ag2, pa, rn)
  <2> SUFFICES ASSUME NEW i \in 1 .. Len(q) PROVE JobFits(q[i], m2, s, v, ps2, ag2, pa, rn)
    BY DEF Scheduled
  <2>1. JobFits(q[i], m, s, v, ps, ag, pa, rn) BY DEF Good, Fit, Scheduled
  <2>2. PICK p \in 1 .. m : /\ s[p] # "pending" /\ q[i] = Job(q[i].handler, s[p], v[p])
                            /\ HandlerOf(p, q[i].handler, m, ps, ag, pa, rn)
    BY <2>1 DEF JobFits
  <2>3. p \in 1 .. m2 BY <1>0
  <2> QED BY <1>3, <2>2, <2>3 DEF JobFits
<1>6. NoneForgotten(m2, s, cb, q, pa, rn)
  <2>1. \A h \in 1 .. m2 : pa[h] # 0 => h \in 1 .. m
    BY <1>0 DEF Good, Fit, Unmade, Ids
  <2> QED BY <2>1 DEF Good, NoneForgotten, Placed
<1> QED BY <1>1, <1>2, <1>4, <1>5, <1>6 DEF Good, Fit

-----------------------------------------------------------------------------
(* What keeps Good: settling, subscribing, taking a job.                   *)

\* What becomes of the handlers of a promise that settles.
JobsOf(cb, p, state, value) == [i \in DOMAIN cb[p] |-> Job(cb[p][i], state, value)]

\* Settling a promise: its handlers go to the queue.
LEMMA SettleKeeps ==
  ASSUME NEW m, NEW s, NEW v, NEW cb, NEW q, NEW ps, NEW ag, NEW pa, NEW rn,
         NEW p \in 1 .. m, NEW state \in {"fulfilled", "rejected"}, NEW value,
         Good(m, s, v, cb, q, ps, ag, pa, rn), s[p] = "pending", value.kind = "plain"
  PROVE  Good(m, [s EXCEPT ![p] = state], [v EXCEPT ![p] = value], [cb EXCEPT ![p] = <<>>],
              q \o JobsOf(cb, p, state, value), ps, ag, pa, rn)
<1> USE BoundsAssumption
<1> DEFINE n == Len(cb[p])
           jobs == [i \in DOMAIN cb[p] |-> Job(cb[p][i], state, value)]
           s2 == [s EXCEPT ![p] = state]
           v2 == [v EXCEPT ![p] = value]
           cb2 == [cb EXCEPT ![p] = <<>>]
           q2 == q \o jobs
<1>1. /\ m \in 0 .. N /\ p \in Ids /\ s \in [Ids -> States] /\ DOMAIN v = Ids
      /\ cb \in [Ids -> Seq(Handlers)] /\ IsSeq(q) /\ Len(q) \in Nat
      /\ pa \in [Ids -> 0 .. m] /\ rn \subseteq 1 .. m
  BY SeqLen DEF Good, Fit, Typed, Ids
<1>2. /\ n \in Nat /\ DOMAIN cb[p] = 1 .. n /\ IsSeq(jobs) /\ Len(jobs) = n
      /\ \A i \in 1 .. n : jobs[i] = Job(cb[p][i], state, value) /\ jobs[i].handler = cb[p][i]
  <2>1. n \in Nat /\ DOMAIN cb[p] = 1 .. n BY <1>1, LenProperties
  <2>2. \A i \in 1 .. n : jobs[i] = Job(cb[p][i], state, value) BY <2>1
  <2>3. \A h : Job(h, state, value).handler = h BY DEF Job
  <2>4. jobs = [i \in 1 .. n |-> jobs[i]] BY <2>1
  <2>5. IsSeq(jobs) /\ Len(jobs) = n BY <2>1, <2>4, SeqMake
  <2> QED BY <2>1, <2>2, <2>3, <2>5
<1> HIDE DEF jobs, n
<1>3. /\ IsSeq(q2) /\ Len(q2) = Len(q) + n
      /\ \A i \in 1 .. Len(q) : q2[i] = q[i]
      /\ \A j \in 1 .. n : q2[Len(q) + j].handler = cb[p][j]
                           /\ q2[Len(q) + j] = Job(cb[p][j], state, value)
  <2>1. IsSeq(q) /\ IsSeq(jobs) BY <1>1, <1>2
  <2>2. /\ IsSeq(q2) /\ Len(q2) = Len(q) + Len(jobs)
        /\ \A i \in 1 .. Len(q) : q2[i] = q[i]
        /\ \A j \in 1 .. Len(jobs) : q2[Len(q) + j] = jobs[j]
    BY <2>1, SeqCat
  <2> HIDE DEF q2
  <2> QED BY <1>2, <2>2
<1> HIDE DEF q2
<1>4. \A k \in 1 .. Len(q2) : k \in 1 .. Len(q) \/ \E j \in 1 .. n : k = Len(q) + j
  <2> TAKE k \in 1 .. Len(q2)
  <2>1. CASE k <= Len(q) BY <1>1, <1>3, <2>1
  <2>2. CASE ~(k <= Len(q))
    <3>1. k - Len(q) \in 1 .. n /\ k = Len(q) + (k - Len(q)) BY <1>1, <1>2, <1>3, <2>2
    <3> QED BY <3>1
  <2> QED BY <2>1, <2>2
<1>5. /\ s2 \in [Ids -> States] /\ s2[p] = state /\ \A o \in Ids : o # p => s2[o] = s[o]
      /\ DOMAIN v2 = Ids /\ v2[p] = value /\ \A o \in Ids : o # p => v2[o] = v[o]
      /\ cb2 \in [Ids -> Seq(Handlers)] /\ cb2[p] = <<>> /\ \A o \in Ids : o # p => cb2[o] = cb[o]
  BY <1>1 DEF States
<1>5a. s2[p] # "pending" BY <1>5
<1> HIDE DEF s2, v2, cb2
<1>6. Typed(m, s2, v2, cb2, q2, ps, ag, pa, rn)
  BY <1>1, <1>3, <1>5 DEF Good, Fit, Typed
<1>7. Unmade(m, s2, cb2, ag, pa)
  <2>1. ~(p > m) BY <1>1
  <2> QED BY <1>5, <2>1 DEF Good, Fit, Unmade
<1>8. Settledness(s2, v2, cb2) BY <1>5 DEF Good, Fit, Settledness
<1>9. Kept(m, cb2, ps, ag, pa, rn)
  <2> SUFFICES ASSUME NEW o \in Ids, NEW i \in 1 .. Len(cb2[o])
               PROVE  HandlerOf(o, cb2[o][i], m, ps, ag, pa, rn)
    BY DEF Kept
  <2>1. o # p BY <1>5, SeqEmpty
  <2> QED BY <1>5, <2>1 DEF Good, Fit, Kept
<1>10. \A o \in 1 .. m : o \in Ids BY <1>1 DEF Ids
<1>11. ASSUME NEW i \in 1 .. Len(q)
       PROVE  \E o \in 1 .. m : /\ s[o] # "pending" /\ o # p /\ q[i] = Job(q[i].handler, s[o], v[o])
                                /\ HandlerOf(o, q[i].handler, m, ps, ag, pa, rn)
  BY DEF Good, Fit, Scheduled, JobFits
<1>12. Scheduled(m, s2, v2, q2, ps, ag, pa, rn)
  <2> SUFFICES ASSUME NEW k \in 1 .. Len(q2) PROVE JobFits(q2[k], m, s2, v2, ps, ag, pa, rn)
    BY DEF Scheduled
  <2>1. CASE k \in 1 .. Len(q)
    <3>1. PICK o \in 1 .. m : /\ s[o] # "pending" /\ o # p /\ q[k] = Job(q[k].handler, s[o], v[o])
                              /\ HandlerOf(o, q[k].handler, m, ps, ag, pa, rn)
      BY <1>11, <2>1
    <3>2. s2[o] = s[o] /\ v2[o] = v[o] BY <1>5, <1>10, <3>1
    <3>3. q2[k] = q[k] BY <1>3, <2>1
    <3> QED BY <3>1, <3>2, <3>3 DEF JobFits
  <2>2. CASE \E j \in 1 .. n : k = Len(q) + j
    <3>1. PICK j \in 1 .. n : k = Len(q) + j BY <2>2
    <3>2. q2[k].handler = cb[p][j] /\ q2[k] = Job(cb[p][j], state, value) BY <1>3, <3>1
    <3>3. HandlerOf(p, cb[p][j], m, ps, ag, pa, rn) BY <1>1, <3>1 DEF Good, Fit, Kept, n
    <3> QED BY <1>5, <1>5a, <3>2, <3>3 DEF JobFits
  <2> QED BY <1>4, <2>1, <2>2
<1>13. KeptInOrder(cb2)
  <2> SUFFICES ASSUME NEW o \in Ids, NEW i \in 1 .. Len(cb2[o]), NEW j \in 1 .. Len(cb2[o]),
                      i < j, cb2[o][i].next # 0, cb2[o][j].next # 0
               PROVE  cb2[o][i].next < cb2[o][j].next
    BY DEF KeptInOrder
  <2>1. o # p BY <1>5, SeqEmpty
  <2> QED BY <1>5, <2>1 DEF Good, Fit, KeptInOrder
<1>14. DOMAIN ps \subseteq Nat /\ Combined(m, ag, pa)
  BY LenProperties DEF Good, Fit, Typed
<1>15. \A i \in 1 .. Len(q) : q[i].handler.next # 0 => pa[q[i].handler.next] # p
  <2> TAKE i \in 1 .. Len(q)
  <2> HAVE q[i].handler.next # 0
  <2>1. PICK o \in 1 .. m : o # p /\ HandlerOf(o, q[i].handler, m, ps, ag, pa, rn) BY <1>11
  <2>2. ThenHandler(o, q[i].handler, m, pa, rn) BY <1>1, <1>14, <2>1, HandlerFacts
  <2> QED BY <2>1, <2>2 DEF ThenHandler
<1>16. \A j \in 1 .. n : cb[p][j].next # 0 => pa[cb[p][j].next] = p
  <2> TAKE j \in 1 .. n
  <2> HAVE cb[p][j].next # 0
  <2>1. HandlerOf(p, cb[p][j], m, ps, ag, pa, rn) BY <1>1 DEF Good, Fit, Kept, n
  <2>2. ThenHandler(p, cb[p][j], m, pa, rn) BY <1>1, <1>14, <2>1, HandlerFacts
  <2> QED BY <2>2 DEF ThenHandler
<1>17. JobsInOrder(q2, pa)
  <2> SUFFICES ASSUME NEW i \in 1 .. Len(q2), NEW j \in 1 .. Len(q2), i < j,
                      q2[i].handler.next # 0, q2[j].handler.next # 0,
                      pa[q2[i].handler.next] = pa[q2[j].handler.next]
               PROVE  q2[i].handler.next < q2[j].handler.next
    BY DEF JobsInOrder
  <2>1. CASE i \in 1 .. Len(q) /\ j \in 1 .. Len(q)
    <3>1. q2[i] = q[i] /\ q2[j] = q[j] BY <1>3, <2>1
    <3> QED BY <2>1, <3>1 DEF Good, Fit, JobsInOrder
  <2>2. CASE i \in 1 .. Len(q) /\ \E k \in 1 .. n : j = Len(q) + k
    <3>1. PICK k \in 1 .. n : j = Len(q) + k BY <2>2
    <3>2. q2[i] = q[i] /\ q2[j].handler = cb[p][k] BY <1>3, <2>2, <3>1
    <3> QED BY <1>15, <1>16, <2>2, <3>1, <3>2
  <2>3. CASE /\ \E k \in 1 .. n : i = Len(q) + k
             /\ \E k \in 1 .. n : j = Len(q) + k
    <3>1. PICK k \in 1 .. n : i = Len(q) + k BY <2>3
    <3>2. PICK l \in 1 .. n : j = Len(q) + l BY <2>3
    <3>3. q2[i].handler = cb[p][k] /\ q2[j].handler = cb[p][l] BY <1>3, <3>1, <3>2
    <3>4. k < l BY <1>1, <1>2, <3>1, <3>2
    <3> QED BY <1>1, <3>3, <3>4 DEF Good, Fit, KeptInOrder, n
  <2>4. CASE (\E k \in 1 .. n : i = Len(q) + k) /\ j \in 1 .. Len(q)
    BY <1>1, <1>2, <2>4
  <2> QED BY <1>4, <2>1, <2>2, <2>3, <2>4
<1>18. NoneForgotten(m, s2, cb2, q2, pa, rn)
  <2>1. ASSUME NEW h \in 1 .. m, pa[h] # 0, h \notin rn
        PROVE  Placed(h, pa[h], cb2, q2)
    <3>1. CASE InQueue(h, q)
      <4>1. PICK i \in 1 .. Len(q) : q[i].handler.next = h BY <3>1 DEF InQueue
      <4>2. i \in 1 .. Len(q2) /\ q2[i].handler.next = h BY <1>1, <1>2, <1>3, <4>1
      <4> QED BY <4>2 DEF InQueue, Placed
    <3>2. CASE KeptBy(h, pa[h], cb) /\ pa[h] = p
      <4>1. PICK j \in 1 .. n : cb[p][j].next = h BY <3>2 DEF KeptBy, n
      <4>2. Len(q) + j \in 1 .. Len(q2) /\ q2[Len(q) + j].handler.next = h
        BY <1>1, <1>2, <1>3, <4>1
      <4> QED BY <4>2 DEF InQueue, Placed
    <3>3. CASE KeptBy(h, pa[h], cb) /\ pa[h] # p
      <4>1. pa[h] \in Ids BY <1>1, <1>10, <2>1
      <4> QED BY <1>5, <3>3, <4>1 DEF KeptBy, Placed
    <3> QED BY <2>1, <3>1, <3>2, <3>3 DEF Good, NoneForgotten, Placed
  <2>2. ASSUME NEW h \in rn PROVE pa[h] # 0 /\ s2[pa[h]] # "pending"
    <3>1. pa[h] # 0 /\ s[pa[h]] # "pending" BY DEF Good, NoneForgotten, Placed
    <3>2. pa[h] \in Ids BY <1>1, <1>10, <3>1
    <3> QED BY <1>5, <3>1, <3>2
  <2> QED BY <2>1, <2>2 DEF NoneForgotten
<1>19. Combined(m, ag, pa) BY <1>14
<1>20. Good(m, s2, v2, cb2, q2, ps, ag, pa, rn)
  BY <1>6, <1>7, <1>8, <1>9, <1>12, <1>13, <1>17, <1>18, <1>19 DEF Good, Fit
<1> QED BY <1>20 DEF s2, v2, cb2, q2, jobs, JobsOf

\* Where a handler goes: to the callbacks of a pending promise, or to the queue.
CallbacksAfter(s, cb, p, h) ==
  IF s[p] = "pending" THEN [cb EXCEPT ![p] = Append(@, h)] ELSE cb
QueueAfter(s, v, q, p, h) ==
  IF s[p] = "pending" THEN q ELSE Append(q, Job(h, s[p], v[p]))

\* A handler is the last one of its promise.
Latest(h, p, m, cb, q, pa) ==
  h.next # 0 => /\ \A k \in 1 .. m : pa[k] = p => k <= h.next
                /\ ~Placed(h.next, p, cb, q)

\* Subscribing: the handler is placed, behind those of the same promise.
LEMMA SubscribedFits ==
  ASSUME NEW m, NEW s, NEW v, NEW cb, NEW q, NEW ps, NEW ag, NEW pa, NEW rn, NEW p \in 1 .. m, NEW h,
         Fit(m, s, v, cb, q, ps, ag, pa, rn), HandlerOf(p, h, m, ps, ag, pa, rn),
         Latest(h, p, m, cb, q, pa)
  PROVE  /\ Fit(m, s, v, CallbacksAfter(s, cb, p, h), QueueAfter(s, v, q, p, h), ps, ag, pa, rn)
         /\ Placed(h.next, p, CallbacksAfter(s, cb, p, h), QueueAfter(s, v, q, p, h))
         /\ \A k, o : o \in Ids /\ Placed(k, o, cb, q) =>
              Placed(k, o, CallbacksAfter(s, cb, p, h), QueueAfter(s, v, q, p, h))
<1> USE BoundsAssumption
<1> DEFINE cb2 == CallbacksAfter(s, cb, p, h)
           q2 == QueueAfter(s, v, q, p, h)
<1>1. /\ m \in 0 .. N /\ p \in Ids /\ s \in [Ids -> States] /\ DOMAIN v = Ids
      /\ cb \in [Ids -> Seq(Handlers)] /\ IsSeq(q) /\ Len(q) \in Nat
      /\ pa \in [Ids -> 0 .. m] /\ rn \subseteq 1 .. m
  BY SeqLen DEF Fit, Typed, Ids
<1>2. DOMAIN ps \subseteq Nat /\ Combined(m, ag, pa)
  BY LenProperties DEF Fit, Typed
<1>3. h \in Handlers /\ (h.next # 0 => ThenHandler(p, h, m, pa, rn))
  BY <1>1, <1>2, HandlerFacts
<1>4. ASSUME NEW k, NEW o, HandlerOf(o, k, m, ps, ag, pa, rn), k.next # 0, h.next # 0,
             pa[k.next] = pa[h.next]
      PROVE  o = p /\ k.next \in 1 .. m /\ k.next <= h.next /\ h.next \in 1 .. m
  <2>1. ThenHandler(o, k, m, pa, rn) BY <1>1, <1>2, <1>4, HandlerFacts
  <2> QED BY <1>3, <1>4, <2>1 DEF ThenHandler, Latest
<1>5. CASE s[p] # "pending"
  <2> DEFINE job == Job(h, s[p], v[p])
  <2>1. cb2 = cb /\ q2 = Append(q, job) BY <1>5 DEF CallbacksAfter, QueueAfter
  <2>2. job.handler = h BY DEF Job
  <2> HIDE DEF cb2, q2, job
  <2>3. /\ IsSeq(q2) /\ Len(q2) = Len(q) + 1
        /\ \A i \in 1 .. Len(q) : q2[i] = q[i]
        /\ q2[Len(q) + 1] = job
    BY <1>1, <2>1, SeqAppend
  <2>4. \A i \in 1 .. Len(q2) : i \in 1 .. Len(q) \/ i = Len(q) + 1 BY <1>1, <2>3
  <2>5. Typed(m, s, v, cb2, q2, ps, ag, pa, rn) BY <2>1, <2>3 DEF Fit, Typed
  <2>6. JobFits(job, m, s, v, ps, ag, pa, rn)
    <3>1. job = Job(job.handler, s[p], v[p]) BY <2>2 DEF job
    <3> QED BY <1>5, <2>2, <3>1 DEF JobFits
  <2>7. Scheduled(m, s, v, q2, ps, ag, pa, rn) BY <2>3, <2>4, <2>6 DEF Fit, Scheduled
  <2>8. JobsInOrder(q2, pa)
    <3> SUFFICES ASSUME NEW i \in 1 .. Len(q2), NEW j \in 1 .. Len(q2), i < j,
                        q2[i].handler.next # 0, q2[j].handler.next # 0,
                        pa[q2[i].handler.next] = pa[q2[j].handler.next]
                 PROVE  q2[i].handler.next < q2[j].handler.next
      BY DEF JobsInOrder
    <3>1. i \in 1 .. Len(q) /\ q2[i] = q[i] BY <1>1, <2>3
    <3>2. CASE j \in 1 .. Len(q)
      <4>1. q2[j] = q[j] BY <2>3, <3>2
      <4> QED BY <3>1, <3>2, <4>1 DEF Fit, JobsInOrder
    <3>3. CASE j = Len(q) + 1
      <4>1. q2[j].handler = h BY <2>2, <2>3, <3>3
      <4>2. PICK o \in 1 .. m : HandlerOf(o, q[i].handler, m, ps, ag, pa, rn)
        BY <3>1 DEF Fit, Scheduled, JobFits
      <4>3. /\ q[i].handler.next \in 1 .. m /\ h.next \in 1 .. m
            /\ q[i].handler.next <= h.next
        BY <1>4, <3>1, <4>1, <4>2
      <4>4. q[i].handler.next # h.next
        <5>1. h.next # 0 /\ ~Placed(h.next, p, cb, q) BY <4>1 DEF Latest
        <5> QED BY <3>1, <5>1 DEF Placed, InQueue
      <4> QED BY <3>1, <4>1, <4>3, <4>4
    <3> QED BY <2>4, <3>2, <3>3
  <2>9. Fit(m, s, v, cb2, q2, ps, ag, pa, rn) BY <2>1, <2>5, <2>7, <2>8 DEF Fit
  <2>10. Placed(h.next, p, cb2, q2)
    <3>1. Len(q) + 1 \in 1 .. Len(q2) BY <1>1, <2>3
    <3>2. q2[Len(q) + 1].handler.next = h.next BY <2>2, <2>3
    <3> QED BY <3>1, <3>2 DEF Placed, InQueue
  <2>11. ASSUME NEW k, NEW o, Placed(k, o, cb, q) PROVE Placed(k, o, cb2, q2)
    <3>1. InQueue(k, q) => InQueue(k, q2)
      <4> SUFFICES ASSUME NEW i \in 1 .. Len(q), q[i].handler.next = k PROVE InQueue(k, q2)
        BY DEF InQueue
      <4>1. i \in 1 .. Len(q2) /\ q2[i] = q[i] BY <1>1, <2>3
      <4> QED BY <4>1 DEF InQueue
    <3> QED BY <2>1, <2>11, <3>1 DEF Placed
  <2> QED BY <2>9, <2>10, <2>11 DEF cb2, q2
<1>6. CASE s[p] = "pending"
  <2>1. cb2 = [cb EXCEPT ![p] = Append(cb[p], h)] /\ q2 = q BY <1>6 DEF CallbacksAfter, QueueAfter
  <2> HIDE DEF cb2, q2
  <2> DEFINE n == Len(cb[p])
  <2>2. /\ n \in Nat /\ cb2 \in [Ids -> Seq(Handlers)] /\ Len(cb2[p]) = n + 1
        /\ \A i \in 1 .. n : cb2[p][i] = cb[p][i]
        /\ cb2[p][n + 1] = h
        /\ \A o \in Ids : o # p => cb2[o] = cb[o]
    <3>1. cb[p] \in Seq(Handlers) BY <1>1
    <3>2. /\ Append(cb[p], h) \in Seq(Handlers) /\ Len(Append(cb[p], h)) = n + 1 /\ n \in Nat
          /\ \A i \in 1 .. n : Append(cb[p], h)[i] = cb[p][i]
          /\ Append(cb[p], h)[n + 1] = h
      BY <1>3, <3>1, AppendProperties, LenProperties
    <3>3. cb2[p] = Append(cb[p], h) /\ \A o \in Ids : o # p => cb2[o] = cb[o] BY <1>1, <2>1
    <3>4. cb2 \in [Ids -> Seq(Handlers)] BY <1>1, <2>1, <3>2
    <3> QED BY <3>2, <3>3, <3>4
  <2>3. \A i \in 1 .. Len(cb2[p]) : i \in 1 .. n \/ i = n + 1 BY <2>2
  <2>3a. n = Len(cb[p]) OBVIOUS
  <2> HIDE DEF n
  <2>4. Typed(m, s, v, cb2, q2, ps, ag, pa, rn) BY <2>1, <2>2 DEF Fit, Typed
  <2>5. Unmade(m, s, cb2, ag, pa)
    <3>1. ~(p > m) BY <1>1
    <3> QED BY <2>2, <3>1 DEF Fit, Unmade
  <2>6. Settledness(s, v, cb2) BY <1>6, <2>2 DEF Fit, Settledness
  <2>7. Kept(m, cb2, ps, ag, pa, rn)
    <3> SUFFICES ASSUME NEW o \in Ids, NEW i \in 1 .. Len(cb2[o])
                 PROVE  HandlerOf(o, cb2[o][i], m, ps, ag, pa, rn)
      BY DEF Kept
    <3>1. CASE o # p BY <2>2, <3>1 DEF Fit, Kept
    <3>2. CASE o = p /\ i \in 1 .. n BY <2>2, <2>3a, <3>2 DEF Fit, Kept
    <3>3. CASE o = p /\ i = n + 1 BY <2>2, <3>3
    <3> QED BY <2>3, <3>1, <3>2, <3>3
  <2>8. KeptInOrder(cb2)
    <3> SUFFICES ASSUME NEW o \in Ids, NEW i \in 1 .. Len(cb2[o]), NEW j \in 1 .. Len(cb2[o]),
                        i < j, cb2[o][i].next # 0, cb2[o][j].next # 0
                 PROVE  cb2[o][i].next < cb2[o][j].next
      BY DEF KeptInOrder
    <3>1. CASE o # p BY <2>2, <3>1 DEF Fit, KeptInOrder
    <3>2. CASE o = p /\ j \in 1 .. n
      <4>1. i \in 1 .. n BY <2>2, <2>3, <3>2
      <4> QED BY <2>2, <2>3a, <3>2, <4>1 DEF Fit, KeptInOrder
    <3>3. CASE o = p /\ j = n + 1
      <4>1. i \in 1 .. n BY <2>2, <2>3, <3>3
      <4>2. cb2[o][j] = h /\ cb2[o][i] = cb[p][i] BY <2>2, <3>3, <4>1
      <4>3. HandlerOf(p, cb[p][i], m, ps, ag, pa, rn) BY <1>1, <2>3a, <4>1 DEF Fit, Kept
      <4>4. ThenHandler(p, cb[p][i], m, pa, rn)
        BY <1>1, <1>2, <4>2, <4>3, HandlerFacts
      <4>5. pa[cb[p][i].next] = pa[h.next] BY <1>3, <4>2, <4>4 DEF ThenHandler
      <4>6. /\ cb[p][i].next \in 1 .. m /\ h.next \in 1 .. m
            /\ cb[p][i].next <= h.next
        BY <1>4, <4>2, <4>3, <4>5
      <4>7. cb[p][i].next # h.next
        <5>1. h.next # 0 /\ ~Placed(h.next, p, cb, q) BY <4>2 DEF Latest
        <5> QED BY <2>3a, <4>1, <5>1 DEF Placed, KeptBy
      <4> QED BY <4>2, <4>6, <4>7
    <3> QED BY <2>3, <3>1, <3>2, <3>3
  <2>9. Fit(m, s, v, cb2, q2, ps, ag, pa, rn) BY <2>1, <2>4, <2>5, <2>6, <2>7, <2>8 DEF Fit
  <2>10. Placed(h.next, p, cb2, q2)
    <3>1. n + 1 \in 1 .. Len(cb2[p]) BY <2>2
    <3> QED BY <2>2, <3>1 DEF Placed, KeptBy
  <2>11. ASSUME NEW k, NEW o \in Ids, Placed(k, o, cb, q) PROVE Placed(k, o, cb2, q2)
    <3>1. CASE KeptBy(k, o, cb) /\ o = p
      <4>1. PICK i \in 1 .. n : cb[p][i].next = k BY <2>3a, <3>1 DEF KeptBy
      <4>2. i \in 1 .. Len(cb2[p]) BY <2>2
      <4> QED BY <2>2, <3>1, <4>1, <4>2 DEF Placed, KeptBy
    <3>2. CASE KeptBy(k, o, cb) /\ o # p BY <2>2, <3>2 DEF Placed, KeptBy
    <3> QED BY <2>1, <2>11, <3>1, <3>2 DEF Placed
  <2> QED BY <2>9, <2>10, <2>11 DEF cb2, q2
<1> QED BY <1>5, <1>6

\* A handler that no `then' registered.
LEMMA SubscribedKeeps0 ==
  ASSUME NEW m, NEW s, NEW v, NEW cb, NEW q, NEW ps, NEW ag, NEW pa, NEW rn, NEW p \in 1 .. m, NEW h,
         Good(m, s, v, cb, q, ps, ag, pa, rn), HandlerOf(p, h, m, ps, ag, pa, rn), h.next = 0
  PROVE  Good(m, s, v, CallbacksAfter(s, cb, p, h), QueueAfter(s, v, q, p, h), ps, ag, pa, rn)
<1> USE BoundsAssumption
<1> DEFINE cb2 == CallbacksAfter(s, cb, p, h)
           q2 == QueueAfter(s, v, q, p, h)
<1>1. Latest(h, p, m, cb, q, pa) BY DEF Latest
<1>2. Fit(m, s, v, cb2, q2, ps, ag, pa, rn)
  BY <1>1, SubscribedFits DEF Good
<1>3. \A k, o : o \in Ids /\ Placed(k, o, cb, q) => Placed(k, o, cb2, q2)
  BY <1>1, SubscribedFits DEF Good
<1> HIDE DEF cb2, q2
<1>4. \A k \in 1 .. m : pa[k] # 0 => pa[k] \in Ids
  BY DEF Good, Fit, Typed, Ids
<1>5. NoneForgotten(m, s, cb2, q2, pa, rn) BY <1>3, <1>4 DEF Good, NoneForgotten
<1> QED BY <1>2, <1>5 DEF Good, cb2, q2

\* The handler of `then', which makes a promise.
LEMMA ThenKeeps ==
  ASSUME NEW m, NEW s, NEW v, NEW cb, NEW q, NEW ps, NEW ag, NEW pa, NEW rn, NEW p \in 1 .. m,
         NEW f \in {NoFn, UserFn}, NEW g \in {NoFn, UserFn},
         Good(m, s, v, cb, q, ps, ag, pa, rn), m < N
  PROVE  Good(m + 1, s, v, CallbacksAfter(s, cb, p, Handler(f, g, m + 1)),
              QueueAfter(s, v, q, p, Handler(f, g, m + 1)), ps, ag, [pa EXCEPT ![m + 1] = p], rn)
<1> USE BoundsAssumption
<1> DEFINE h == Handler(f, g, m + 1)
           pa2 == [pa EXCEPT ![m + 1] = p]
           cb2 == CallbacksAfter(s, cb, p, h)
           q2 == QueueAfter(s, v, q, p, h)
<1>1. /\ m \in 0 .. N /\ m + 1 \in 1 .. N /\ p \in 1 .. m /\ m + 1 \in Ids /\ p \in 1 .. m + 1 /\ p \in Ids
      /\ pa \in [Ids -> 0 .. m] /\ rn \subseteq 1 .. m /\ m + 1 \notin 1 .. m /\ m + 1 # 0
      /\ m + 1 \in Nat /\ \A k \in 1 .. m + 1 : k \in Ids /\ (k \in 1 .. m \/ k = m + 1)
  BY DEF Good, Fit, Typed, Ids
<1>2. DOMAIN ps \subseteq Nat /\ Combined(m, ag, pa)
  BY LenProperties DEF Good, Fit, Typed
<1>3. /\ pa2 \in [Ids -> 0 .. m + 1] /\ pa2[m + 1] = p
      /\ \A k \in 1 .. m : pa2[k] = pa[k]
      /\ \A k \in Ids : k # m + 1 => pa2[k] = pa[k]
  BY <1>1
<1>4. /\ h.next = m + 1 /\ h.onFulfilled = f /\ h.onRejected = g /\ h \in Handlers
  <2>1. f \in Fns /\ g \in Fns
    <3>1. "none" \in FnNames /\ "user" \in FnNames /\ 0 \in Nat BY DEF FnNames
    <3>2. NoFn \in Fns /\ UserFn \in Fns BY <3>1, FnIn DEF NoFn, UserFn
    <3> QED BY <3>2
  <2> QED BY <1>1, <2>1, HandlerIn
<1> HIDE DEF h, pa2, cb2, q2
<1>5. ASSUME NEW o, NEW k, HandlerOf(o, k, m, ps, ag, pa, rn)
      PROVE  HandlerOf(o, k, m + 1, ps, ag, pa2, rn) /\ (k.next # 0 => k.next \in 1 .. m)
  <2>0. k.next # 0 => k.next \in 1 .. m
    <3>1. k.next # 0 => ThenHandler(o, k, m, pa, rn) BY <1>1, <1>2, <1>5, HandlerFacts
    <3> QED BY <3>1 DEF ThenHandler
  <2>1. CASE ThenHandler(o, k, m, pa, rn)
    <3>1. ThenHandler(o, k, m + 1, pa2, rn) BY <1>1, <1>3, <2>1 DEF ThenHandler
    <3> QED BY <2>0, <3>1 DEF HandlerOf
  <2>2. CASE ItemHandler(o, k, m, ag)
    <3>1. ItemHandler(o, k, m + 1, ag) BY <1>1, <2>2 DEF ItemHandler
    <3> QED BY <2>0, <3>1 DEF HandlerOf
  <2>3. CASE \E c \in DOMAIN ps : ps[c].from = Promise(o) /\ k = AdoptHandler(c)
    BY <2>0, <2>3 DEF HandlerOf
  <2> QED BY <1>5, <2>1, <2>2, <2>3 DEF HandlerOf
<1>6. Fit(m + 1, s, v, cb, q, ps, ag, pa2, rn)
  <2>1. Typed(m + 1, s, v, cb, q, ps, ag, pa2, rn)
    <3>1. ps \in Seq(Pairs(m + 1))
      <4>1. Pairs(m) \subseteq Pairs(m + 1)
        <5>1. 1 .. m \subseteq 1 .. m + 1 BY <1>1
        <5>2. Sources(m) \subseteq Sources(m + 1) BY <5>1 DEF Sources
        <5> QED BY <5>1, <5>2 DEF Pairs
      <4>2. ps \in Seq(Pairs(m)) BY DEF Good, Fit, Typed
      <4> QED BY <4>1, <4>2, SeqSubset
    <3> QED BY <1>1, <1>3, <3>1 DEF Good, Fit, Typed
  <2>2. Unmade(m + 1, s, cb, ag, pa2)
    <3>1. \A o \in Ids : o > m + 1 => o > m /\ o # m + 1 BY <1>1 DEF Ids
    <3> QED BY <1>3, <3>1 DEF Good, Fit, Unmade
  <2>3. Combined(m + 1, ag, pa2)
    <3> SUFFICES ASSUME NEW o \in Ids, ag[o].kind # "none"
                 PROVE  /\ ag[o].kind \in {"all", "race"} /\ pa2[o] = 0 /\ ag[o].items \in Seq(1 .. m + 1)
                        /\ ag[o].kind = "all" => DOMAIN ag[o] = {"kind", "items", "results", "remaining"}
      BY DEF Combined
    <3>1. o # m + 1 BY <1>1 DEF Good, Fit, Unmade
    <3>2. 1 .. m \subseteq 1 .. m + 1 BY <1>1
    <3>3. /\ ag[o].kind \in {"all", "race"} /\ pa[o] = 0 /\ ag[o].items \in Seq(1 .. m)
          /\ ag[o].kind = "all" => DOMAIN ag[o] = {"kind", "items", "results", "remaining"}
      BY <1>2 DEF Combined
    <3>4. ag[o].items \in Seq(1 .. m + 1)
      <4>1. \A x \in Seq(1 .. m) : x \in Seq(1 .. m + 1) BY <3>2, SeqSubset, Zenon
      <4>2. ag[o].items \in Seq(1 .. m) BY <3>3
      <4> QED BY <4>1, <4>2, Zenon
    <3> QED BY <1>3, <3>1, <3>3, <3>4
  <2>4. Kept(m + 1, cb, ps, ag, pa2, rn) BY <1>5 DEF Good, Fit, Kept
  <2>5. Scheduled(m + 1, s, v, q, ps, ag, pa2, rn)
    <3>1. 1 .. m \subseteq 1 .. m + 1 BY <1>1
    <3> QED BY <1>5, <3>1 DEF Good, Fit, Scheduled, JobFits
  <2>6. JobsInOrder(q, pa2)
    <3>1. \A i \in 1 .. Len(q) : q[i].handler.next # 0 => q[i].handler.next \in 1 .. m
      BY <1>5 DEF Good, Fit, Scheduled, JobFits
    <3> QED BY <1>3, <3>1 DEF Good, Fit, JobsInOrder
  <2> QED BY <2>1, <2>2, <2>3, <2>4, <2>5, <2>6 DEF Good, Fit
<1>7. HandlerOf(p, h, m + 1, ps, ag, pa2, rn)
  <2>1. m + 1 \in 1 .. m + 1 /\ m + 1 \notin rn BY <1>1
  <2> QED BY <1>3, <1>4, <2>1 DEF HandlerOf, ThenHandler
<1>8. Latest(h, p, m + 1, cb, q, pa2)
  <2>1. \A k \in 1 .. m + 1 : k <= m + 1 BY <1>1
  <2>2. ~InQueue(m + 1, q)
    <3> SUFFICES ASSUME NEW i \in 1 .. Len(q), q[i].handler.next = m + 1 PROVE FALSE
      BY DEF InQueue
    <3>1. PICK o \in 1 .. m : HandlerOf(o, q[i].handler, m, ps, ag, pa, rn)
      BY DEF Good, Fit, Scheduled, JobFits
    <3> QED BY <1>1, <1>5, <3>1
  <2>3. ~KeptBy(m + 1, p, cb)
    <3> SUFFICES ASSUME NEW i \in 1 .. Len(cb[p]), cb[p][i].next = m + 1 PROVE FALSE
      BY DEF KeptBy
    <3>1. HandlerOf(p, cb[p][i], m, ps, ag, pa, rn) BY <1>1 DEF Good, Fit, Kept
    <3> QED BY <1>1, <1>5, <3>1
  <2> QED BY <1>4, <2>1, <2>2, <2>3 DEF Latest, Placed
<1>9. /\ Fit(m + 1, s, v, cb2, q2, ps, ag, pa2, rn) /\ Placed(m + 1, p, cb2, q2)
      /\ \A k, o : o \in Ids /\ Placed(k, o, cb, q) => Placed(k, o, cb2, q2)
  BY <1>1, <1>4, <1>6, <1>7, <1>8, SubscribedFits DEF cb2, q2
<1>10. NoneForgotten(m + 1, s, cb2, q2, pa2, rn)
  <2>1. ASSUME NEW k \in 1 .. m + 1, pa2[k] # 0, k \notin rn PROVE Placed(k, pa2[k], cb2, q2)
    <3>1. CASE k = m + 1 BY <1>3, <1>9, <3>1
    <3>2. CASE k \in 1 .. m
      <4>1. pa[k] # 0 /\ pa2[k] = pa[k] /\ pa[k] \in Ids
        <5>1. pa[k] # 0 /\ pa2[k] = pa[k] BY <1>3, <2>1, <3>2
        <5>2. pa[k] \in 0 .. m BY <1>1, <3>2
        <5>3. pa[k] \in 1 .. m BY <1>1, <5>1, <5>2
        <5> QED BY <1>1, <5>1, <5>3 DEF Ids
      <4>2. Placed(k, pa[k], cb, q) BY <2>1, <3>2, <4>1 DEF Good, NoneForgotten
      <4> QED BY <1>9, <4>1, <4>2
    <3> QED BY <1>1, <3>1, <3>2
  <2>2. \A k \in rn : pa2[k] # 0 /\ s[pa2[k]] # "pending"
    BY <1>1, <1>3 DEF Good, NoneForgotten
  <2> QED BY <2>1, <2>2 DEF NoneForgotten
<1> QED BY <1>9, <1>10 DEF Good, h, pa2, cb2, q2

\* Taking the first job: its handler is there no more.
LEMMA HeadKeeps ==
  ASSUME NEW m, NEW s, NEW v, NEW cb, NEW q, NEW ps, NEW ag, NEW pa, NEW rn,
         Good(m, s, v, cb, q, ps, ag, pa, rn), q # <<>>
  PROVE  Good(m, s, v, cb, Tail(q), ps, ag, pa, rn \cup ({Head(q).handler.next} \ {0}))
<1> USE BoundsAssumption
<1> DEFINE x == q[1].handler.next
           rn2 == rn \cup ({x} \ {0})
           q2 == Tail(q)
<1>1. /\ m \in 0 .. N /\ s \in [Ids -> States] /\ cb \in [Ids -> Seq(Handlers)] /\ IsSeq(q)
      /\ pa \in [Ids -> 0 .. m] /\ rn \subseteq 1 .. m /\ \A k \in 1 .. m : k \in Ids
  BY DEF Good, Fit, Typed, Ids
<1>2. DOMAIN ps \subseteq Nat /\ Combined(m, ag, pa)
  BY LenProperties DEF Good, Fit, Typed
<1>3. /\ IsSeq(q2) /\ Len(q) \in Nat \ {0} /\ Len(q2) = Len(q) - 1 /\ Head(q) = q[1]
      /\ \A i \in 1 .. Len(q) - 1 : q2[i] = q[i + 1]
  BY <1>1, SeqTail
<1>4. 1 \in 1 .. Len(q) /\ \A i \in 1 .. Len(q2) : i + 1 \in 1 .. Len(q) /\ q2[i] = q[i + 1]
  BY <1>3
<1> HIDE DEF q2
<1>5. PICK p \in 1 .. m : s[p] # "pending" /\ HandlerOf(p, q[1].handler, m, ps, ag, pa, rn)
  BY <1>4 DEF Good, Fit, Scheduled, JobFits
<1>6. x # 0 => x \in 1 .. m /\ pa[x] = p /\ x \notin rn
  <2>1. x # 0 => ThenHandler(p, q[1].handler, m, pa, rn) BY <1>1, <1>2, <1>5, HandlerFacts
  <2> QED BY <2>1 DEF ThenHandler
<1> HIDE DEF x
<1>7. rn2 \subseteq 1 .. m BY <1>1, <1>6
<1>8. ASSUME NEW o, NEW h, HandlerOf(o, h, m, ps, ag, pa, rn), h.next # 0 => h.next # x
      PROVE  HandlerOf(o, h, m, ps, ag, pa, rn2)
  <2>1. ThenHandler(o, h, m, pa, rn) => ThenHandler(o, h, m, pa, rn2)
    <3> SUFFICES ASSUME ThenHandler(o, h, m, pa, rn) PROVE h.next \notin rn2 BY DEF ThenHandler
    <3>1. h.next \in 1 .. m /\ h.next \notin rn BY DEF ThenHandler
    <3>2. h.next # 0 BY <1>1, <3>1
    <3> QED BY <1>8, <3>1, <3>2
  <2> QED BY <1>8, <2>1 DEF HandlerOf
<1> HIDE DEF rn2
<1>9. Typed(m, s, v, cb, q2, ps, ag, pa, rn2) BY <1>3, <1>7 DEF Good, Fit, Typed
<1>10. Kept(m, cb, ps, ag, pa, rn2)
  <2> SUFFICES ASSUME NEW o \in Ids, NEW i \in 1 .. Len(cb[o])
               PROVE  HandlerOf(o, cb[o][i], m, ps, ag, pa, rn2)
    BY DEF Kept
  <2>1. HandlerOf(o, cb[o][i], m, ps, ag, pa, rn) BY DEF Good, Fit, Kept
  <2>2. cb[o][i].next # 0 => cb[o][i].next # x
    <3> SUFFICES ASSUME cb[o][i].next = x, x # 0 PROVE FALSE OBVIOUS
    <3>1. ThenHandler(o, cb[o][i], m, pa, rn) BY <1>1, <1>2, <2>1, HandlerFacts
    <3>2. o = p BY <1>6, <3>1 DEF ThenHandler
    <3>3. cb[o] = <<>> BY <1>5, <3>2 DEF Good, Fit, Settledness
    <3> QED BY <3>3, SeqEmpty
  <2> QED BY <1>8, <2>1, <2>2
<1>11. Scheduled(m, s, v, q2, ps, ag, pa, rn2)
  <2> SUFFICES ASSUME NEW i \in 1 .. Len(q2) PROVE JobFits(q2[i], m, s, v, ps, ag, pa, rn2)
    BY DEF Scheduled
  <2> DEFINE job == q[i + 1]
  <2>1. PICK o \in 1 .. m : /\ s[o] # "pending" /\ job = Job(job.handler, s[o], v[o])
                            /\ HandlerOf(o, job.handler, m, ps, ag, pa, rn)
    BY <1>4 DEF Good, Fit, Scheduled, JobFits
  <2>2. job.handler.next # 0 => job.handler.next # x
    <3>1. 1 < i + 1 /\ 1 \in 1 .. Len(q) /\ i + 1 \in 1 .. Len(q) BY <1>3, <1>4
    <3>2. \A k, l \in 1 .. Len(q) :
            k < l /\ q[k].handler.next # 0 /\ q[l].handler.next # 0
            /\ pa[q[k].handler.next] = pa[q[l].handler.next]
            => q[k].handler.next < q[l].handler.next
      BY DEF Good, Fit, JobsInOrder
    <3> SUFFICES ASSUME job.handler.next = x, x # 0 PROVE FALSE OBVIOUS
    <3>3. x < x BY <3>1, <3>2 DEF x
    <3> QED BY <1>6, <3>3
  <2>3. HandlerOf(o, job.handler, m, ps, ag, pa, rn2) BY <1>8, <2>1, <2>2
  <2>4. q2[i] = job BY <1>4
  <2> QED BY <2>1, <2>3, <2>4 DEF JobFits
<1>12. JobsInOrder(q2, pa)
  <2> SUFFICES ASSUME NEW i \in 1 .. Len(q2), NEW j \in 1 .. Len(q2), i < j,
                      q2[i].handler.next # 0, q2[j].handler.next # 0,
                      pa[q2[i].handler.next] = pa[q2[j].handler.next]
               PROVE  q2[i].handler.next < q2[j].handler.next
    BY DEF JobsInOrder
  <2>1. /\ i + 1 \in 1 .. Len(q) /\ j + 1 \in 1 .. Len(q) /\ i + 1 < j + 1
        /\ q2[i] = q[i + 1] /\ q2[j] = q[j + 1]
    BY <1>3, <1>4
  <2> QED BY <2>1 DEF Good, Fit, JobsInOrder
<1>13. NoneForgotten(m, s, cb, q2, pa, rn2)
  <2>1. ASSUME NEW h \in 1 .. m, pa[h] # 0, h \notin rn2 PROVE Placed(h, pa[h], cb, q2)
    <3>1. h \notin rn /\ h # x
      <4>1. h # 0 BY <1>1
      <4> QED BY <2>1, <4>1 DEF rn2
    <3>2. Placed(h, pa[h], cb, q) BY <2>1, <3>1 DEF Good, NoneForgotten
    <3>3. CASE InQueue(h, q)
      <4>1. PICK i \in 1 .. Len(q) : q[i].handler.next = h BY <3>3 DEF InQueue
      <4>2. i # 1 BY <3>1, <4>1 DEF x
      <4>3. i - 1 \in 1 .. Len(q2) /\ (i - 1) + 1 = i BY <1>3, <4>1, <4>2
      <4>4. q2[i - 1] = q[i] BY <1>4, <4>3
      <4> QED BY <4>1, <4>3, <4>4 DEF Placed, InQueue
    <3> QED BY <3>2, <3>3 DEF Placed
  <2>2. \A h \in rn2 : pa[h] # 0 /\ s[pa[h]] # "pending"
    <3>1. x # 0 => pa[x] # 0 /\ s[pa[x]] # "pending" BY <1>1, <1>5, <1>6
    <3> QED BY <3>1 DEF rn2, Good, NoneForgotten
  <2> QED BY <2>1, <2>2 DEF NoneForgotten
<1>14. Good(m, s, v, cb, q2, ps, ag, pa, rn2)
  BY <1>9, <1>10, <1>11, <1>12, <1>13 DEF Good, Fit
<1> QED BY <1>3, <1>14 DEF q2, rn2, x

-----------------------------------------------------------------------------
(* The operations the actions are made of, on the state they find.         *)

\* What Good is, when the promises and the queue are those of the next state.
LEMMA SettleGood ==
  ASSUME NEW m, NEW q, NEW ps, NEW ag, NEW pa, NEW rn, NEW p \in 1 .. m,
         NEW state \in {"fulfilled", "rejected"}, NEW value, value.kind = "plain",
         Good(m, st, val, callbacks, q, ps, ag, pa, rn), Settle(p, state, value, q)
  PROVE  Good(m, st', val', callbacks', queue', ps, ag, pa, rn)
<1>1. CASE st[p] # "pending"
  <2>1. st' = st /\ val' = val /\ callbacks' = callbacks /\ queue' = q BY <1>1 DEF Settle, promises
  <2>2. Good(m, st, val, callbacks, q, ps, ag, pa, rn) OBVIOUS
  <2> QED BY <2>1, <2>2, Zenon
<1>2. CASE st[p] = "pending"
  <2>1. /\ st' = [st EXCEPT ![p] = state] /\ val' = [val EXCEPT ![p] = value]
        /\ callbacks' = [callbacks EXCEPT ![p] = <<>>]
        /\ queue' = q \o JobsOf(callbacks, p, state, value)
    BY <1>2 DEF Settle, JobsOf
  <2> QED BY <1>2, <2>1, SettleKeeps
<1> QED BY <1>1, <1>2

\* Where one subscription puts the handler.
LEMMA SubscribedIs ==
  ASSUME NEW cb, NEW q, NEW p, NEW h
  PROVE  Subscribed([callbacks |-> cb, queue |-> q], p, h)
         = [callbacks |-> CallbacksAfter(st, cb, p, h), queue |-> QueueAfter(st, val, q, p, h)]
<1>1. CASE st[p] = "pending" BY <1>1 DEF Subscribed, CallbacksAfter, QueueAfter
<1>2. CASE st[p] # "pending" BY <1>2 DEF Subscribed, CallbacksAfter, QueueAfter
<1> QED BY <1>1, <1>2

\* What a single `then' does to the handlers and to the queue.
LEMMA SubscribeIs ==
  ASSUME NEW p, NEW h, NEW q, Subscribe(p, h, q)
  PROVE  /\ callbacks' = CallbacksAfter(st, callbacks, p, h) /\ queue' = QueueAfter(st, val, q, p, h)
         /\ st' = st /\ val' = val
<1> DEFINE end == Subscribed([callbacks |-> callbacks, queue |-> q], p, h)
<1>1. end = [callbacks |-> CallbacksAfter(st, callbacks, p, h), queue |-> QueueAfter(st, val, q, p, h)]
  BY SubscribedIs
<1>2. callbacks' = end.callbacks /\ queue' = end.queue /\ st' = st /\ val' = val BY DEF Subscribe
<1> HIDE DEF end
<1> QED BY <1>1, <1>2

\* A handler that no `then' registered.
LEMMA SubscribeGood ==
  ASSUME NEW m, NEW q, NEW ps, NEW ag, NEW pa, NEW rn, NEW p \in 1 .. m, NEW h,
         Good(m, st, val, callbacks, q, ps, ag, pa, rn),
         HandlerOf(p, h, m, ps, ag, pa, rn), h.next = 0, Subscribe(p, h, q)
  PROVE  Good(m, st', val', callbacks', queue', ps, ag, pa, rn)
BY SubscribeIs, SubscribedKeeps0

\* The states that SubscribeEach goes through.
States2(items, handlers, q) ==
  CHOOSE after :
    after = [i \in 0 .. Len(items) |->
               IF i = 0 THEN [callbacks |-> callbacks, queue |-> q]
               ELSE Subscribed(after[i - 1], items[i], handlers[i])]

\* The recursion in SubscribeEach is a function: each state comes from the one before.
LEMMA EachDefined ==
  ASSUME NEW items, NEW handlers, NEW q, Len(items) \in Nat
  PROVE  LET after == States2(items, handlers, q) IN
         /\ after[0] = [callbacks |-> callbacks, queue |-> q]
         /\ \A i \in 1 .. Len(items) : after[i] = Subscribed(after[i - 1], items[i], handlers[i])
<1> DEFINE n == Len(items)
           Goes(f, k) ==
             f = [i \in 0 .. k |-> IF i = 0 THEN [callbacks |-> callbacks, queue |-> q]
                                   ELSE Subscribed(f[i - 1], items[i], handlers[i])]
           T == {k \in Nat : \E f : Goes(f, k)}
<1>1. 0 \in T
  <2> DEFINE f == [i \in 0 .. 0 |-> [callbacks |-> callbacks, queue |-> q]]
  <2>1. f = [i \in 0 .. 0 |-> IF i = 0 THEN [callbacks |-> callbacks, queue |-> q]
                              ELSE Subscribed(f[i - 1], items[i], handlers[i])]
    OBVIOUS
  <2> QED BY <2>1
<1>2. ASSUME NEW k \in T PROVE k + 1 \in T
  <2>1. k \in Nat OBVIOUS
  <2>2. PICK f : Goes(f, k) OBVIOUS
  <2> DEFINE g == [i \in 0 .. k + 1 |->
                     IF i <= k THEN f[i] ELSE Subscribed(f[k], items[k + 1], handlers[k + 1])]
  <2>3. ASSUME NEW i \in 0 .. k + 1
        PROVE  g[i] = IF i = 0 THEN [callbacks |-> callbacks, queue |-> q]
                      ELSE Subscribed(g[i - 1], items[i], handlers[i])
    <3>1. CASE i = 0
      <4>1. 0 \in 0 .. k /\ 0 <= k /\ i \in 0 .. k BY <2>1, <3>1
      <4>2. f[0] = [callbacks |-> callbacks, queue |-> q] BY <2>2, <4>1
      <4> QED BY <3>1, <4>1, <4>2
    <3>2. CASE i # 0 /\ i <= k
      <4>1. i \in 0 .. k /\ i - 1 \in 0 .. k /\ i - 1 \in 0 .. k + 1 /\ i - 1 <= k BY <2>1, <3>2
      <4>2. f[i] = Subscribed(f[i - 1], items[i], handlers[i]) BY <2>2, <3>2, <4>1
      <4>3. g[i] = f[i] /\ g[i - 1] = f[i - 1] BY <3>2, <4>1
      <4> QED BY <3>2, <4>2, <4>3
    <3>3. CASE i = k + 1
      <4>1. i # 0 /\ i - 1 = k /\ k \in 0 .. k + 1 /\ k <= k /\ ~(i <= k) BY <2>1, <3>3
      <4>2. g[k] = f[k] BY <4>1
      <4>3. g[i] = Subscribed(f[k], items[i], handlers[i]) BY <3>3, <4>1
      <4> QED BY <4>1, <4>2, <4>3
    <3> QED BY <2>1, <3>1, <3>2, <3>3
  <2>4. Goes(g, k + 1) BY <2>3
  <2> HIDE DEF g, Goes
  <2> QED BY <2>1, <2>4
<1> HIDE DEF T
<1>3. T = Nat
  <2>1. T \in SUBSET Nat BY DEF T
  <2> QED BY <1>1, <1>2, <2>1, Upwards
<1>4. \E f : Goes(f, n) BY <1>3 DEF T
<1> DEFINE after == States2(items, handlers, q)
<1>5. Goes(after, n) BY <1>4 DEF States2
<1> HIDE DEF after
<1>6. 0 \in 0 .. n /\ \A i \in 1 .. n : i \in 0 .. n /\ i # 0 OBVIOUS
<1>7. /\ after[0] = [callbacks |-> callbacks, queue |-> q]
      /\ \A i \in 1 .. n : after[i] = Subscribed(after[i - 1], items[i], handlers[i])
  BY <1>5, <1>6
<1> QED BY <1>7 DEF after

\* `then' for each item keeps Good, by induction on the items.
LEMMA SubscribeEachGood ==
  ASSUME NEW m, NEW q, NEW ps, NEW ag, NEW pa, NEW rn, NEW items \in Seq(1 .. m), NEW handlers,
         Good(m, st, val, callbacks, q, ps, ag, pa, rn),
         \A i \in 1 .. Len(items) :
           HandlerOf(items[i], handlers[i], m, ps, ag, pa, rn) /\ handlers[i].next = 0,
         SubscribeEach(items, handlers, q)
  PROVE  Good(m, st', val', callbacks', queue', ps, ag, pa, rn)
<1> DEFINE after == States2(items, handlers, q)
           n == Len(items)
           OK(x) == /\ x = [callbacks |-> x.callbacks, queue |-> x.queue]
                    /\ Good(m, st, val, x.callbacks, x.queue, ps, ag, pa, rn)
           T == {k \in Nat : k <= n => OK(after[k])}
<1>1. n \in Nat /\ \A i \in 1 .. n : items[i] \in 1 .. m BY LenProperties, ElementOfSeq
<1>2. /\ after[0] = [callbacks |-> callbacks, queue |-> q]
      /\ \A i \in 1 .. n : after[i] = Subscribed(after[i - 1], items[i], handlers[i])
  BY <1>1, EachDefined
<1>3. /\ callbacks' = after[n].callbacks /\ queue' = after[n].queue
      /\ st' = st /\ val' = val
  BY DEF SubscribeEach, States2
<1> HIDE DEF after
<1>4. 0 \in T
  <2>1. OK(after[0]) BY <1>2
  <2> HIDE DEF OK
  <2> QED BY <2>1
<1>5. ASSUME NEW k \in T PROVE k + 1 \in T
  <2> SUFFICES ASSUME k + 1 <= n PROVE OK(after[k + 1]) OBVIOUS
  <2>1. k \in Nat /\ k + 1 \in 1 .. n /\ (k + 1) - 1 = k /\ k <= n BY <1>1
  <2> DEFINE cb == after[k].callbacks
             qk == after[k].queue
             p == items[k + 1]
             h == handlers[k + 1]
  <2>2. after[k] = [callbacks |-> cb, queue |-> qk] /\ Good(m, st, val, cb, qk, ps, ag, pa, rn)
    BY <2>1
  <2>3. p \in 1 .. m /\ HandlerOf(p, h, m, ps, ag, pa, rn) /\ h.next = 0 BY <1>1, <2>1
  <2>4. after[k + 1] = Subscribed(after[k], p, h) BY <1>2, <2>1
  <2> HIDE DEF cb, qk, p, h
  <2>5. after[k + 1] = [callbacks |-> CallbacksAfter(st, cb, p, h), queue |-> QueueAfter(st, val, qk, p, h)]
    BY <2>2, <2>4, SubscribedIs
  <2>6. Good(m, st, val, CallbacksAfter(st, cb, p, h), QueueAfter(st, val, qk, p, h), ps, ag, pa, rn)
    BY <2>2, <2>3, SubscribedKeeps0
  <2> QED BY <2>5, <2>6
<1> HIDE DEF T
<1>6. T = Nat
  <2>1. T \in SUBSET Nat BY DEF T
  <2> QED BY <1>4, <1>5, <2>1, Upwards
<1> HIDE DEF OK
<1>7. OK(after[n])
  <2>1. n \in T /\ n <= n BY <1>1, <1>6
  <2> QED BY <2>1 DEF T
<1> USE DEF OK
<1> QED BY <1>3, <1>7

\* What a promise may be resolved with.
Thing(m, x) == x.kind = "plain" \/ x \in Sources(m)

\* What a pair of callbacks is given to is a promise that exists or a foreign thenable.
LEMMA ThingKinds ==
  ASSUME NEW m, NEW x \in Sources(m)
  PROVE  \/ x.kind = "promise" /\ x.is \in 1 .. m /\ x = Promise(x.is)
         \/ x.kind = "thenable"
BY DEF Sources, Promise, Foreign

\* A pair of callbacks more.
LEMMA PairGiven ==
  ASSUME NEW m, NEW s, NEW v, NEW cb, NEW q, NEW ps, NEW ag, NEW pa, NEW rn,
         NEW p \in 1 .. m, NEW x \in Sources(m), Good(m, s, v, cb, q, ps, ag, pa, rn)
  PROVE  LET given == Append(ps, [to |-> p, from |-> x, called |-> FALSE]) IN
         /\ Good(m, s, v, cb, q, given, ag, pa, rn)
         /\ Len(ps) + 1 \in DOMAIN given /\ given[Len(ps) + 1].from = x
<1> DEFINE pair == [to |-> p, from |-> x, called |-> FALSE]
           given == Append(ps, pair)
<1>1. /\ m \in 0 .. N /\ ps \in Seq(Pairs(m)) /\ DOMAIN ag = Ids /\ Combined(m, ag, pa)
      /\ \A o \in Ids : o > m => ag[o].kind = "none"
  BY DEF Good, Fit, Typed, Unmade
<1>2. pair \in Pairs(m) /\ pair.from = x BY DEF Pairs
<1> HIDE DEF pair
<1>3. /\ given \in Seq(Pairs(m)) /\ Len(ps) \in Nat /\ DOMAIN ps = 1 .. Len(ps)
      /\ DOMAIN given = 1 .. Len(ps) + 1
      /\ \A c \in 1 .. Len(ps) : given[c] = ps[c]
      /\ given[Len(ps) + 1] = pair
  BY <1>1, <1>2, AppendProperties, LenProperties
<1> HIDE DEF given
<1>4. m \in m .. N BY <1>1, BoundsAssumption
<1>5. \A c \in DOMAIN ps : c \in DOMAIN given /\ given[c].from = ps[c].from BY <1>3
<1>6. Good(m, s, v, cb, q, given, ag, pa, rn) BY <1>1, <1>3, <1>4, <1>5, Grow
<1>7. Len(ps) + 1 \in DOMAIN given /\ given[Len(ps) + 1].from = x BY <1>2, <1>3
<1> QED BY <1>6, <1>7 DEF given, pair

\* A pair that has been called.
LEMMA PairCalled ==
  ASSUME NEW m, NEW s, NEW v, NEW cb, NEW q, NEW ps, NEW ag, NEW pa, NEW rn,
         NEW c \in DOMAIN ps, Good(m, s, v, cb, q, ps, ag, pa, rn)
  PROVE  Good(m, s, v, cb, q, [ps EXCEPT ![c].called = TRUE], ag, pa, rn)
<1> DEFINE marked == [ps EXCEPT ![c].called = TRUE]
<1>1. /\ m \in 0 .. N /\ ps \in Seq(Pairs(m)) /\ DOMAIN ag = Ids /\ Combined(m, ag, pa)
      /\ \A o \in Ids : o > m => ag[o].kind = "none"
  BY DEF Good, Fit, Typed, Unmade
<1>2. Len(ps) \in Nat /\ DOMAIN ps = 1 .. Len(ps) /\ ps \in [1 .. Len(ps) -> Pairs(m)]
  BY <1>1, LenProperties
<1>3. marked \in [1 .. Len(ps) -> Pairs(m)] BY <1>2 DEF Pairs
<1>4. \A d \in DOMAIN ps : marked[d].from = ps[d].from BY <1>2 DEF Pairs
<1>5. DOMAIN marked = DOMAIN ps OBVIOUS
<1> HIDE DEF marked
<1>6. marked \in Seq(Pairs(m)) BY <1>2, <1>3
<1>7. m \in m .. N BY <1>1, BoundsAssumption
<1>8. Good(m, s, v, cb, q, marked, ag, pa, rn) BY <1>1, <1>4, <1>5, <1>6, <1>7, Grow
<1> QED BY <1>8 DEF marked

\* The resolution procedure keeps Good, whatever the thenable does.
LEMMA ResolvePromiseGood ==
  ASSUME NEW m, NEW q, NEW ps, NEW ag, NEW pa, NEW rn, NEW p \in 1 .. m, NEW x, Thing(m, x),
         Good(m, st, val, callbacks, q, ps, ag, pa, rn), ResolvePromise(p, x, q, ps)
  PROVE  Good(m, st', val', callbacks', queue', pairs', ag, pa, rn)
<1> DEFINE c == Len(ps) + 1
           given == Append(ps, [to |-> p, from |-> x, called |-> FALSE])
<1>0. \A w : Plain(w).kind = "plain" BY DEF Plain
<1>1. CASE Settle(p, "rejected", Plain(TypeError), q) /\ pairs' = ps
  BY <1>0, <1>1, SettleGood
<1>2. CASE /\ x.kind = "promise" /\ pairs' = given
           /\ Subscribe(x.is, Handler(Fn("adopt", c, 0), Fn("adopt", c, 0), 0), q)
  <2>1. x \in Sources(m) BY <1>2 DEF Thing
  <2>2. x.is \in 1 .. m /\ x = Promise(x.is) BY <1>2, <2>1, ThingKinds
  <2>3. Good(m, st, val, callbacks, q, given, ag, pa, rn) /\ c \in DOMAIN given /\ given[c].from = x
    BY <2>1, PairGiven
  <2> HIDE DEF given, c
  <2>4. HandlerOf(x.is, AdoptHandler(c), m, given, ag, pa, rn) BY <2>2, <2>3 DEF HandlerOf
  <2>5. AdoptHandler(c).next = 0 BY HandlerIn DEF AdoptHandler
  <2>6. Subscribe(x.is, AdoptHandler(c), q) BY <1>2 DEF AdoptHandler
  <2>7. Good(m, st', val', callbacks', queue', given, ag, pa, rn)
    BY <2>2, <2>3, <2>4, <2>5, <2>6, SubscribeGood
  <2> QED BY <1>2, <2>7
<1>3. CASE /\ x.kind = "thenable" /\ pairs' = given
           /\ \/ queue' = q /\ UNCHANGED promises
              \/ \E r \in Reasons : Settle(p, "rejected", r, q)
  <2>1. x \in Sources(m) BY <1>3 DEF Thing
  <2>2. Good(m, st, val, callbacks, q, given, ag, pa, rn) BY <2>1, PairGiven
  <2> HIDE DEF given
  <2>3. CASE queue' = q /\ UNCHANGED promises
    <3>1. st' = st /\ val' = val /\ callbacks' = callbacks BY <2>3 DEF promises
    <3> QED BY <1>3, <2>2, <2>3, <3>1
  <2>4. CASE \E r \in Reasons : Settle(p, "rejected", r, q)
    <3>1. PICK r \in Reasons : Settle(p, "rejected", r, q) BY <2>4
    <3>2. r.kind = "plain" BY <1>0 DEF Reasons
    <3>3. Good(m, st', val', callbacks', queue', given, ag, pa, rn) BY <2>2, <3>1, <3>2, SettleGood
    <3> QED BY <1>3, <3>3
  <2> QED BY <1>3, <2>3, <2>4
<1>4. CASE x.kind = "plain" /\ Settle(p, "fulfilled", x, q) /\ pairs' = ps
  BY <1>4, SettleGood
<1> QED BY <1>1, <1>2, <1>3, <1>4, Zenon DEF ResolvePromise

\* #resolve keeps Good.
LEMMA ResolveGood ==
  ASSUME NEW m, NEW q, NEW ps, NEW ag, NEW pa, NEW rn, NEW p \in 1 .. m, NEW x, Thing(m, x),
         Good(m, st, val, callbacks, q, ps, ag, pa, rn), Resolve(p, x, q, ps)
  PROVE  Good(m, st', val', callbacks', queue', pairs', ag, pa, rn)
<1>1. CASE st[p] # "pending"
  <2>1. st' = st /\ val' = val /\ callbacks' = callbacks /\ queue' = q /\ pairs' = ps
    BY <1>1 DEF Resolve, promises
  <2> QED BY <2>1
<1>2. CASE st[p] = "pending"
  <2>1. ResolvePromise(p, x, q, ps) BY <1>2 DEF Resolve
  <2> QED BY <2>1, ResolvePromiseGood
<1> QED BY <1>1, <1>2

\* #reject keeps Good.
LEMMA RejectGood ==
  ASSUME NEW m, NEW q, NEW ag, NEW pa, NEW rn, NEW p \in 1 .. m, NEW r, r.kind = "plain",
         Good(m, st, val, callbacks, q, pairs, ag, pa, rn), Reject(p, r, q)
  PROVE  Good(m, st', val', callbacks', queue', pairs', ag, pa, rn)
<1>1. Settle(p, "rejected", r, q) /\ pairs' = pairs BY DEF Reject
<1>2. Good(m, st', val', callbacks', queue', pairs, ag, pa, rn) BY <1>1, SettleGood
<1> QED BY <1>1, <1>2

\* Calling one of a pair of callbacks, first or again, keeps Good.
LEMMA CallBackGood ==
  ASSUME NEW m, NEW q, NEW ag, NEW pa, NEW rn, NEW c \in DOMAIN pairs, NEW state, NEW y,
         Thing(m, y), state # "fulfilled" => y.kind = "plain",
         Good(m, st, val, callbacks, q, pairs, ag, pa, rn), CallBack(c, state, y, q)
  PROVE  Good(m, st', val', callbacks', queue', pairs', ag, pa, rn)
<1>1. CASE pairs[c].called
  <2>1. st' = st /\ val' = val /\ callbacks' = callbacks /\ queue' = q /\ pairs' = pairs
    BY <1>1 DEF CallBack, promises
  <2> QED BY <2>1
<1>2. CASE ~pairs[c].called
  <2> DEFINE ps == [pairs EXCEPT ![c].called = TRUE]
             p == pairs[c].to
  <2>1. p \in 1 .. m
    <3>1. pairs \in Seq(Pairs(m)) BY DEF Good, Fit, Typed
    <3>2. pairs[c] \in Pairs(m) BY <3>1, LenProperties, ElementOfSeq
    <3> QED BY <3>2 DEF Pairs
  <2>2. Good(m, st, val, callbacks, q, ps, ag, pa, rn) BY PairCalled
  <2>3. \/ state = "fulfilled" /\ ResolvePromise(p, y, q, ps)
        \/ state # "fulfilled" /\ Settle(p, "rejected", y, q) /\ pairs' = ps
    BY <1>2 DEF CallBack
  <2> HIDE DEF ps, p
  <2>4. CASE state = "fulfilled" /\ ResolvePromise(p, y, q, ps)
    BY <2>1, <2>2, <2>4, ResolvePromiseGood
  <2>5. CASE state # "fulfilled" /\ Settle(p, "rejected", y, q) /\ pairs' = ps
    <3>1. Good(m, st', val', callbacks', queue', ps, ag, pa, rn) BY <2>1, <2>2, <2>5, SettleGood
    <3> QED BY <2>5, <3>1
  <2> QED BY <2>3, <2>4, <2>5
<1> QED BY <1>1, <1>2

-----------------------------------------------------------------------------
(* The actions.                                                            *)

\* The first job of the queue.
LEMMA JobFacts ==
  ASSUME GoodInv, NEW name, RunJob(name)
  PROVE  /\ Good(made, st, val, callbacks, Tail(queue), pairs, agg, parent, ran')
         /\ queue # <<>> /\ made' = made /\ parent' = parent
         /\ ran' = ran \cup ({Current.handler.next} \ {0})
         /\ CurrentFn.fn = name /\ CurrentFn \in {Current.handler.onFulfilled, Current.handler.onRejected}
         /\ Current.value.kind = "plain"
         /\ \E p \in 1 .. made :
              /\ st[p] # "pending" /\ Current.state = st[p] /\ Current.value = val[p]
              /\ HandlerOf(p, Current.handler, made, pairs, agg, parent, ran)
<1>1. queue # <<>> /\ made' = made /\ parent' = parent BY DEF RunJob
<1>2. CurrentFn.fn = name /\ ran' = ran \cup ({Current.handler.next} \ {0})
  BY DEF RunJob, CurrentFn, Current
<1>3. CurrentFn \in {Current.handler.onFulfilled, Current.handler.onRejected} BY DEF CurrentFn
<1>4. Good(made, st, val, callbacks, Tail(queue), pairs, agg, parent, ran')
  BY <1>1, <1>2, HeadKeeps DEF GoodInv, Current
<1>5. 1 \in 1 .. Len(queue) /\ Current = queue[1]
  <2>1. IsSeq(queue) BY DEF GoodInv, Good, Fit, Typed
  <2> QED BY <1>1, <2>1, SeqTail DEF Current
<1>6. PICK p \in 1 .. made : /\ st[p] # "pending" /\ Current = Job(Current.handler, st[p], val[p])
                             /\ HandlerOf(p, Current.handler, made, pairs, agg, parent, ran)
  BY <1>5 DEF GoodInv, Good, Fit, Scheduled, JobFits
<1>7. Current.state = st[p] /\ Current.value = val[p] BY <1>6 DEF Job
<1>8. val[p].kind = "plain"
  <2>1. p \in Ids BY BoundsAssumption DEF GoodInv, Good, Fit, Typed, Ids
  <2> QED BY <1>6, <2>1 DEF GoodInv, Good, Fit, Settledness
<1> QED BY <1>1, <1>2, <1>3, <1>4, <1>6, <1>7, <1>8

\* What the function of the first job refers to.
LEMMA JobFn ==
  ASSUME GoodInv, NEW name, RunJob(name)
  PROVE  /\ name \in {"none", "user"} =>
              /\ Current.handler.next \in 1 .. made /\ Current.handler.next \notin ran
              /\ parent[Current.handler.next] \in 1 .. made
         /\ name = "adopt" =>
              /\ CurrentFn.to \in DOMAIN pairs /\ Current.handler.next = 0
              /\ \E p \in 1 .. made : /\ pairs[CurrentFn.to].from = Promise(p) /\ st[p] # "pending"
                                      /\ Current.state = st[p] /\ Current.value = val[p]
         /\ name \in {"slot", "resolve", "reject"} =>
              /\ CurrentFn.to \in 1 .. made /\ Current.handler.next = 0
              /\ agg[CurrentFn.to].kind \in {"all", "race"}
         /\ name = "slot" => agg[CurrentFn.to].kind = "all"
<1>1. PICK p \in 1 .. made :
        /\ st[p] # "pending" /\ Current.state = st[p] /\ Current.value = val[p]
        /\ HandlerOf(p, Current.handler, made, pairs, agg, parent, ran)
  BY JobFacts
<1>2. made \in 0 .. N /\ DOMAIN pairs \subseteq Nat /\ Combined(made, agg, parent)
  BY LenProperties DEF GoodInv, Good, Fit, Typed
<1> DEFINE h == Current.handler
           fn == CurrentFn
<1>3. /\ fn.fn \in {"none", "user"} => ThenHandler(p, h, made, parent, ran)
      /\ fn.fn = "adopt" => h.next = 0 /\ fn.to \in DOMAIN pairs /\ pairs[fn.to].from = Promise(p)
      /\ fn.fn \in {"slot", "resolve", "reject"} =>
           h.next = 0 /\ fn.to \in 1 .. made /\ agg[fn.to].kind \in {"all", "race"}
      /\ fn.fn = "slot" => agg[fn.to].kind = "all"
  <2>1. fn \in {h.onFulfilled, h.onRejected} BY JobFacts
  <2> HIDE DEF h, fn
  <2> QED BY <1>1, <1>2, <2>1, HandlerFacts DEF h
<1>4. fn.fn = name BY JobFacts
<1> QED BY <1>1, <1>3, <1>4 DEF ThenHandler

\* The values that users resolve with.
LEMMA ThingsAre ==
  ASSUME NEW x \in Things PROVE Thing(made, x)
BY DEF Things, Thing, Reasons, Plain, Sources

\* The values that users reject with.
LEMMA ReasonsAre ==
  ASSUME NEW r \in Reasons PROVE r.kind = "plain"
BY DEF Reasons, Plain

\* A new promise, with no handlers.
LEMMA CreateGood == GoodInv /\ Create => GoodInv'
<1> SUFFICES ASSUME GoodInv, Create PROVE GoodInv' OBVIOUS
<1>1. /\ made < N /\ made' = made + 1 /\ st' = st /\ val' = val /\ callbacks' = callbacks /\ queue' = queue
      /\ pairs' = pairs /\ agg' = agg /\ parent' = parent /\ ran' = ran
  BY DEF Create, promises
<1>2. /\ made \in 0 .. N /\ pairs \in Seq(Pairs(made)) /\ DOMAIN agg = Ids /\ Combined(made, agg, parent)
      /\ \A o \in Ids : o > made => agg[o].kind = "none"
  BY DEF GoodInv, Good, Fit, Typed, Unmade
<1>3. made + 1 \in made .. N /\ 1 .. made \subseteq 1 .. made + 1 BY <1>1, <1>2, BoundsAssumption
<1>4. pairs \in Seq(Pairs(made + 1))
  <2>1. Sources(made) \subseteq Sources(made + 1) BY <1>3 DEF Sources
  <2>2. Pairs(made) \subseteq Pairs(made + 1) BY <1>3, <2>1 DEF Pairs
  <2> QED BY <1>2, <2>2, SeqSubset
<1>5. \A x \in Seq(1 .. made) : x \in Seq(1 .. made + 1) BY <1>3, SeqSubset, Zenon
<1>6. Combined(made + 1, agg, parent) BY <1>2, <1>5 DEF Combined
<1>7. \A o \in Ids : o > made + 1 => agg[o].kind = "none" BY <1>2 DEF Ids
<1>8. Good(made + 1, st, val, callbacks, queue, pairs, agg, parent, ran)
  BY <1>2, <1>3, <1>4, <1>6, <1>7, Grow DEF GoodInv
<1> QED BY <1>1, <1>8 DEF GoodInv

\* A user calls resolve.
LEMMA UserResolveGood ==
  ASSUME GoodInv, NEW p \in 1 .. made, NEW x \in Things, UserResolve(p, x) PROVE GoodInv'
<1>1. Resolve(p, x, queue, pairs) /\ made' = made /\ agg' = agg /\ parent' = parent /\ ran' = ran
  BY DEF UserResolve
<1>2. Good(made, st', val', callbacks', queue', pairs', agg, parent, ran)
  BY <1>1, ThingsAre, ResolveGood DEF GoodInv
<1> QED BY <1>1, <1>2 DEF GoodInv

\* A user calls reject.
LEMMA UserRejectGood ==
  ASSUME GoodInv, NEW p \in 1 .. made, NEW r \in Reasons, UserReject(p, r) PROVE GoodInv'
<1>1. Reject(p, r, queue) /\ made' = made /\ agg' = agg /\ parent' = parent /\ ran' = ran
  BY DEF UserReject
<1>2. Good(made, st', val', callbacks', queue', pairs', agg, parent, ran)
  BY <1>1, ReasonsAre, RejectGood DEF GoodInv
<1> QED BY <1>1, <1>2 DEF GoodInv

\* A user calls then.
LEMMA ThenGood ==
  ASSUME GoodInv, NEW p \in 1 .. made, NEW f \in {NoFn, UserFn}, NEW g \in {NoFn, UserFn}, Then(p, f, g)
  PROVE  GoodInv'
<1> DEFINE h == Handler(f, g, made + 1)
<1>1. /\ made < N /\ made' = made + 1 /\ Subscribe(p, h, queue)
      /\ parent' = [parent EXCEPT ![made + 1] = p] /\ pairs' = pairs /\ agg' = agg /\ ran' = ran
  BY DEF Then
<1>2. /\ callbacks' = CallbacksAfter(st, callbacks, p, h) /\ queue' = QueueAfter(st, val, queue, p, h)
      /\ st' = st /\ val' = val
  BY <1>1, SubscribeIs
<1>3. Good(made + 1, st, val, CallbacksAfter(st, callbacks, p, h), QueueAfter(st, val, queue, p, h),
           pairs, agg, [parent EXCEPT ![made + 1] = p], ran)
  BY <1>1, ThenKeeps DEF GoodInv
<1> HIDE DEF h
<1> QED BY <1>1, <1>2, <1>3 DEF GoodInv

\* A call of all or race makes a promise.
WithCall(call) == [agg EXCEPT ![made + 1] = call]

\* The record of a call of all or race is entered before its items are subscribed to.
LEMMA CombinatorGood ==
  ASSUME GoodInv, made < N, NEW items \in Seq(1 .. made), NEW call,
         call.kind \in {"all", "race"}, call.items = items,
         call.kind = "all" => DOMAIN call = {"kind", "items", "results", "remaining"}
  PROVE  /\ Good(made + 1, st, val, callbacks, queue, pairs, WithCall(call), parent, ran)
         /\ items \in Seq(1 .. made + 1) /\ made + 1 \in 1 .. made + 1 /\ made + 1 \in Nat
         /\ WithCall(call)[made + 1] = call
<1> DEFINE ag == WithCall(call)
<1>2. /\ made \in 0 .. N /\ pairs \in Seq(Pairs(made)) /\ DOMAIN agg = Ids /\ Combined(made, agg, parent)
      /\ \A o \in Ids : o > made => agg[o].kind = "none" /\ parent[o] = 0
  BY DEF GoodInv, Good, Fit, Typed, Unmade
<1>3. /\ made + 1 \in made .. N /\ made + 1 \in Ids /\ 1 .. made \subseteq 1 .. made + 1
      /\ made + 1 \in Nat /\ made + 1 > made /\ made + 1 \in 1 .. made + 1 /\ made + 1 \notin 1 .. made
  BY <1>2, BoundsAssumption DEF Ids
<1>4. pairs \in Seq(Pairs(made + 1))
  <2>1. Sources(made) \subseteq Sources(made + 1) BY <1>3 DEF Sources
  <2>2. Pairs(made) \subseteq Pairs(made + 1) BY <1>3, <2>1 DEF Pairs
  <2> QED BY <1>2, <2>2, SeqSubset
<1>5. \A x \in Seq(1 .. made) : x \in Seq(1 .. made + 1) BY <1>3, SeqSubset, Zenon
<1>6. ag[made + 1] = call /\ DOMAIN ag = Ids /\ \A o \in Ids : o # made + 1 => ag[o] = agg[o]
  BY <1>2, <1>3 DEF WithCall
<1> HIDE DEF ag
<1>7. Combined(made + 1, ag, parent) BY <1>2, <1>3, <1>5, <1>6 DEF Combined
<1>8. \A o \in Ids : o > made + 1 => ag[o].kind = "none"
  <2>1. \A o \in Ids : o > made + 1 => o > made /\ o # made + 1 BY <1>2 DEF Ids
  <2> QED BY <1>2, <1>6, <2>1
<1>9. \A o \in 1 .. made : ag[o] = agg[o] BY <1>2, <1>3, <1>6, BoundsAssumption DEF Ids
<1>10. Good(made + 1, st, val, callbacks, queue, pairs, ag, parent, ran)
  BY <1>3, <1>4, <1>6, <1>7, <1>8, <1>9, Grow DEF GoodInv
<1> QED BY <1>3, <1>5, <1>6, <1>10 DEF ag

\* A user calls all.
LEMMA AllGood ==
  ASSUME GoodInv, NEW items \in Seq(1 .. made), All(items) PROVE GoodInv'
<1> DEFINE p == made + 1
           call == [kind |-> "all", items |-> items,
                    results |-> [i \in DOMAIN items |-> None], remaining |-> Len(items)]
           handlers == [i \in DOMAIN items |-> Handler(Fn("slot", p, i), Fn("reject", p, 0), 0)]
<1>1. /\ made < N /\ made' = p /\ agg' = WithCall(call) /\ parent' = parent /\ ran' = ran
      /\ IF items = <<>> THEN Resolve(p, Plain(<<>>), queue, pairs)
         ELSE SubscribeEach(items, handlers, queue) /\ pairs' = pairs
  BY DEF All, WithCall
<1>2. /\ Good(p, st, val, callbacks, queue, pairs, agg', parent, ran)
      /\ items \in Seq(1 .. p) /\ p \in 1 .. p /\ p \in Nat /\ agg'[p] = call
  <2>1. /\ call.kind = "all" /\ call.items = items
        /\ DOMAIN call = {"kind", "items", "results", "remaining"}
    OBVIOUS
  <2>2. made < N /\ agg' = WithCall(call) BY <1>1
  <2> HIDE DEF call
  <2> QED BY <2>1, <2>2, CombinatorGood
<1>3. CASE items = <<>>
  <2>1. Thing(p, Plain(<<>>)) BY DEF Thing, Plain
  <2>2. Good(p, st', val', callbacks', queue', pairs', agg', parent, ran)
    BY <1>1, <1>2, <1>3, <2>1, ResolveGood
  <2> QED BY <1>1, <2>2 DEF GoodInv
<1>4. CASE items # <<>>
  <2>1. ASSUME NEW i \in 1 .. Len(items)
        PROVE  HandlerOf(items[i], handlers[i], p, pairs, agg', parent, ran) /\ handlers[i].next = 0
    <3>1. i \in DOMAIN items BY LenProperties
    <3>2. handlers[i] = SlotHandler(p, i) BY <3>1 DEF SlotHandler
    <3>3. agg'[p].kind = "all" /\ agg'[p].items = items BY <1>2
    <3>4. SlotHandler(p, i).next = 0 BY HandlerIn DEF SlotHandler
    <3> HIDE DEF p, handlers
    <3>5. ItemHandler(items[i], SlotHandler(p, i), p, agg') BY <1>2, <3>1, <3>3 DEF ItemHandler
    <3> QED BY <3>2, <3>4, <3>5 DEF HandlerOf
  <2>2. SubscribeEach(items, handlers, queue) /\ pairs' = pairs BY <1>1, <1>4
  <2> HIDE DEF p, handlers
  <2>3. Good(p, st', val', callbacks', queue', pairs, agg', parent, ran)
    BY <1>2, <2>1, <2>2, SubscribeEachGood
  <2> QED BY <1>1, <2>2, <2>3 DEF GoodInv
<1> QED BY <1>3, <1>4

\* A user calls race.
LEMMA RaceGood ==
  ASSUME GoodInv, NEW items \in Seq(1 .. made), Race(items) PROVE GoodInv'
<1> DEFINE p == made + 1
           call == [kind |-> "race", items |-> items]
           handlers == [i \in DOMAIN items |-> Handler(Fn("resolve", p, 0), Fn("reject", p, 0), 0)]
<1>1. /\ made < N /\ made' = p /\ agg' = WithCall(call) /\ parent' = parent /\ ran' = ran
      /\ SubscribeEach(items, handlers, queue) /\ pairs' = pairs
  BY DEF Race, WithCall
<1>2. /\ Good(p, st, val, callbacks, queue, pairs, agg', parent, ran)
      /\ items \in Seq(1 .. p) /\ p \in 1 .. p /\ p \in Nat /\ agg'[p] = call
  <2>1. call.kind = "race" /\ call.items = items OBVIOUS
  <2>2. made < N /\ agg' = WithCall(call) BY <1>1
  <2> HIDE DEF call
  <2> QED BY <2>1, <2>2, CombinatorGood
<1>3. ASSUME NEW i \in 1 .. Len(items)
      PROVE  HandlerOf(items[i], handlers[i], p, pairs, agg', parent, ran) /\ handlers[i].next = 0
  <2>1. i \in DOMAIN items BY LenProperties
  <2>2. handlers[i] = RaceHandler(p) BY <2>1 DEF RaceHandler
  <2>3. agg'[p].kind = "race" /\ agg'[p].items = items BY <1>2
  <2>4. RaceHandler(p).next = 0 BY HandlerIn DEF RaceHandler
  <2> HIDE DEF p, handlers
  <2>5. ItemHandler(items[i], RaceHandler(p), p, agg') BY <1>2, <2>1, <2>3 DEF ItemHandler
  <2> QED BY <2>2, <2>4, <2>5 DEF HandlerOf
<1> HIDE DEF p, handlers
<1>4. Good(p, st', val', callbacks', queue', pairs, agg', parent, ran)
  BY <1>1, <1>2, <1>3, SubscribeEachGood
<1> QED BY <1>1, <1>4 DEF GoodInv

\* A microtask without a handler hands its value on.
LEMMA PassThroughGood == ASSUME GoodInv, PassThrough PROVE GoodInv'
<1> DEFINE next == Current.handler.next
<1>1. RunJob("none") /\ agg' = agg BY DEF PassThrough
<1>2. /\ Good(made, st, val, callbacks, Tail(queue), pairs, agg, parent, ran')
      /\ made' = made /\ parent' = parent /\ Current.value.kind = "plain" /\ next \in 1 .. made
  BY <1>1, JobFacts, JobFn
<1>3. \/ Resolve(next, Current.value, Tail(queue), pairs)
      \/ Reject(next, Current.value, Tail(queue))
  BY DEF PassThrough
<1>4. Thing(made, Current.value) BY <1>2 DEF Thing
<1>5. Good(made, st', val', callbacks', queue', pairs', agg, parent, ran')
  BY <1>2, <1>3, <1>4, ResolveGood, RejectGood
<1> QED BY <1>1, <1>2, <1>5 DEF GoodInv

\* A microtask whose handler returns.
LEMMA UserReturnsGood == ASSUME GoodInv, NEW x \in Things, UserReturns(x) PROVE GoodInv'
<1> DEFINE next == Current.handler.next
<1>1. RunJob("user") /\ agg' = agg BY DEF UserReturns
<1>2. /\ Good(made, st, val, callbacks, Tail(queue), pairs, agg, parent, ran')
      /\ made' = made /\ parent' = parent /\ next \in 1 .. made
  BY <1>1, JobFacts, JobFn
<1>3. Resolve(next, x, Tail(queue), pairs) BY DEF UserReturns
<1>4. Good(made, st', val', callbacks', queue', pairs', agg, parent, ran')
  BY <1>2, <1>3, ThingsAre, ResolveGood
<1> QED BY <1>1, <1>2, <1>4 DEF GoodInv

\* A microtask whose handler throws.
LEMMA UserThrowsGood == ASSUME GoodInv, NEW r \in Reasons, UserThrows(r) PROVE GoodInv'
<1> DEFINE next == Current.handler.next
<1>1. RunJob("user") /\ agg' = agg BY DEF UserThrows
<1>2. /\ Good(made, st, val, callbacks, Tail(queue), pairs, agg, parent, ran')
      /\ made' = made /\ parent' = parent /\ next \in 1 .. made
  BY <1>1, JobFacts, JobFn
<1>3. Reject(next, r, Tail(queue)) BY DEF UserThrows
<1>4. Good(made, st', val', callbacks', queue', pairs', agg, parent, ran')
  BY <1>2, <1>3, ReasonsAre, RejectGood
<1> QED BY <1>1, <1>2, <1>4 DEF GoodInv

\* A microtask in which a promise takes over the state of another.
LEMMA AdoptGood == ASSUME GoodInv, Adopt PROVE GoodInv'
<1>1. RunJob("adopt") /\ agg' = agg BY DEF Adopt
<1>2. /\ Good(made, st, val, callbacks, Tail(queue), pairs, agg, parent, ran')
      /\ made' = made /\ parent' = parent /\ Current.value.kind = "plain"
      /\ CurrentFn.to \in DOMAIN pairs
  BY <1>1, JobFacts, JobFn
<1>3. CallBack(CurrentFn.to, Current.state, Current.value, Tail(queue)) BY DEF Adopt
<1>4. Thing(made, Current.value) BY <1>2 DEF Thing
<1>5. Good(made, st', val', callbacks', queue', pairs', agg, parent, ran')
  BY <1>2, <1>3, <1>4, CallBackGood
<1> QED BY <1>1, <1>2, <1>5 DEF GoodInv

\* A microtask in which an item of a call of all arrives.
LEMMA AllSlotGood == ASSUME GoodInv, AllSlot PROVE GoodInv'
<1> DEFINE p == CurrentFn.to
           results == [agg[p].results EXCEPT ![CurrentFn.i] = Current.value]
<1>1. /\ RunJob("slot") /\ agg' = [agg EXCEPT ![p].results = results, ![p].remaining = @ - 1]
      /\ \/ Resolve(p, Plain(results), Tail(queue), pairs)
         \/ queue' = Tail(queue) /\ st' = st /\ val' = val /\ callbacks' = callbacks /\ pairs' = pairs
  BY DEF AllSlot, promises
<1>2. /\ Good(made, st, val, callbacks, Tail(queue), pairs, agg, parent, ran')
      /\ made' = made /\ parent' = parent /\ p \in 1 .. made /\ agg[p].kind = "all"
  BY <1>1, JobFacts, JobFn
<1>3. /\ made \in 0 .. N /\ pairs \in Seq(Pairs(made)) /\ DOMAIN agg = Ids /\ Combined(made, agg, parent)
      /\ \A o \in Ids : o > made => agg[o].kind = "none"
  BY DEF GoodInv, Good, Fit, Typed, Unmade
<1>4. /\ p \in Ids /\ ~(p > made) /\ made \in made .. N
      /\ \A o \in 1 .. made : o \in Ids
  BY <1>2, <1>3, BoundsAssumption DEF Ids
<1>5. DOMAIN agg[p] = {"kind", "items", "results", "remaining"} BY <1>2, <1>3, <1>4 DEF Combined
<1> DEFINE ag == agg'
<1> HIDE DEF results, p
<1>6. /\ DOMAIN ag = Ids /\ \A o \in Ids : o # p => ag[o] = agg[o]
      /\ ag[p].kind = agg[p].kind /\ ag[p].items = agg[p].items /\ DOMAIN ag[p] = DOMAIN agg[p]
  BY <1>1, <1>3, <1>4, <1>5
<1> HIDE DEF ag
<1>7. Combined(made, ag, parent) BY <1>3, <1>6 DEF Combined
<1>8. \A o \in Ids : o > made => ag[o].kind = "none" BY <1>3, <1>4, <1>6
<1>9. \A o \in 1 .. made : ag[o].kind = agg[o].kind /\ (agg[o].kind # "none" => ag[o].items = agg[o].items)
  BY <1>4, <1>6
<1>10. Good(made, st, val, callbacks, Tail(queue), pairs, ag, parent, ran')
  BY <1>2, <1>3, <1>4, <1>6, <1>7, <1>8, <1>9, Grow
<1>11. Good(made, st', val', callbacks', queue', pairs', ag, parent, ran')
  <2>1. Thing(made, Plain(results)) BY DEF Thing, Plain
  <2>2. CASE Resolve(p, Plain(results), Tail(queue), pairs)
    BY <1>2, <1>10, <2>1, <2>2, ResolveGood
  <2>3. CASE queue' = Tail(queue) /\ st' = st /\ val' = val /\ callbacks' = callbacks /\ pairs' = pairs
    BY <1>10, <2>3
  <2> QED BY <1>1, <2>2, <2>3
<1> QED BY <1>2, <1>11 DEF GoodInv, ag

\* A microtask in which an item of a call of race arrives.
LEMMA RaceResolveGood == ASSUME GoodInv, RaceResolve PROVE GoodInv'
<1>1. RunJob("resolve") /\ agg' = agg BY DEF RaceResolve
<1>2. /\ Good(made, st, val, callbacks, Tail(queue), pairs, agg, parent, ran')
      /\ made' = made /\ parent' = parent /\ Current.value.kind = "plain"
      /\ CurrentFn.to \in 1 .. made
  BY <1>1, JobFacts, JobFn
<1>3. Resolve(CurrentFn.to, Current.value, Tail(queue), pairs) BY DEF RaceResolve
<1>4. Thing(made, Current.value) BY <1>2 DEF Thing
<1>5. Good(made, st', val', callbacks', queue', pairs', agg, parent, ran')
  BY <1>2, <1>3, <1>4, ResolveGood
<1> QED BY <1>1, <1>2, <1>5 DEF GoodInv

\* A microtask in which an item of a call of all or race is rejected.
LEMMA RejectNextGood == ASSUME GoodInv, RejectNext PROVE GoodInv'
<1>1. RunJob("reject") /\ agg' = agg BY DEF RejectNext
<1>2. /\ Good(made, st, val, callbacks, Tail(queue), pairs, agg, parent, ran')
      /\ made' = made /\ parent' = parent /\ Current.value.kind = "plain"
      /\ CurrentFn.to \in 1 .. made
  BY <1>1, JobFacts, JobFn
<1>3. Reject(CurrentFn.to, Current.value, Tail(queue)) BY DEF RejectNext
<1>4. Good(made, st', val', callbacks', queue', pairs', agg, parent, ran')
  BY <1>2, <1>3, RejectGood
<1> QED BY <1>1, <1>2, <1>4 DEF GoodInv

\* A foreign thenable calls back.
LEMMA ForeignCallBackGood ==
  ASSUME GoodInv, NEW c \in DOMAIN pairs, NEW state, NEW y \in Things,
         state # "fulfilled" => y.kind = "plain", ForeignCallBack(c, state, y)
  PROVE  GoodInv'
<1>1. /\ CallBack(c, state, y, queue) /\ made' = made /\ agg' = agg /\ parent' = parent /\ ran' = ran
  BY DEF ForeignCallBack
<1>2. Good(made, st', val', callbacks', queue', pairs', agg, parent, ran)
  BY <1>1, ThingsAre, CallBackGood DEF GoodInv
<1> QED BY <1>1, <1>2 DEF GoodInv

\* The items of all and race are promises that exist.
LEMMA ListsAre == ASSUME NEW items \in ItemLists PROVE items \in Seq(1 .. made)
<1>1. PICK n \in 0 .. 2 : items \in [1 .. n -> 1 .. made] BY DEF ItemLists
<1> DEFINE S == 1 .. made
<1>2. n \in Nat /\ items \in [1 .. n -> S] BY <1>1
<1> HIDE DEF S
<1>3. items \in Seq(S) BY <1>2
<1> QED BY <1>3 DEF S

\* At the start there is nothing that could be out of place.
LEMMA GoodStart == Init => GoodInv
<1> SUFFICES ASSUME Init PROVE GoodInv OBVIOUS
<1> USE BoundsAssumption
<1>1. /\ made = 0 /\ st = [p \in Ids |-> "pending"] /\ val = [p \in Ids |-> None]
      /\ callbacks = [p \in Ids |-> <<>>] /\ queue = <<>> /\ pairs = <<>>
      /\ agg = [p \in Ids |-> [kind |-> "none"]] /\ parent = [p \in Ids |-> 0] /\ ran = {}
  BY DEF Init
<1>2. \A p \in Ids : Len(callbacks[p]) = 0 BY <1>1, SeqEmpty
<1>3. Len(queue) = 0 /\ IsSeq(queue) BY <1>1, SeqEmpty
<1>4. \A n : n = 0 => 1 .. n = {} OBVIOUS
<1>5. Typed(made, st, val, callbacks, queue, pairs, agg, parent, ran)
  <2>1. callbacks \in [Ids -> Seq(Handlers)] BY <1>1
  <2>2. pairs \in Seq(Pairs(made)) BY <1>1
  <2> QED BY <1>1, <1>3, <2>1, <2>2 DEF Typed, States
<1>6. Unmade(made, st, callbacks, agg, parent) BY <1>1 DEF Unmade
<1>7. Combined(made, agg, parent) BY <1>1 DEF Combined
<1>8. Settledness(st, val, callbacks) BY <1>1 DEF Settledness
<1>9. Kept(made, callbacks, pairs, agg, parent, ran) BY <1>2, <1>4 DEF Kept
<1>10. Scheduled(made, st, val, queue, pairs, agg, parent, ran) BY <1>3, <1>4 DEF Scheduled
<1>11. KeptInOrder(callbacks) BY <1>2, <1>4 DEF KeptInOrder
<1>12. JobsInOrder(queue, parent) BY <1>3, <1>4 DEF JobsInOrder
<1>13. NoneForgotten(made, st, callbacks, queue, parent, ran) BY <1>1, <1>4 DEF NoneForgotten
<1> QED BY <1>5, <1>6, <1>7, <1>8, <1>9, <1>10, <1>11, <1>12, <1>13 DEF GoodInv, Good, Fit

\* Every step keeps the invariant.
LEMMA GoodStep == GoodInv /\ [Next]_vars => GoodInv'
<1> SUFFICES ASSUME GoodInv, [Next]_vars PROVE GoodInv' OBVIOUS
<1>1. CASE Create BY <1>1, CreateGood
<1>2. CASE \E p \in 1 .. made, x \in Things : UserResolve(p, x) BY <1>2, UserResolveGood
<1>3. CASE \E p \in 1 .. made, r \in Reasons : UserReject(p, r) BY <1>3, UserRejectGood
<1>4. CASE \E p \in 1 .. made, f, g \in {NoFn, UserFn} : Then(p, f, g) BY <1>4, ThenGood
<1>5. CASE \E items \in ItemLists : All(items) \/ Race(items) BY <1>5, ListsAre, AllGood, RaceGood
<1>6. CASE \E c \in DOMAIN pairs :
             \/ \E y \in Things : ForeignCallBack(c, "fulfilled", y)
             \/ \E r \in Reasons : ForeignCallBack(c, "rejected", r)
  <2>1. \A r \in Reasons : r \in Things /\ r.kind = "plain" BY ReasonsAre DEF Things
  <2> QED BY <1>6, <2>1, ForeignCallBackGood
<1>7. CASE Microtask
  <2>1. CASE PassThrough BY <2>1, PassThroughGood
  <2>2. CASE Adopt BY <2>2, AdoptGood
  <2>3. CASE AllSlot BY <2>3, AllSlotGood
  <2>4. CASE RaceResolve BY <2>4, RaceResolveGood
  <2>5. CASE RejectNext BY <2>5, RejectNextGood
  <2>6. CASE \E x \in Things : UserReturns(x) BY <2>6, UserReturnsGood
  <2>7. CASE \E r \in Reasons : UserThrows(r) BY <2>7, UserThrowsGood
  <2> QED BY <1>7, <2>1, <2>2, <2>3, <2>4, <2>5, <2>6, <2>7 DEF Microtask
<1>8. CASE UNCHANGED vars
  <2>1. /\ made' = made /\ st' = st /\ val' = val /\ callbacks' = callbacks /\ queue' = queue
        /\ pairs' = pairs /\ agg' = agg /\ parent' = parent /\ ran' = ran
    BY <1>8 DEF vars
  <2> QED BY <2>1 DEF GoodInv
<1> QED BY <1>1, <1>2, <1>3, <1>4, <1>5, <1>6, <1>7, <1>8 DEF Next

\* The invariant above holds of every execution: handlers are registered by then, the
\* resolution procedure, all and race only, every job is a handler of a settled promise with
\* its state and value, and no handler is lost between #callbacks and the microtask queue.
THEOREM InvariantHolds == Spec => []GoodInv
<1> QED BY GoodStart, GoodStep, PTL DEF Spec

-----------------------------------------------------------------------------
(* What follows for the handlers of `then'.                                *)

\* In a queue or a list of callbacks, a handler of `then' is there once at most.
Once(n, at, h) == \A k, l \in 1 .. n : k < l => ~(at[k] = h /\ at[l] = h)

\* What occurs in a list, and occurs once, is counted once.
LEMMA OnlyOnce ==
  ASSUME NEW n \in Nat, NEW at, NEW h, NEW i \in 1 .. n, at[i] = h, Once(n, at, h),
         NEW T, T = {k \in 1 .. n : at[k] = h}
  PROVE  Cardinality(T) = 1
<1>1. T = {i}
  <2> SUFFICES ASSUME NEW k \in 1 .. n, at[k] = h PROVE k = i OBVIOUS
  <2>1. ~(k < i) /\ ~(i < k) BY DEF Once
  <2> QED BY <2>1
<1> QED BY <1>1, FS_Singleton

\* What does not occur is counted zero times.
LEMMA None0 ==
  ASSUME NEW n \in Nat, NEW at, NEW h, \A k \in 1 .. n : at[k] # h,
         NEW T, T = {k \in 1 .. n : at[k] = h}
  PROVE  Cardinality(T) = 0
<1>1. T = {} OBVIOUS
<1> QED BY <1>1, FS_EmptySet

\* A promise of `then' whose handler has not run has exactly one handler: it is placed
\* somewhere (NoneForgotten), and the numbers of next grow along each list.
LEMMA GoodHandled == GoodInv => HandledExactlyOnce
<1> SUFFICES ASSUME GoodInv PROVE HandledExactlyOnce OBVIOUS
<1> USE BoundsAssumption
<1>1. /\ made \in 0 .. N /\ st \in [Ids -> States] /\ callbacks \in [Ids -> Seq(Handlers)] /\ IsSeq(queue)
      /\ parent \in [Ids -> 0 .. made] /\ ran \subseteq 1 .. made /\ \A k \in 1 .. made : k \in Ids
  BY DEF GoodInv, Good, Fit, Typed, Ids
<1>2. DOMAIN pairs \subseteq Nat /\ Combined(made, agg, parent)
  BY LenProperties DEF GoodInv, Good, Fit, Typed
<1>3. Len(queue) \in Nat /\ DOMAIN queue = 1 .. Len(queue) BY <1>1, SeqLen
<1> SUFFICES ASSUME NEW h \in 1 .. made, parent[h] # 0
             PROVE
    LET p == parent[h]
        kept == Cardinality({i \in DOMAIN callbacks[p] : callbacks[p][i].next = h})
        jobs == Cardinality({i \in DOMAIN queue : queue[i].handler.next = h})
    IN  IF Settled(p)
        THEN kept = 0 /\ jobs = IF h \in ran THEN 0 ELSE 1
        ELSE kept = 1 /\ jobs = 0 /\ h \notin ran
  BY DEF HandledExactlyOnce
<1> DEFINE p == parent[h]
           cb == callbacks[p]
           n == Len(cb)
           keptAt == [i \in 1 .. n |-> cb[i].next]
           jobAt == [i \in 1 .. Len(queue) |-> queue[i].handler.next]
           keptIn == {i \in DOMAIN cb : cb[i].next = h}
           jobsIn == {i \in DOMAIN queue : queue[i].handler.next = h}
           kept == Cardinality(keptIn)
           jobs == Cardinality(jobsIn)
<1>4. h # 0 /\ p \in 1 .. made /\ p \in Ids BY <1>1
<1>5. n \in Nat /\ DOMAIN cb = 1 .. n /\ cb \in Seq(Handlers) BY <1>1, <1>4, LenProperties
<1>6. keptIn = {i \in 1 .. n : keptAt[i] = h} BY <1>5
<1>7. jobsIn = {i \in 1 .. Len(queue) : jobAt[i] = h} BY <1>3
<1>8. ASSUME NEW i \in 1 .. Len(queue), jobAt[i] = h PROVE st[p] # "pending" /\ h \notin ran
  <2>1. PICK o \in 1 .. made : st[o] # "pending" /\ HandlerOf(o, queue[i].handler, made, pairs, agg, parent, ran)
    BY DEF GoodInv, Good, Fit, Scheduled, JobFits
  <2>2. queue[i].handler.next = h BY <1>8
  <2>3. ThenHandler(o, queue[i].handler, made, parent, ran)
    BY <1>1, <1>2, <1>4, <2>1, <2>2, HandlerFacts
  <2> QED BY <2>1, <2>2, <2>3 DEF ThenHandler
<1>9. Once(Len(queue), jobAt, h)
  <2> SUFFICES ASSUME NEW k \in 1 .. Len(queue), NEW l \in 1 .. Len(queue), k < l,
                      queue[k].handler.next = h, queue[l].handler.next = h
               PROVE  FALSE
    BY DEF Once
  <2>1. h < h BY <1>4 DEF GoodInv, Good, Fit, JobsInOrder
  <2> QED BY <2>1
<1>10. Once(n, keptAt, h)
  <2> SUFFICES ASSUME NEW k \in 1 .. n, NEW l \in 1 .. n, k < l, cb[k].next = h, cb[l].next = h
               PROVE  FALSE
    BY DEF Once
  <2>1. h < h BY <1>4 DEF GoodInv, Good, Fit, KeptInOrder
  <2> QED BY <2>1
<1>11. KeptBy(h, p, callbacks) => \E i \in 1 .. n : keptAt[i] = h BY DEF KeptBy
<1>12. InQueue(h, queue) => \E i \in 1 .. Len(queue) : jobAt[i] = h BY DEF InQueue
<1>13. h \notin ran => KeptBy(h, p, callbacks) \/ InQueue(h, queue)
  BY DEF GoodInv, Good, NoneForgotten, Placed
<1>14. h \in ran => st[p] # "pending" BY DEF GoodInv, Good, NoneForgotten
<1>15. st[p] # "pending" => n = 0
  BY <1>4, SeqEmpty DEF GoodInv, Good, Fit, Settledness
<1>16. 1 .. 0 = {} OBVIOUS
<1> HIDE DEF p, cb, n, keptAt, jobAt, keptIn, jobsIn
<1>17. CASE st[p] = "pending"
  <2>1. h \notin ran BY <1>14, <1>17
  <2>2. jobs = 0
    <3>1. \A i \in 1 .. Len(queue) : jobAt[i] # h BY <1>8, <1>17
    <3> QED BY <1>3, <1>7, <3>1, None0
  <2>3. PICK i \in 1 .. n : keptAt[i] = h BY <1>8, <1>11, <1>12, <1>13, <1>17, <2>1
  <2>4. kept = 1 BY <1>5, <1>6, <1>10, <2>3, OnlyOnce
  <2> QED BY <1>17, <2>1, <2>2, <2>4 DEF Settled, p, cb, keptIn, jobsIn
<1>18. CASE st[p] # "pending"
  <2>1. n = 0 BY <1>15, <1>18
  <2>2. \A i \in 1 .. n : keptAt[i] # h BY <1>16, <2>1
  <2>3. kept = 0 BY <1>5, <1>6, <2>2, None0
  <2>4. h \in ran => jobs = 0
    <3> HAVE h \in ran
    <3>1. \A i \in 1 .. Len(queue) : jobAt[i] # h BY <1>8
    <3> QED BY <1>3, <1>7, <3>1, None0
  <2>5. h \notin ran => jobs = 1
    <3> HAVE h \notin ran
    <3>1. PICK i \in 1 .. Len(queue) : jobAt[i] = h BY <1>11, <1>12, <1>13, <2>2
    <3> QED BY <1>3, <1>7, <1>9, <3>1, OnlyOnce
  <2> QED BY <1>18, <2>3, <2>4, <2>5 DEF Settled, p, cb, keptIn, jobsIn
<1> QED BY <1>17, <1>18

\* The handler of a promise that `then' made is kept once by its parent while that one is
\* pending, is once in the queue when it is settled, and is in neither once it has run: no
\* handler is dropped, doubled or run again, however promises, thenables, all and race
\* are combined and in whatever order they call back.
THEOREM HandledExactlyOnceHolds == Spec => []HandledExactlyOnce
<1> QED BY GoodHandled, InvariantHolds, PTL

\* What runs next was registered before the other waiting handlers of its promise.
LEMMA GoodRunsInOrder ==
  GoodInv /\ [Next]_vars =>
    \A q \in ran' \ ran : \A o \in 1 .. q - 1 : parent[o] = parent[q] => o \in ran
<1> SUFFICES ASSUME GoodInv, [Next]_vars, NEW h \in ran' \ ran, NEW o \in 1 .. h - 1,
                    parent[o] = parent[h], o \notin ran
             PROVE  FALSE
  OBVIOUS
<1> USE BoundsAssumption
<1>1. \E name : RunJob(name)
  <2>1. CASE Microtask
    BY <2>1, Zenon DEF Microtask, PassThrough, Adopt, AllSlot, RaceResolve, RejectNext, UserReturns, UserThrows
  <2>2. CASE ~Microtask
    <3>1. ran' = ran
      BY <2>2 DEF Next, vars, Create, UserResolve, UserReject, Then, All, Race, ForeignCallBack
    <3> QED BY <3>1
  <2> QED BY <2>1, <2>2
<1>2. PICK name : RunJob(name) BY <1>1
<1>3. queue # <<>> /\ h = Current.handler.next /\ h # 0 BY <1>2, JobFacts
<1>4. PICK p \in 1 .. made : st[p] # "pending" /\ HandlerOf(p, Current.handler, made, pairs, agg, parent, ran)
  BY <1>2, JobFacts
<1>5. made \in 0 .. N /\ DOMAIN pairs \subseteq Nat /\ Combined(made, agg, parent) /\ IsSeq(queue)
  BY LenProperties DEF GoodInv, Good, Fit, Typed
<1>6. h \in 1 .. made /\ parent[h] = p
  <2>1. ThenHandler(p, Current.handler, made, parent, ran) BY <1>3, <1>4, <1>5, HandlerFacts
  <2> QED BY <1>3, <2>1 DEF ThenHandler
<1>7. o \in 1 .. made /\ parent[o] = p /\ p # 0 /\ o < h /\ p \in Ids /\ o # 0
  BY <1>5, <1>6 DEF Ids
<1>8. Placed(o, p, callbacks, queue) BY <1>7 DEF GoodInv, Good, NoneForgotten
<1>9. callbacks[p] = <<>> BY <1>4, <1>7 DEF GoodInv, Good, Fit, Settledness
<1>10. ~KeptBy(o, p, callbacks)
  <2>1. Len(callbacks[p]) = 0 BY <1>9, SeqEmpty
  <2> QED BY <2>1 DEF KeptBy
<1>11. PICK j \in 1 .. Len(queue) : queue[j].handler.next = o
  BY <1>8, <1>10 DEF Placed, InQueue
<1>12. /\ 1 \in 1 .. Len(queue) /\ queue[1].handler.next = h /\ Len(queue) \in Nat
  BY <1>3, <1>5, SeqTail DEF Current
<1>13. j # 1 BY <1>7, <1>11, <1>12
<1>14. 1 < j BY <1>12, <1>13
<1>15. h < o BY <1>3, <1>6, <1>7, <1>11, <1>12, <1>14 DEF GoodInv, Good, Fit, JobsInOrder
<1> QED BY <1>6, <1>7, <1>15

\* Handlers of one promise run in the order in which `then' registered them, whether they
\* were registered before it settled or after.
THEOREM RunInOrderHolds == Spec => RunInOrder
<1> DEFINE Ordered == \A q \in ran' \ ran : \A o \in 1 .. q - 1 : parent[o] = parent[q] => o \in ran
<1>1. GoodInv /\ [Next]_vars => [Ordered]_vars BY GoodRunsInOrder
<1> QED BY <1>1, InvariantHolds, PTL DEF Spec, RunInOrder

-----------------------------------------------------------------------------
(* What a promise is asked to become.                                      *)

Given(ps, p, x) == Append(ps, [to |-> p, from |-> x, called |-> FALSE])

\* The pairs are kept, and the new ones are given to promise t.
PairsKept(t) ==
  /\ \A c \in DOMAIN pairs : /\ c \in DOMAIN pairs' /\ pairs'[c].to = pairs[c].to
                             /\ pairs'[c].from = pairs[c].from
  /\ \A c \in DOMAIN pairs' : c \in DOMAIN pairs \/ pairs'[c].to = t

\* Promise t alone is settled, if it was not.
OnlySettles(t) ==
  /\ \A o \in Ids : o # t => st'[o] = st[o] /\ val'[o] = val[o]
  /\ st[t] # "pending" => st'[t] = st[t] /\ val'[t] = val[t]

\* The rest of the state, for the other promises.
RestKept(t) ==
  /\ made \in 0 .. N /\ made' >= made /\ made' \in Nat /\ DOMAIN asked' = Ids
  /\ \A o \in Ids : o # t =>
       /\ asked'[o] = asked[o] /\ agg'[o].kind = agg[o].kind /\ parent'[o] = parent[o]
       /\ o \in ran' <=> o \in ran
       /\ o \in again => o \in again'

\* A step that is about one promise.
LEMMA AskedOthers ==
  ASSUME AskedInv, NEW t \in Ids, PairsKept(t), OnlySettles(t), RestKept(t), AskedAt(t)'
  PROVE  AskedInv'
<1> USE BoundsAssumption
<1> SUFFICES ASSUME NEW p \in Ids, p # t PROVE AskedAt(p)'
  BY DEF AskedInv, RestKept
<1>1. AskedAt(p) BY DEF AskedInv
<1>2. /\ st'[p] = st[p] /\ val'[p] = val[p] /\ asked'[p] = asked[p] /\ agg'[p].kind = agg[p].kind
      /\ parent'[p] = parent[p] /\ (p \in ran' <=> p \in ran) /\ (p \in again => p \in again')
      /\ made \in 0 .. N /\ made' >= made /\ made' \in Nat
  BY DEF OnlySettles, RestKept
<1>3. \A c \in DOMAIN pairs' : pairs'[c].to = p =>
        c \in DOMAIN pairs /\ pairs[c].to = p /\ pairs'[c].from = pairs[c].from
  BY DEF PairsKept
<1>4. CASE asked[p] = <<>> BY <1>1, <1>2, <1>3, <1>4 DEF AskedAt
<1>5. CASE asked[p] # <<>> /\ p \in again BY <1>1, <1>2, <1>5 DEF AskedAt
<1>6. CASE asked[p] # <<>> /\ p \notin again
  <2>1. p \in 1 .. made /\ agg[p].kind = "none" /\ (parent[p] # 0 => p \in ran) /\ PairsFit(p) /\ Met(p)
    BY <1>1, <1>6 DEF AskedAt
  <2>2. PairsFit(p)' BY <1>2, <1>3, <2>1 DEF PairsFit
  <2>3. Met(p)'
    <3> DEFINE x == asked[p][2]
    <3>1. CASE asked[p][1] = "reject" BY <1>2, <2>1, <3>1 DEF Met
    <3>2. CASE asked[p][1] # "reject" /\ x.kind = "plain" /\ st[p] = "fulfilled" /\ val[p] = x
      BY <1>2, <2>1, <3>2 DEF Met
    <3>3. CASE /\ asked[p][1] # "reject" /\ x.kind = "promise" /\ x.is = p
               /\ st[p] = "rejected" /\ val[p] = Plain(TypeError)
      BY <1>2, <2>1, <3>3 DEF Met
    <3>4. CASE /\ asked[p][1] # "reject" /\ x.kind = "promise" /\ x.is # p /\ x.is \in 1 .. made
               /\ Settled(p) => Settled(x.is) /\ st[p] = st[x.is] /\ val[p] = val[x.is]
      <4>1. x.is \in Ids /\ x.is \in 1 .. made' BY <1>2, <3>4 DEF Ids
      <4>2. st[p] # "pending" =>
              /\ st[x.is] # "pending" /\ st'[x.is] = st[x.is] /\ val'[x.is] = val[x.is]
              /\ st[p] = st[x.is] /\ val[p] = val[x.is]
        BY <3>4, <4>1 DEF Settled, OnlySettles
      <4>3. asked[p][1] = "resolve" BY <2>1, <3>4 DEF Met
      <4> QED BY <1>2, <3>4, <4>1, <4>2, <4>3 DEF Met, Settled
    <3>5. CASE /\ asked[p][1] # "reject" /\ x.kind = "thenable"
               /\ \E c \in DOMAIN pairs : pairs[c].to = p
      <4>1. \E c \in DOMAIN pairs' : pairs'[c].to = p BY <3>5 DEF PairsKept
      <4> QED BY <1>2, <2>1, <3>5, <4>1 DEF Met
    <3> QED BY <2>1, <3>1, <3>2, <3>3, <3>4, <3>5 DEF Met
  <2>4. p \in 1 .. made' BY <1>2, <2>1
  <2> QED BY <1>2, <1>6, <2>1, <2>2, <2>3, <2>4 DEF AskedAt
<1> QED BY <1>4, <1>5, <1>6

\* Settling.
LEMMA SettleDoes ==
  ASSUME GoodInv, NEW p \in Ids, NEW state, NEW value, NEW q, Settle(p, state, value, q)
  PROVE  OnlySettles(p) /\ (st[p] = "pending" => st'[p] = state /\ val'[p] = value)
<1>0. DOMAIN st = Ids /\ DOMAIN val = Ids BY DEF GoodInv, Good, Fit, Typed
<1>1. CASE st[p] # "pending"
  <2>1. st' = st /\ val' = val BY <1>1 DEF Settle, promises
  <2> QED BY <1>1, <2>1 DEF OnlySettles
<1>2. CASE st[p] = "pending"
  <2>1. st' = [st EXCEPT ![p] = state] /\ val' = [val EXCEPT ![p] = value] BY <1>2 DEF Settle
  <2> QED BY <1>0, <1>2, <2>1 DEF OnlySettles
<1> QED BY <1>1, <1>2

\* A step that settles nothing settles nobody else.
LEMMA SameSettles == ASSUME st' = st, val' = val, NEW p PROVE OnlySettles(p)
BY DEF OnlySettles

\* What the resolution procedure makes of p.
Becomes(p, x, ps) ==
  \/ /\ x.kind = "promise" /\ x.is = p /\ pairs' = ps
     /\ st[p] = "pending" => st'[p] = "rejected" /\ val'[p] = Plain(TypeError)
  \/ x.kind = "promise" /\ x.is # p /\ pairs' = Given(ps, p, x) /\ st' = st /\ val' = val
  \/ x.kind = "thenable" /\ pairs' = Given(ps, p, x)
  \/ /\ x.kind = "plain" /\ pairs' = ps
     /\ st[p] = "pending" => st'[p] = "fulfilled" /\ val'[p] = x

\* The resolution procedure settles p, or gives a pair of callbacks to what p follows.
LEMMA ResolvePromiseDoes ==
  ASSUME GoodInv, NEW p \in Ids, NEW x, NEW q, NEW ps, ResolvePromise(p, x, q, ps)
  PROVE  OnlySettles(p) /\ Becomes(p, x, ps)
<1> DEFINE c == Len(ps) + 1
           h == Handler(Fn("adopt", c, 0), Fn("adopt", c, 0), 0)
<1>1. CASE x.kind = "promise" /\ x.is = p /\ Settle(p, "rejected", Plain(TypeError), q) /\ pairs' = ps
  BY <1>1, SettleDoes DEF Becomes
<1>2. CASE x.kind = "promise" /\ x.is # p /\ Subscribe(x.is, h, q) /\ pairs' = Given(ps, p, x)
  <2>1. st' = st /\ val' = val BY <1>2, SubscribeIs
  <2> QED BY <1>2, <2>1, SameSettles DEF Becomes
<1>3. CASE /\ x.kind = "thenable" /\ pairs' = Given(ps, p, x)
           /\ \/ queue' = q /\ UNCHANGED promises
              \/ \E r \in Reasons : Settle(p, "rejected", r, q)
  <2>1. CASE UNCHANGED promises
    <3>1. st' = st /\ val' = val BY <2>1 DEF promises
    <3> QED BY <1>3, <3>1, SameSettles DEF Becomes
  <2>2. CASE \E r \in Reasons : Settle(p, "rejected", r, q)
    BY <1>3, <2>2, SettleDoes DEF Becomes
  <2> QED BY <1>3, <2>1, <2>2
<1>4. CASE x.kind = "plain" /\ Settle(p, "fulfilled", x, q) /\ pairs' = ps
  BY <1>4, SettleDoes DEF Becomes
<1> QED BY <1>1, <1>2, <1>3, <1>4, Zenon DEF ResolvePromise, Given

\* The pairs after it.
LEMMA GivenIs ==
  ASSUME NEW S, NEW ps \in Seq(S), NEW p, NEW x
  PROVE  /\ DOMAIN ps \subseteq DOMAIN Given(ps, p, x)
         /\ \A c \in DOMAIN ps : Given(ps, p, x)[c] = ps[c]
         /\ \A c \in DOMAIN Given(ps, p, x) :
              c \in DOMAIN ps \/ (Given(ps, p, x)[c].to = p /\ Given(ps, p, x)[c].from = x)
         /\ \E c \in DOMAIN Given(ps, p, x) : Given(ps, p, x)[c].to = p
<1> DEFINE pair == [to |-> p, from |-> x, called |-> FALSE]
           given == Append(ps, pair)
           T == S \cup {pair}
<1>1. pair.to = p /\ pair.from = x OBVIOUS
<1>2. ps \in Seq(T) /\ pair \in T
  <2>1. S \subseteq T OBVIOUS
  <2> HIDE DEF T
  <2>2. ps \in Seq(T) BY <2>1, SeqSubset
  <2> QED BY <2>2 DEF T
<1> HIDE DEF pair, T
<1>3. /\ given \in Seq(T) /\ Len(ps) \in Nat /\ DOMAIN ps = 1 .. Len(ps)
      /\ DOMAIN given = 1 .. Len(ps) + 1
      /\ \A c \in 1 .. Len(ps) : given[c] = ps[c]
      /\ given[Len(ps) + 1] = pair
  BY <1>2, AppendProperties, LenProperties
<1>4. Given(ps, p, x) = given BY DEF Given, pair
<1> HIDE DEF given
<1>5. \A c \in 1 .. Len(ps) + 1 : c \in 1 .. Len(ps) \/ c = Len(ps) + 1 BY <1>3
<1>6. Len(ps) + 1 \in 1 .. Len(ps) + 1 BY <1>3
<1> QED BY <1>1, <1>3, <1>4, <1>5, <1>6

\* The state's types, as they are needed here.
LEMMA AskedTypes ==
  ASSUME GoodInv
  PROVE  /\ made \in 0 .. N /\ \A p \in 1 .. made : p \in Ids
         /\ \A p \in Ids : p > made => st[p] = "pending" /\ agg[p].kind = "none" /\ parent[p] = 0
         /\ \A p \in Ids : parent[p] # 0 => agg[p].kind = "none"
         /\ \E S : pairs \in Seq(S)
         /\ \A c \in DOMAIN pairs : pairs[c].to \in 1 .. made
         /\ ran \subseteq 1 .. made
<1> USE BoundsAssumption
<1>1. /\ made \in 0 .. N /\ pairs \in Seq(Pairs(made)) /\ ran \subseteq 1 .. made
      /\ Unmade(made, st, callbacks, agg, parent) /\ Combined(made, agg, parent)
  BY DEF GoodInv, Good, Fit, Typed
<1>2. \A c \in DOMAIN pairs : pairs[c].to \in 1 .. made
  <2> TAKE c \in DOMAIN pairs
  <2>1. pairs[c] \in Pairs(made) BY <1>1, LenProperties, ElementOfSeq
  <2> QED BY <2>1 DEF Pairs
<1>3. \A p \in 1 .. made : p \in Ids BY <1>1 DEF Ids
<1>4. \A p \in Ids : p > made => st[p] = "pending" /\ agg[p].kind = "none" /\ parent[p] = 0
  BY <1>1 DEF Unmade
<1>5. \A p \in Ids : parent[p] # 0 => agg[p].kind = "none" BY <1>1 DEF Combined
<1>6. \E S : pairs \in Seq(S) BY <1>1
<1> QED BY <1>1, <1>2, <1>3, <1>4, <1>5, <1>6

\* A resolve settles p alone, and gives pairs of callbacks for p alone, if it is pending.
LEMMA ResolveDoes ==
  ASSUME GoodInv, NEW p \in 1 .. made, NEW x, NEW q, Resolve(p, x, q, pairs)
  PROVE  OnlySettles(p) /\ PairsKept(p) /\ (st[p] # "pending" => pairs' = pairs)
<1>0. p \in Ids BY AskedTypes
<1>1. CASE st[p] # "pending"
  <2>1. st' = st /\ val' = val /\ pairs' = pairs BY <1>1 DEF Resolve, promises
  <2> QED BY <2>1, SameSettles DEF PairsKept
<1>2. CASE st[p] = "pending"
  <2>1. ResolvePromise(p, x, q, pairs) BY <1>2 DEF Resolve
  <2>2. OnlySettles(p) /\ Becomes(p, x, pairs) BY <1>0, <2>1, ResolvePromiseDoes
  <2>3. PICK S : pairs \in Seq(S) BY AskedTypes
  <2>4. pairs' = pairs \/ pairs' = Given(pairs, p, x) BY <2>2 DEF Becomes
  <2>5. PairsKept(p) BY <2>3, <2>4, GivenIs DEF PairsKept
  <2> QED BY <1>2, <2>2, <2>5
<1> QED BY <1>1, <1>2

\* A promise is asked for the first time: by a resolve, or by a reject.
Asking(t) ==
  /\ asked[t] = <<>> /\ agg[t].kind = "none"
  /\ made' = made /\ agg' = agg /\ parent' = parent
  /\ \A o \in Ids : o # t => (o \in ran' <=> o \in ran)
  /\ parent[t] # 0 => t \in ran'

\* The first thing asked of t: t is pending and no pair of callbacks is given for it.
LEMMA AskingKeeps ==
  ASSUME GoodInv, AskedInv, NEW t \in 1 .. made, NEW what, Asking(t), Ask(t, what)
  PROVE  /\ RestKept(t) /\ asked'[t] = what /\ st[t] = "pending"
         /\ \A c \in DOMAIN pairs : pairs[c].to # t
<1>1. t \in Ids /\ made \in 0 .. N BY AskedTypes
<1>2. DOMAIN asked = Ids /\ AskedAt(t) BY <1>1 DEF AskedInv
<1>3. asked' = [asked EXCEPT ![t] = what] BY DEF Ask, Asking
<1>4. DOMAIN asked' = Ids /\ asked'[t] = what /\ \A o \in Ids : o # t => asked'[o] = asked[o]
  BY <1>1, <1>2, <1>3
<1>5. RestKept(t) BY <1>1, <1>4 DEF RestKept, Asking, Ask
<1>6. st[t] = "pending" /\ \A c \in DOMAIN pairs : pairs[c].to # t BY <1>2 DEF AskedAt, Asking
<1> QED BY <1>4, <1>5, <1>6

\* A promise that was asked nothing is resolved.
LEMMA FirstResolve ==
  ASSUME GoodInv, AskedInv, NEW t \in 1 .. made, NEW x, Thing(made, x), NEW q,
         Asking(t), Ask(t, <<"resolve", x>>), Resolve(t, x, q, pairs)
  PROVE  AskedInv'
<1> DEFINE what == <<"resolve", x>>
<1>0. what # <<>> /\ what[1] = "resolve" /\ what[2] = x OBVIOUS
<1>00. Ask(t, what) OBVIOUS
<1> HIDE DEF what
<1>1. /\ RestKept(t) /\ asked'[t] = what /\ st[t] = "pending"
      /\ \A c \in DOMAIN pairs : pairs[c].to # t
  BY <1>00, AskingKeeps
<1>2. t \in Ids /\ made' = made /\ agg' = agg /\ parent' = parent /\ agg[t].kind = "none"
      /\ (parent[t] # 0 => t \in ran')
  BY AskedTypes DEF Asking
<1>3. ResolvePromise(t, x, q, pairs) BY <1>1 DEF Resolve
<1>4. OnlySettles(t) /\ Becomes(t, x, pairs) BY <1>2, <1>3, ResolvePromiseDoes
<1>5. PICK S : pairs \in Seq(S) BY AskedTypes
<1>6. CASE pairs' = pairs
  <2>1. PairsKept(t) BY <1>6 DEF PairsKept
  <2>2. PairsFit(t)' BY <1>1, <1>6 DEF PairsFit
  <2>3. Met(t)'
    <3>1. x.kind = "promise" /\ x.is = t => st'[t] = "rejected" /\ val'[t] = Plain(TypeError)
      BY <1>1, <1>4 DEF Becomes
    <3>2. x.kind = "plain" => st'[t] = "fulfilled" /\ val'[t] = x BY <1>1, <1>4 DEF Becomes
    <3>3. x.kind = "plain" \/ (x.kind = "promise" /\ x.is = t)
      <4>1. pairs' # Given(pairs, t, x)
        <5>1. \E c \in DOMAIN Given(pairs, t, x) : Given(pairs, t, x)[c].to = t BY <1>5, GivenIs
        <5> QED BY <1>1, <1>6, <5>1
      <4> QED BY <1>4, <4>1 DEF Becomes
    <3> QED BY <1>0, <1>1, <3>1, <3>2, <3>3 DEF Met
  <2>4. AskedAt(t)' BY <1>0, <1>1, <1>2, <2>2, <2>3 DEF AskedAt
  <2> QED BY <1>1, <1>2, <1>4, <2>1, <2>4, AskedOthers
<1>7. CASE /\ pairs' = Given(pairs, t, x)
           /\ \/ x.kind = "promise" /\ x.is # t /\ st' = st /\ val' = val
              \/ x.kind = "thenable"
  <2>1. /\ \A c \in DOMAIN pairs : c \in DOMAIN pairs' /\ pairs'[c] = pairs[c]
        /\ \A c \in DOMAIN pairs' : c \in DOMAIN pairs \/ (pairs'[c].to = t /\ pairs'[c].from = x)
        /\ \E c \in DOMAIN pairs' : pairs'[c].to = t
    BY <1>5, <1>7, GivenIs
  <2>2. PairsKept(t) BY <2>1 DEF PairsKept
  <2>3. PairsFit(t)' BY <1>0, <1>1, <1>7, <2>1 DEF PairsFit
  <2>4. Met(t)'
    <3>1. CASE x.kind = "promise" /\ x.is # t /\ st' = st /\ val' = val
      <4>1. x.is \in 1 .. made' BY <1>2, <3>1, ThingKinds DEF Thing
      <4> QED BY <1>0, <1>1, <3>1, <4>1 DEF Met, Settled
    <3>2. CASE x.kind = "thenable" BY <1>0, <1>1, <2>1, <3>2 DEF Met
    <3> QED BY <1>7, <3>1, <3>2
  <2>5. AskedAt(t)' BY <1>0, <1>1, <1>2, <2>3, <2>4 DEF AskedAt
  <2> QED BY <1>1, <1>2, <1>4, <2>2, <2>5, AskedOthers
<1> QED BY <1>4, <1>6, <1>7 DEF Becomes

\* A promise that was asked nothing is rejected.
LEMMA FirstReject ==
  ASSUME GoodInv, AskedInv, NEW t \in 1 .. made, NEW r, NEW q,
         Asking(t), Ask(t, <<"reject", r>>), Reject(t, r, q)
  PROVE  AskedInv'
<1> DEFINE what == <<"reject", r>>
<1>0. what # <<>> /\ what[1] = "reject" /\ what[2] = r OBVIOUS
<1>00. Ask(t, what) OBVIOUS
<1> HIDE DEF what
<1>1. /\ RestKept(t) /\ asked'[t] = what /\ st[t] = "pending"
      /\ \A c \in DOMAIN pairs : pairs[c].to # t
  BY <1>00, AskingKeeps
<1>2. t \in Ids /\ made' = made /\ agg' = agg /\ parent' = parent /\ agg[t].kind = "none"
      /\ (parent[t] # 0 => t \in ran')
  BY AskedTypes DEF Asking
<1>3. Settle(t, "rejected", r, q) /\ pairs' = pairs BY DEF Reject
<1>4. OnlySettles(t) /\ st'[t] = "rejected" /\ val'[t] = r BY <1>1, <1>2, <1>3, SettleDoes
<1>5. PairsKept(t) BY <1>3 DEF PairsKept
<1>6. PairsFit(t)' BY <1>1, <1>3 DEF PairsFit
<1>7. Met(t)' BY <1>0, <1>1, <1>4 DEF Met
<1>8. AskedAt(t)' BY <1>0, <1>1, <1>2, <1>6, <1>7 DEF AskedAt
<1> QED BY <1>1, <1>2, <1>4, <1>5, <1>8, AskedOthers

\* A promise that is asked nothing: a new one, or one that all or race settles.
LEMMA UnaskedStays ==
  ASSUME AskedInv, NEW t \in Ids, asked[t] = <<>>, pairs' = pairs, asked' = asked,
         OnlySettles(t), RestKept(t), t \notin ran', agg'[t].kind = "none" => st'[t] = "pending"
  PROVE  AskedInv'
<1>1. AskedAt(t) BY DEF AskedInv
<1>2. PairsKept(t) BY DEF PairsKept
<1>3. AskedAt(t)' BY <1>1 DEF AskedAt
<1> QED BY <1>2, <1>3, AskedOthers

\* A pair of callbacks is called back.
LEMMA CallBackAsked ==
  ASSUME GoodInv, AskedInv, NEW c \in DOMAIN pairs, NEW state, NEW y, NEW q,
         CallBack(c, state, y, q), made' = made, agg' = agg, parent' = parent, ran' = ran,
         asked' = asked, again' = again,
         \/ pairs[c].from.kind = "thenable"
         \/ \E o \in 1 .. made : /\ pairs[c].from = Promise(o) /\ st[o] # "pending"
                                 /\ state = st[o] /\ y = val[o]
  PROVE  AskedInv'
<1>0. PICK t : t = pairs[c].to OBVIOUS
<1> DEFINE ps == [pairs EXCEPT ![c].called = TRUE]
<1>1. t \in 1 .. made /\ t \in Ids BY <1>0, AskedTypes
<1>2. AskedAt(t) /\ DOMAIN asked = Ids /\ asked[t] # <<>> BY <1>0, <1>1 DEF AskedInv, AskedAt
<1>3. /\ agg[t].kind = "none" /\ (parent[t] # 0 => t \in ran)
      /\ t \notin again => PairsFit(t) /\ Met(t)
  BY <1>2 DEF AskedAt
<1>4. RestKept(t) BY <1>2, AskedTypes DEF RestKept
<1> DEFINE x == asked[t][2]
<1>5. t \notin again =>
        /\ asked[t][1] = "resolve"
        /\ x.kind = "thenable" \/ (x.kind = "promise" /\ x.is # t /\ pairs[c].from = x)
  BY <1>0, <1>3 DEF PairsFit
<1>6. \A d \in DOMAIN pairs : d \in DOMAIN ps /\ ps[d].to = pairs[d].to /\ ps[d].from = pairs[d].from
  <2>1. pairs \in Seq(Pairs(made)) BY DEF GoodInv, Good, Fit, Typed
  <2>2. \A d \in DOMAIN pairs : pairs[d] \in Pairs(made) BY <2>1, LenProperties, ElementOfSeq
  <2> QED BY <2>2 DEF Pairs
<1>7. DOMAIN ps = DOMAIN pairs OBVIOUS
<1>8. CASE pairs[c].called
  <2>1. st' = st /\ val' = val /\ pairs' = pairs BY <1>8 DEF CallBack, promises
  <2>2. PairsKept(t) /\ OnlySettles(t) BY <2>1 DEF PairsKept, OnlySettles
  <2>3. AskedAt(t)' BY <1>2, <2>1 DEF AskedAt, PairsFit, Met, Settled
  <2> QED BY <1>1, <1>4, <2>2, <2>3, AskedOthers
<1>9. CASE ~pairs[c].called
  <2>1. \/ state = "fulfilled" /\ ResolvePromise(t, y, q, ps)
        \/ state # "fulfilled" /\ Settle(t, "rejected", y, q) /\ pairs' = ps
    BY <1>0, <1>9 DEF CallBack
  <2>2. PICK S : ps \in Seq(S)
    <3>1. PICK S0 : pairs \in Seq(S0) BY AskedTypes
    <3>2. Len(pairs) \in Nat /\ DOMAIN ps = 1 .. Len(pairs) BY <1>7, <3>1, LenProperties
    <3>3. ps = [d \in 1 .. Len(pairs) |-> ps[d]] BY <3>2
    <3> HIDE DEF ps
    <3>4. IsSeq(ps) BY <3>2, <3>3, SeqMake
    <3> QED BY <3>4 DEF IsSeq
  <2> HIDE DEF ps, x
  <2>3. OnlySettles(t) BY <1>1, <2>1, ResolvePromiseDoes, SettleDoes
  <2>4. \/ pairs' = ps
        \/ pairs' = Given(ps, t, y)
    BY <1>1, <2>1, ResolvePromiseDoes DEF Becomes
  <2>5. /\ \A d \in DOMAIN ps : d \in DOMAIN pairs' /\ pairs'[d].to = ps[d].to /\ pairs'[d].from = ps[d].from
        /\ \A d \in DOMAIN pairs' : d \in DOMAIN ps \/ pairs'[d].to = t
    BY <2>2, <2>4, GivenIs
  <2>6. PairsKept(t) BY <1>6, <1>7, <2>5 DEF PairsKept
  <2>7. c \in DOMAIN pairs' /\ pairs'[c].to = t /\ pairs'[c].from = pairs[c].from
    BY <1>0, <2>6 DEF PairsKept
  <2>10. CASE t \in again
    <3>1. AskedAt(t)' BY <1>1, <1>2, <1>3, <2>10 DEF AskedAt
    <3> QED BY <1>1, <1>4, <2>3, <2>6, <3>1, AskedOthers
  <2>8. CASE t \notin again /\ x.kind = "thenable"
    <3>1. PairsFit(t)' BY <1>5, <2>8 DEF PairsFit, x
    <3>2. Met(t)' BY <1>5, <2>7, <2>8 DEF Met, x
    <3>3. AskedAt(t)' BY <1>1, <1>2, <1>3, <3>1, <3>2 DEF AskedAt
    <3> QED BY <1>1, <1>4, <2>3, <2>6, <3>3, AskedOthers
  <2>9. CASE t \notin again /\ x.kind = "promise" /\ x.is # t /\ pairs[c].from = x
    <3>1. PICK o \in 1 .. made : x = Promise(o) /\ st[o] # "pending" /\ state = st[o] /\ y = val[o]
      BY <2>9
    <3>2. x.is = o /\ o # t /\ o \in Ids BY <2>9, <3>1, AskedTypes DEF Promise
    <3>3. y.kind = "plain"
      BY <3>1, <3>2 DEF GoodInv, Good, Fit, Settledness
    <3>4. st[o] \in States BY <3>2 DEF GoodInv, Good, Fit, Typed
    <3>5. st'[o] = st[o] /\ val'[o] = val[o] BY <2>3, <3>2 DEF OnlySettles
    <3>6. pairs' = ps /\ (st[t] = "pending" => st'[t] = state /\ val'[t] = y)
      <4>1. CASE state = "fulfilled" /\ ResolvePromise(t, y, q, ps)
        <5>1. Becomes(t, y, ps) BY <1>1, <4>1, ResolvePromiseDoes
        <5> QED BY <3>3, <4>1, <5>1 DEF Becomes
      <4>2. CASE state # "fulfilled" /\ Settle(t, "rejected", y, q) /\ pairs' = ps
        BY <1>1, <3>1, <3>4, <4>2, SettleDoes DEF States
      <4> QED BY <2>1, <4>1, <4>2
    <3>7. PairsFit(t)'
      <4>1. \A d \in DOMAIN pairs' : d \in DOMAIN pairs /\ pairs'[d].to = pairs[d].to /\ pairs'[d].from = pairs[d].from
        BY <1>6, <1>7, <3>6
      <4> QED BY <1>3, <2>9, <4>1 DEF PairsFit
    <3>8. st[t] # "pending" => st[t] = st[o] /\ val[t] = val[o]
      BY <1>3, <1>5, <2>9, <3>2 DEF Met, Settled, x
    <3>9. st'[t] = st[o] /\ val'[t] = val[o]
      BY <2>3, <3>1, <3>6, <3>8 DEF OnlySettles
    <3>10. Met(t)' BY <1>5, <2>9, <3>1, <3>2, <3>5, <3>9 DEF Met, Settled, x
    <3>11. AskedAt(t)' BY <1>1, <1>2, <1>3, <3>7, <3>10 DEF AskedAt
    <3> QED BY <1>1, <1>4, <2>3, <2>6, <3>11, AskedOthers
  <2> QED BY <1>5, <2>8, <2>9, <2>10 DEF x
<1> QED BY <1>8, <1>9

\* What a handler of `then' returned or threw is the first that is asked of its promise.
LEMMA JobAsks ==
  ASSUME GoodInv, AskedInv, NEW name \in {"none", "user"}, RunJob(name), agg' = agg
  PROVE  Current.handler.next \in 1 .. made /\ Asking(Current.handler.next)
<1> DEFINE t == Current.handler.next
<1>1. /\ made' = made /\ parent' = parent /\ ran' = ran \cup ({t} \ {0})
      /\ t \in 1 .. made /\ t \notin ran /\ parent[t] # 0
  <2>1. made \in 0 .. N /\ parent[t] \in 1 .. made BY JobFn, AskedTypes
  <2>2. \A k \in 1 .. made : k # 0 BY <2>1
  <2> QED BY <2>1, <2>2, JobFacts, JobFn
<1>2. t \in Ids /\ t # 0 /\ agg[t].kind = "none" BY <1>1, AskedTypes
<1>3. asked[t] = <<>> BY <1>1, <1>2 DEF AskedInv, AskedAt
<1> QED BY <1>1, <1>2, <1>3 DEF Asking

\* Jobs of other functions belong to no promise of `then'.
LEMMA OtherJobs ==
  ASSUME GoodInv, NEW name \in {"adopt", "slot", "resolve", "reject"}, RunJob(name)
  PROVE  ran' = ran
BY JobFacts, JobFn

\* The promise of a call of all or race.
LEMMA CombinatorAsked ==
  ASSUME GoodInv, AskedInv, NEW t \in 1 .. made, agg[t].kind \in {"all", "race"},
         made' = made, parent' = parent, ran' = ran, asked' = asked, again' = again, pairs' = pairs,
         \A o \in Ids : agg'[o].kind = agg[o].kind, OnlySettles(t)
  PROVE  AskedInv'
<1>1. t \in Ids /\ made \in 0 .. N BY AskedTypes
<1>2. asked[t] = <<>> /\ DOMAIN asked = Ids BY <1>1 DEF AskedInv, AskedAt
<1>3. t \notin ran BY <1>1, <1>2 DEF AskedInv, AskedAt
<1>4. RestKept(t)
  <2>1. \A o \in Ids : /\ asked'[o] = asked[o] /\ parent'[o] = parent[o]
                        /\ (o \in ran' <=> o \in ran) /\ (o \in again => o \in again')
    OBVIOUS
  <2>2. made' >= made /\ made' \in Nat /\ DOMAIN asked' = Ids BY <1>1, <1>2
  <2> QED BY <1>1, <2>1, <2>2 DEF RestKept
<1>5. agg'[t].kind # "none" BY <1>1
<1> QED BY <1>1, <1>2, <1>3, <1>4, <1>5, UnaskedStays

\* A resolve with a plain value.
LEMMA ResolvePlain ==
  ASSUME GoodInv, NEW p \in Ids, NEW x, x.kind = "plain", NEW q, Resolve(p, x, q, pairs)
  PROVE  OnlySettles(p) /\ pairs' = pairs
<1>1. CASE st[p] # "pending"
  <2>1. st' = st /\ val' = val /\ pairs' = pairs BY <1>1 DEF Resolve, promises
  <2> QED BY <2>1, SameSettles
<1>2. CASE st[p] = "pending"
  <2>1. ResolvePromise(p, x, q, pairs) BY <1>2 DEF Resolve
  <2> QED BY <2>1, ResolvePromiseDoes DEF Becomes
<1> QED BY <1>1, <1>2

\* A new promise.
LEMMA NewAsked ==
  ASSUME GoodInv, AskedInv, made < N, NEW t, t = made + 1, made' = t, ran' = ran,
         asked' = asked, again' = again, pairs' = pairs, OnlySettles(t),
         \A o \in Ids : o # t => agg'[o].kind = agg[o].kind /\ parent'[o] = parent[o],
         agg'[t].kind = "none" => st'[t] = "pending"
  PROVE  AskedInv'
<1> USE BoundsAssumption
<1>1. made \in 0 .. N /\ t \in Ids /\ t \notin 1 .. made /\ made' >= made /\ made' \in Nat
  <2>1. made \in 0 .. N BY AskedTypes
  <2> QED BY <2>1 DEF Ids
<1>2. asked[t] = <<>> /\ DOMAIN asked = Ids BY <1>1 DEF AskedInv, AskedAt
<1>3. t \notin ran BY <1>1, AskedTypes
<1>4. RestKept(t) BY <1>1, <1>2 DEF RestKept
<1> QED BY <1>1, <1>2, <1>3, <1>4, UnaskedStays

\* The calls of the constructor, then, all and race.
LEMMA CallsAsked ==
  ASSUME GoodInv, AskedInv
  PROVE  /\ Create => AskedInv'
         /\ \A p \in 1 .. made, f, g \in {NoFn, UserFn} : Then(p, f, g) => AskedInv'
         /\ \A items \in ItemLists : All(items) \/ Race(items) => AskedInv'
<1> USE BoundsAssumption
<1>0. PICK t : t = made + 1 OBVIOUS
<1>1. made \in 0 .. N /\ DOMAIN agg = Ids /\ DOMAIN parent = Ids
      /\ (made < N => t \in Ids /\ st[t] = "pending")
  <2>1. made \in 0 .. N /\ DOMAIN agg = Ids /\ DOMAIN parent = Ids BY DEF GoodInv, Good, Fit, Typed
  <2>2. made < N => t \in Ids /\ t > made BY <1>0, <2>1 DEF Ids
  <2> QED BY <2>1, <2>2, AskedTypes
<1>2. Create => AskedInv'
  <2> HAVE Create
  <2>1. /\ made < N /\ made' = made + 1 /\ st' = st /\ val' = val /\ pairs' = pairs /\ agg' = agg
        /\ parent' = parent /\ asked' = asked /\ again' = again /\ ran' = ran
    BY DEF Create, promises
  <2>2. OnlySettles(t) BY <2>1, SameSettles
  <2> QED BY <1>0, <1>1, <2>1, <2>2, NewAsked
<1>3. ASSUME NEW p \in 1 .. made, NEW f, NEW g, Then(p, f, g) PROVE AskedInv'
  <2>1. /\ made < N /\ made' = made + 1 /\ pairs' = pairs /\ agg' = agg
        /\ parent' = [parent EXCEPT ![made + 1] = p] /\ asked' = asked /\ again' = again
        /\ ran' = ran
    BY <1>3 DEF Then
  <2>2. st' = st /\ val' = val BY <1>3, SubscribeIs DEF Then
  <2>3. OnlySettles(t) BY <2>2, SameSettles
  <2>4. \A o \in Ids : o # t => parent'[o] = parent[o] BY <1>0, <1>1, <2>1
  <2>5. st'[t] = "pending" BY <1>1, <2>1, <2>2
  <2> QED BY <1>0, <2>1, <2>3, <2>4, <2>5, NewAsked
<1>4. ASSUME NEW items, All(items) PROVE AskedInv'
  <2> DEFINE call == [kind |-> "all", items |-> items,
                      results |-> [i \in DOMAIN items |-> None], remaining |-> Len(items)]
  <2>1. /\ made < N /\ made' = made + 1 /\ agg' = [agg EXCEPT ![made + 1] = call]
        /\ parent' = parent /\ asked' = asked /\ again' = again /\ ran' = ran
        /\ \/ Resolve(made + 1, Plain(<<>>), queue, pairs)
           \/ st' = st /\ val' = val /\ pairs' = pairs
    BY <1>4 DEF All, SubscribeEach
  <2>2. call.kind = "all" OBVIOUS
  <2> HIDE DEF call
  <2>3. agg'[t].kind = "all" /\ \A o \in Ids : o # t => agg'[o] = agg[o] BY <1>0, <1>1, <2>1, <2>2
  <2>4. OnlySettles(t) /\ pairs' = pairs
    <3>1. Plain(<<>>).kind = "plain" BY DEF Plain
    <3> QED BY <1>0, <1>1, <2>1, <3>1, ResolvePlain, SameSettles
  <2> QED BY <1>0, <2>1, <2>3, <2>4, NewAsked
<1>5. ASSUME NEW items, Race(items) PROVE AskedInv'
  <2> DEFINE call == [kind |-> "race", items |-> items]
  <2>1. /\ made < N /\ made' = made + 1 /\ agg' = [agg EXCEPT ![made + 1] = call]
        /\ parent' = parent /\ asked' = asked /\ again' = again /\ ran' = ran
        /\ st' = st /\ val' = val /\ pairs' = pairs
    BY <1>5 DEF Race, SubscribeEach
  <2>2. call.kind = "race" OBVIOUS
  <2> HIDE DEF call
  <2>3. agg'[t].kind = "race" /\ \A o \in Ids : o # t => agg'[o] = agg[o] BY <1>0, <1>1, <2>1, <2>2
  <2>4. OnlySettles(t) BY <2>1, SameSettles
  <2> QED BY <1>0, <2>1, <2>3, <2>4, NewAsked
<1> QED BY <1>2, <1>3, <1>4, <1>5

\* A promise that was asked something is asked once more: if it is settled, nothing happens;
\* if it is pending, it is in `again' from then on.
LEMMA AskedAgain ==
  ASSUME GoodInv, AskedInv, NEW t \in 1 .. made, NEW what, Ask(t, what), asked[t] # <<>>,
         made' = made, agg' = agg, parent' = parent, ran' = ran,
         PairsKept(t), OnlySettles(t), st[t] # "pending" => pairs' = pairs
  PROVE  AskedInv'
<1>1. t \in Ids /\ made \in 0 .. N BY AskedTypes
<1>2. DOMAIN asked = Ids /\ AskedAt(t) BY <1>1 DEF AskedInv
<1>3. DOMAIN asked' = Ids /\ \A o \in Ids : asked'[o] = asked[o] BY <1>1, <1>2 DEF Ask
<1>4. (st[t] = "pending" => t \in again') /\ again \subseteq again' BY DEF Ask
<1>5. RestKept(t) BY <1>1, <1>2, <1>3, <1>4 DEF RestKept
<1>6. CASE st[t] = "pending"
  <2>1. AskedAt(t)' BY <1>1, <1>2, <1>3, <1>4, <1>6 DEF AskedAt
  <2> QED BY <1>1, <1>5, <2>1, AskedOthers
<1>7. CASE st[t] # "pending"
  <2>1. pairs' = pairs /\ st'[t] = st[t] /\ val'[t] = val[t] BY <1>7 DEF OnlySettles
  <2>2. \A o \in Ids : st[o] # "pending" => st'[o] = st[o] /\ val'[o] = val[o]
    BY <2>1 DEF OnlySettles
  <2>3. \A o \in 1 .. made : o \in Ids BY AskedTypes
  <2>4. t \notin again => PairsFit(t)' /\ Met(t)'
    <3> SUFFICES ASSUME t \notin again PROVE PairsFit(t)' /\ Met(t)' OBVIOUS
    <3>1. PairsFit(t) /\ Met(t) BY <1>2 DEF AskedAt
    <3>2. PairsFit(t)' BY <1>1, <1>3, <2>1, <3>1 DEF PairsFit
    <3>3. Met(t)' BY <1>1, <1>3, <1>7, <2>1, <2>2, <2>3, <3>1 DEF Met, Settled
    <3> QED BY <3>2, <3>3
  <2>5. AskedAt(t)' BY <1>1, <1>2, <1>3, <1>4, <2>1, <2>4 DEF AskedAt
  <2> QED BY <1>1, <1>5, <2>5, AskedOthers
<1> QED BY <1>6, <1>7

\* The calls of resolve and reject by a user.
LEMMA UserAsked ==
  ASSUME GoodInv, AskedInv, NEW p \in 1 .. made
  PROVE  /\ \A x \in Things : UserResolve(p, x) => AskedInv'
         /\ \A r \in Reasons : UserReject(p, r) => AskedInv'
<1>1. ASSUME Held(p), asked[p] = <<>>, made' = made, agg' = agg, parent' = parent, ran' = ran
      PROVE  Asking(p)
  <2>1. agg[p].kind = "none" /\ parent[p] = 0 BY <1>1 DEF Held
  <2> QED BY <1>1, <2>1 DEF Asking
<1>2. ASSUME NEW x \in Things, UserResolve(p, x) PROVE AskedInv'
  <2> DEFINE what == <<"resolve", x>>
  <2>1. /\ Held(p) /\ Resolve(p, x, queue, pairs) /\ Ask(p, what)
        /\ made' = made /\ agg' = agg /\ parent' = parent /\ ran' = ran
    BY <1>2 DEF UserResolve
  <2>2. CASE asked[p] = <<>>
    <3>1. Asking(p) BY <1>1, <2>1, <2>2
    <3>2. Thing(made, x) BY ThingsAre
    <3> QED BY <2>1, <3>1, <3>2, FirstResolve
  <2>3. CASE asked[p] # <<>>
    <3>1. OnlySettles(p) /\ PairsKept(p) /\ (st[p] # "pending" => pairs' = pairs)
      BY <2>1, ResolveDoes
    <3> HIDE DEF what
    <3> QED BY <2>1, <2>3, <3>1, AskedAgain
  <2> QED BY <2>2, <2>3
<1>3. ASSUME NEW r \in Reasons, UserReject(p, r) PROVE AskedInv'
  <2> DEFINE what == <<"reject", r>>
  <2>1. /\ Held(p) /\ Reject(p, r, queue) /\ Ask(p, what)
        /\ made' = made /\ agg' = agg /\ parent' = parent /\ ran' = ran
    BY <1>3 DEF UserReject
  <2>2. CASE asked[p] = <<>>
    <3>1. Asking(p) BY <1>1, <2>1, <2>2
    <3> QED BY <2>1, <3>1, FirstReject
  <2>3. CASE asked[p] # <<>>
    <3>1. Settle(p, "rejected", r, queue) /\ pairs' = pairs BY <2>1 DEF Reject
    <3>2. OnlySettles(p) BY <3>1, AskedTypes, SettleDoes
    <3>3. PairsKept(p) BY <3>1 DEF PairsKept
    <3> HIDE DEF what
    <3> QED BY <2>1, <2>3, <3>1, <3>2, <3>3, AskedAgain
  <2> QED BY <2>2, <2>3
<1> QED BY <1>2, <1>3

\* The microtasks of `then'.
LEMMA HandlersAsked ==
  ASSUME GoodInv, AskedInv
  PROVE  /\ PassThrough => AskedInv'
         /\ \A x \in Things : UserReturns(x) => AskedInv'
         /\ \A r \in Reasons : UserThrows(r) => AskedInv'
<1> DEFINE t == Current.handler.next
<1>1. ASSUME PassThrough PROVE AskedInv'
  <2>1. RunJob("none") /\ agg' = agg BY <1>1 DEF PassThrough
  <2>2. t \in 1 .. made /\ Asking(t) BY <2>1, JobAsks
  <2>3. Thing(made, Current.value) BY <2>1, JobFacts DEF Thing
  <2>4. \/ Resolve(t, Current.value, Tail(queue), pairs) /\ Ask(t, <<"resolve", Current.value>>)
        \/ Reject(t, Current.value, Tail(queue)) /\ Ask(t, <<"reject", Current.value>>)
    BY <1>1 DEF PassThrough
  <2> HIDE DEF t
  <2> QED BY <2>2, <2>3, <2>4, FirstResolve, FirstReject
<1>2. ASSUME NEW x \in Things, UserReturns(x) PROVE AskedInv'
  <2>1. RunJob("user") /\ agg' = agg BY <1>2 DEF UserReturns
  <2>2. t \in 1 .. made /\ Asking(t) BY <2>1, JobAsks
  <2>3. Thing(made, x) BY ThingsAre
  <2>4. Resolve(t, x, Tail(queue), pairs) /\ Ask(t, <<"resolve", x>>) BY <1>2 DEF UserReturns
  <2> HIDE DEF t
  <2> QED BY <2>2, <2>3, <2>4, FirstResolve
<1>3. ASSUME NEW r \in Reasons, UserThrows(r) PROVE AskedInv'
  <2>1. RunJob("user") /\ agg' = agg BY <1>3 DEF UserThrows
  <2>2. t \in 1 .. made /\ Asking(t) BY <2>1, JobAsks
  <2>3. Reject(t, r, Tail(queue)) /\ Ask(t, <<"reject", r>>) BY <1>3 DEF UserThrows
  <2> HIDE DEF t
  <2> QED BY <2>2, <2>3, FirstReject
<1> QED BY <1>1, <1>2, <1>3

\* The microtasks of the resolution procedure, all and race, and the calls of thenables.
LEMMA InnerAsked ==
  ASSUME GoodInv, AskedInv
  PROVE  /\ Adopt => AskedInv'
         /\ AllSlot => AskedInv'
         /\ RaceResolve => AskedInv'
         /\ RejectNext => AskedInv'
         /\ \A c \in DOMAIN pairs : \A state, y : ForeignCallBack(c, state, y) => AskedInv'
<1> DEFINE t == CurrentFn.to
<1>0. DOMAIN agg = Ids /\ \A k \in 1 .. made : k \in Ids
  BY AskedTypes DEF GoodInv, Good, Fit, Typed
<1>1. ASSUME Adopt PROVE AskedInv'
  <2>1. RunJob("adopt") /\ agg' = agg /\ asked' = asked /\ again' = again
        /\ CallBack(t, Current.state, Current.value, Tail(queue))
    BY <1>1 DEF Adopt
  <2>2. made' = made /\ parent' = parent /\ ran' = ran BY <2>1, JobFacts, OtherJobs
  <2>3. /\ t \in DOMAIN pairs
        /\ \E p \in 1 .. made : /\ pairs[t].from = Promise(p) /\ st[p] # "pending"
                                /\ Current.state = st[p] /\ Current.value = val[p]
    BY <2>1, JobFn
  <2> HIDE DEF t
  <2> QED BY <2>1, <2>2, <2>3, CallBackAsked
<1>2. ASSUME AllSlot PROVE AskedInv'
  <2> DEFINE results == [agg[t].results EXCEPT ![CurrentFn.i] = Current.value]
  <2>1. /\ RunJob("slot") /\ agg' = [agg EXCEPT ![t].results = results, ![t].remaining = @ - 1]
        /\ asked' = asked /\ again' = again
        /\ \/ Resolve(t, Plain(results), Tail(queue), pairs)
           \/ st' = st /\ val' = val /\ pairs' = pairs
    BY <1>2 DEF AllSlot, promises
  <2>2. made' = made /\ parent' = parent /\ ran' = ran BY <2>1, JobFacts, OtherJobs
  <2>3. t \in 1 .. made /\ t \in Ids /\ agg[t].kind = "all" BY <1>0, <2>1, JobFn
  <2>4. \A o \in Ids : agg'[o].kind = agg[o].kind
    <3>1. DOMAIN agg[t] = {"kind", "items", "results", "remaining"}
      BY <2>3 DEF GoodInv, Good, Fit, Combined
    <3> HIDE DEF t, results
    <3> QED BY <1>0, <2>1, <2>3, <3>1
  <2>5. OnlySettles(t) /\ pairs' = pairs
    <3>1. Plain(results).kind = "plain" BY DEF Plain
    <3> HIDE DEF t, results
    <3> QED BY <2>1, <2>3, <3>1, ResolvePlain, SameSettles
  <2> HIDE DEF t
  <2> QED BY <2>1, <2>2, <2>3, <2>4, <2>5, CombinatorAsked
<1>3. ASSUME RaceResolve PROVE AskedInv'
  <2>1. /\ RunJob("resolve") /\ agg' = agg /\ asked' = asked /\ again' = again
        /\ Resolve(t, Current.value, Tail(queue), pairs)
    BY <1>3 DEF RaceResolve
  <2>2. made' = made /\ parent' = parent /\ ran' = ran /\ Current.value.kind = "plain"
    BY <2>1, JobFacts, OtherJobs
  <2>3. t \in 1 .. made /\ t \in Ids /\ agg[t].kind \in {"all", "race"} BY <1>0, <2>1, JobFn
  <2> HIDE DEF t
  <2>4. OnlySettles(t) /\ pairs' = pairs BY <2>1, <2>2, <2>3, ResolvePlain
  <2> QED BY <2>1, <2>2, <2>3, <2>4, CombinatorAsked
<1>4. ASSUME RejectNext PROVE AskedInv'
  <2>1. /\ RunJob("reject") /\ agg' = agg /\ asked' = asked /\ again' = again /\ pairs' = pairs
        /\ Settle(t, "rejected", Current.value, Tail(queue))
    BY <1>4 DEF RejectNext, Reject
  <2>2. made' = made /\ parent' = parent /\ ran' = ran BY <2>1, JobFacts, OtherJobs
  <2>3. t \in 1 .. made /\ t \in Ids /\ agg[t].kind \in {"all", "race"} BY <1>0, <2>1, JobFn
  <2> HIDE DEF t
  <2>4. OnlySettles(t) BY <2>1, <2>3, SettleDoes
  <2> QED BY <2>1, <2>2, <2>3, <2>4, CombinatorAsked
<1>5. ASSUME NEW c \in DOMAIN pairs, NEW state, NEW y, ForeignCallBack(c, state, y) PROVE AskedInv'
  <2>1. /\ pairs[c].from.kind = "thenable" /\ CallBack(c, state, y, queue)
        /\ made' = made /\ agg' = agg /\ parent' = parent /\ asked' = asked /\ again' = again
        /\ ran' = ran
    BY <1>5 DEF ForeignCallBack
  <2> QED BY <2>1, CallBackAsked
<1> QED BY <1>1, <1>2, <1>3, <1>4, <1>5

\* At the start nothing was asked.
LEMMA AskedStart == Init => AskedInv
<1> SUFFICES ASSUME Init PROVE AskedInv OBVIOUS
<1>1. /\ asked = [p \in Ids |-> <<>>] /\ agg = [p \in Ids |-> [kind |-> "none"]]
      /\ st = [p \in Ids |-> "pending"] /\ pairs = <<>> /\ ran = {}
  BY DEF Init
<1>2. DOMAIN pairs = {} BY <1>1
<1> QED BY <1>1, <1>2 DEF AskedInv, AskedAt

\* Every step keeps AskedInv.
LEMMA AskedStep == GoodInv /\ AskedInv /\ [Next]_vars => AskedInv'
<1> SUFFICES ASSUME GoodInv, AskedInv, [Next]_vars PROVE AskedInv' OBVIOUS
<1>1. CASE Next
  <2>1. CASE Microtask
    <3>1. /\ PassThrough => AskedInv'
          /\ \A x \in Things : UserReturns(x) => AskedInv'
          /\ \A r \in Reasons : UserThrows(r) => AskedInv'
      BY HandlersAsked
    <3>2. /\ Adopt => AskedInv'
          /\ AllSlot => AskedInv'
          /\ RaceResolve => AskedInv'
          /\ RejectNext => AskedInv'
      BY InnerAsked
    <3>3. CASE PassThrough BY <3>1, <3>3
    <3>4. CASE Adopt BY <3>2, <3>4
    <3>5. CASE AllSlot BY <3>2, <3>5
    <3>6. CASE RaceResolve BY <3>2, <3>6
    <3>7. CASE RejectNext BY <3>2, <3>7
    <3>8. CASE \E x \in Things : UserReturns(x) BY <3>1, <3>8
    <3>9. CASE \E r \in Reasons : UserThrows(r) BY <3>1, <3>9
    <3> QED BY <2>1, <3>3, <3>4, <3>5, <3>6, <3>7, <3>8, <3>9 DEF Microtask
  <2>2. CASE ~Microtask
    BY <1>1, <2>2, CallsAsked, UserAsked, InnerAsked DEF Next
  <2> QED BY <2>1, <2>2
<1>2. CASE UNCHANGED vars
  <2>1. /\ made' = made /\ st' = st /\ val' = val /\ pairs' = pairs /\ agg' = agg
        /\ parent' = parent /\ asked' = asked /\ again' = again /\ ran' = ran
    BY <1>2 DEF vars
  <2> QED BY <2>1 DEF AskedInv, AskedAt, PairsFit, Met, Settled
<1> QED BY <1>1, <1>2

\* What AskedInv says of settled promises is FirstResolutionWins.
LEMMA AskedWins == GoodInv /\ AskedInv => FirstResolutionWins
<1> SUFFICES ASSUME GoodInv, AskedInv, NEW p \in Ids \ again, Settled(p), asked[p] # <<>>
             PROVE  LET x == asked[p][2] IN
                    IF asked[p][1] = "reject" THEN st[p] = "rejected" /\ val[p] = x
                    ELSE CASE x.kind = "plain" -> st[p] = "fulfilled" /\ val[p] = x
                           [] x.kind = "promise" /\ x.is = p -> st[p] = "rejected" /\ val[p] = Plain(TypeError)
                           [] x.kind = "promise" /\ x.is # p -> st[p] = st[x.is] /\ val[p] = val[x.is]
                           [] x.kind = "thenable" -> \E c \in DOMAIN pairs : pairs[c].to = p
  BY DEF FirstResolutionWins
<1>1. Met(p) BY DEF AskedInv, AskedAt
<1> QED BY <1>1 DEF Met

\* A promise that settles becomes what it was asked first, even if a thenable calls back
\* late, twice, or both ways, if promises are resolved with each other, and if resolve and
\* reject are called again once it has settled: unless one of them was called again before,
\* while it followed a pending promise or thenable.
THEOREM FirstResolutionWinsHolds == Spec => []FirstResolutionWins
<1> QED BY AskedStart, AskedStep, AskedWins, InvariantHolds, PTL DEF Spec

-----------------------------------------------------------------------------
(* The handlers of all and race, and what they make of their promise.      *)

\* Where a handler that calls x waits: with promise o, or in the queue (o = 0).
Waits(x, o, k, cb, q) ==
  \/ o = 0 /\ k \in 1 .. Len(q) /\ q[k].handler.onFulfilled = x
  \/ o \in Ids /\ k \in 1 .. Len(cb[o]) /\ cb[o][k].onFulfilled = x

Waiting(x, cb, q) == \E o, k \in Nat : Waits(x, o, k, cb, q)

\* It waits once at most.
Single(x, cb, q) ==
  \A o, k, o2, k2 \in Nat : Waits(x, o, k, cb, q) /\ Waits(x, o2, k2, cb, q) => o = o2 /\ k = k2

\* The items of a call of all that have not arrived.
Slot(p, i) == Fn("slot", p, i)
Missing(p) == {i \in DOMAIN agg[p].items : Waiting(Slot(p, i), callbacks, queue)}

\* What is known of a call of all: no handler of an item waits twice; while the promise is
\* pending, remaining counts the items whose handler waits, and the results of the others
\* are their values.
AllAt(p) ==
  agg[p].kind = "all" =>
    /\ \A i \in DOMAIN agg[p].items : Single(Slot(p, i), callbacks, queue)
    /\ st[p] = "pending" =>
         /\ agg[p].remaining = Cardinality(Missing(p))
         /\ DOMAIN agg[p].results = DOMAIN agg[p].items
         /\ \A i \in DOMAIN agg[p].items \ Missing(p) :
              st[agg[p].items[i]] = "fulfilled" /\ agg[p].results[i] = val[agg[p].items[i]]

\* What CombinatorsMatchItems says of one promise.
MatchAt(p) ==
  /\ IsAll(p) /\ st[p] = "fulfilled" =>
       /\ Len(val[p].is) = Len(agg[p].items)
       /\ \A i \in DOMAIN agg[p].items :
            st[agg[p].items[i]] = "fulfilled" /\ val[p].is[i] = val[agg[p].items[i]]
  /\ (IsAll(p) /\ st[p] = "rejected") \/ (IsRace(p) /\ Settled(p)) =>
       \E i \in DOMAIN agg[p].items :
         st[agg[p].items[i]] = st[p] /\ val[agg[p].items[i]] = val[p]

\* The promise of a call of all or race follows no other promise and no thenable.
PairsOut == \A c \in DOMAIN pairs : agg[pairs[c].to].kind = "none"

CombInv == PairsOut /\ \A p \in Ids : AllAt(p) /\ MatchAt(p)

\* The handlers that call x wait where they did, or where they went.
Keeps(x, cb, q, cb2, q2) ==
  /\ Single(x, cb, q) => Single(x, cb2, q2)
  /\ Waiting(x, cb2, q2) <=> Waiting(x, cb, q)

\* What the moves need to know of the callbacks and the queue.
Shape(cb, q) == DOMAIN cb = Ids /\ (\A o \in Ids : IsSeq(cb[o])) /\ IsSeq(q)

\* Moves can be composed.
LEMMA KeepsTwice ==
  ASSUME NEW x, NEW cb, NEW q, NEW cb2, NEW q2, NEW cb3, NEW q3,
         Keeps(x, cb, q, cb2, q2), Keeps(x, cb2, q2, cb3, q3)
  PROVE  Keeps(x, cb, q, cb3, q3)
BY DEF Keeps

\* The queue is no promise.
LEMMA QueueIsNone == 0 \notin Ids /\ Ids \subseteq Nat
BY BoundsAssumption DEF Ids

\* In the state of the invariant.
LEMMA GoodShape ==
  ASSUME NEW m, NEW s, NEW v, NEW cb, NEW q, NEW ps, NEW ag, NEW pa, NEW rn,
         Good(m, s, v, cb, q, ps, ag, pa, rn)
  PROVE  Shape(cb, q)
<1>1. cb \in [Ids -> Seq(Handlers)] /\ IsSeq(q) BY DEF Good, Fit, Typed
<1>2. \A o \in Ids : IsSeq(cb[o])
  <2> TAKE o \in Ids
  <2>1. cb[o] \in Seq(Handlers) BY <1>1
  <2> QED BY <2>1, SeqIs
<1> QED BY <1>1, <1>2 DEF Shape

\* Settling: what waits with p goes to the end of the queue.
LEMMA SettleMoves ==
  ASSUME NEW cb, NEW q, Shape(cb, q), NEW p \in Ids, NEW state, NEW value, NEW x
  PROVE  /\ Keeps(x, cb, q, [cb EXCEPT ![p] = <<>>], q \o JobsOf(cb, p, state, value))
         /\ Shape([cb EXCEPT ![p] = <<>>], q \o JobsOf(cb, p, state, value))
<1> DEFINE cb2 == [cb EXCEPT ![p] = <<>>]
           jobs == JobsOf(cb, p, state, value)
           q2 == q \o jobs
           n == Len(cb[p])
           L == Len(q)
           W1(o, k) == Waits(x, o, k, cb, q)
           W2(o, k) == Waits(x, o, k, cb2, q2)
<1>1. DOMAIN cb = Ids /\ IsSeq(cb[p]) /\ IsSeq(q) /\ 0 # p /\ p \in Nat /\ 0 \notin Ids
  BY QueueIsNone DEF Shape
<1>2. n \in Nat /\ L \in Nat /\ DOMAIN cb[p] = 1 .. n BY <1>1, SeqLen
<1>3. IsSeq(jobs) /\ Len(jobs) = n /\ \A k \in 1 .. n : jobs[k].handler = cb[p][k]
  <2>1. jobs = [k \in 1 .. n |-> jobs[k]] BY <1>2 DEF JobsOf
  <2>2. \A k \in 1 .. n : jobs[k].handler = cb[p][k] BY <1>2 DEF JobsOf, Job
  <2> HIDE DEF jobs, n
  <2> QED BY <1>2, <2>1, <2>2, SeqMake
<1> HIDE DEF jobs
<1>4. /\ IsSeq(q2) /\ Len(q2) = L + n /\ \A k \in 1 .. L : q2[k] = q[k]
      /\ \A k \in 1 .. n : q2[L + k] = jobs[k]
  BY <1>1, <1>3, SeqCat
<1>5. DOMAIN cb2 = Ids /\ cb2[p] = <<>> /\ \A o \in Ids : o # p => cb2[o] = cb[o] BY <1>1
<1>6. Len(cb2[p]) = 0 /\ IsSeq(cb2[p]) BY <1>5, SeqEmpty
<1> HIDE DEF cb2, q2, n, L
<1>7. ASSUME NEW o \in Nat, NEW k \in Nat, W2(o, k)
      PROVE  \/ o # p /\ W1(o, k) /\ ~(o = 0 /\ k > L)
             \/ o = 0 /\ k > L /\ k - L \in Nat /\ W1(p, k - L)
  <2>1. CASE o = 0
    <3>1. k \in 1 .. Len(q2) /\ q2[k].handler.onFulfilled = x BY <1>1, <1>7, <2>1 DEF Waits
    <3>2. CASE k <= L
      <4>1. k \in 1 .. L BY <1>2, <3>1, <3>2
      <4> QED BY <1>1, <1>2, <1>4, <2>1, <3>1, <4>1 DEF Waits, L
    <3>3. CASE ~(k <= L)
      <4>1. k - L \in 1 .. n /\ L + (k - L) = k /\ k > L /\ k - L \in Nat BY <1>2, <1>4, <3>1, <3>3
      <4>2. cb[p][k - L].onFulfilled = x BY <1>3, <1>4, <3>1, <4>1
      <4>3. W1(p, k - L) BY <4>1, <4>2 DEF Waits, n
      <4> QED BY <2>1, <4>1, <4>3
    <3> QED BY <3>2, <3>3
  <2>2. CASE o # 0
    <3>1. o \in Ids /\ k \in 1 .. Len(cb2[o]) /\ cb2[o][k].onFulfilled = x BY <1>7, <2>2 DEF Waits
    <3>2. o # p
      <4> SUFFICES ASSUME o = p PROVE FALSE OBVIOUS
      <4> QED BY <1>6, <3>1
    <3> QED BY <1>5, <2>2, <3>1, <3>2 DEF Waits
  <2> QED BY <2>1, <2>2
<1>8. ASSUME NEW o \in Nat, NEW k \in Nat, W1(o, k)
      PROVE  \/ o # p /\ W2(o, k)
             \/ o = p /\ L + k \in Nat /\ W2(0, L + k)
  <2>1. CASE o = 0
    <3>1. k \in 1 .. L /\ q[k].handler.onFulfilled = x BY <1>1, <1>8, <2>1 DEF Waits, L
    <3>2. k \in 1 .. Len(q2) /\ q2[k] = q[k] BY <1>2, <1>4, <3>1
    <3> QED BY <1>1, <2>1, <3>1, <3>2 DEF Waits
  <2>2. CASE o # 0 /\ o # p
    <3>1. o \in Ids /\ k \in 1 .. Len(cb[o]) /\ cb[o][k].onFulfilled = x BY <1>8, <2>2 DEF Waits
    <3> QED BY <1>5, <2>2, <3>1 DEF Waits
  <2>3. CASE o = p
    <3>1. k \in 1 .. n /\ cb[p][k].onFulfilled = x BY <1>1, <1>8, <2>3 DEF Waits, n
    <3>2. L + k \in 1 .. Len(q2) /\ q2[L + k].handler.onFulfilled = x /\ L + k \in Nat
      BY <1>2, <1>3, <1>4, <3>1
    <3> QED BY <2>3, <3>2 DEF Waits
  <2> QED BY <2>1, <2>2, <2>3
<1> HIDE DEF W1, W2
<1>9. Waiting(x, cb2, q2) <=> Waiting(x, cb, q)
  <2>1. (\E o, k \in Nat : W2(o, k)) <=> \E o, k \in Nat : W1(o, k) BY <1>1, <1>7, <1>8
  <2> QED BY <2>1 DEF Waiting, W1, W2
<1>10. Single(x, cb, q) => Single(x, cb2, q2)
  <2> SUFFICES ASSUME \A o, k, o2, k2 \in Nat : W1(o, k) /\ W1(o2, k2) => o = o2 /\ k = k2,
                      NEW o \in Nat, NEW k \in Nat, NEW o2 \in Nat, NEW k2 \in Nat, W2(o, k), W2(o2, k2)
               PROVE  o = o2 /\ k = k2
    BY DEF Single, W1, W2
  <2>1. \/ o # p /\ W1(o, k) /\ ~(o = 0 /\ k > L)
        \/ o = 0 /\ k > L /\ k - L \in Nat /\ W1(p, k - L)
    BY <1>7
  <2>2. \/ o2 # p /\ W1(o2, k2) /\ ~(o2 = 0 /\ k2 > L)
        \/ o2 = 0 /\ k2 > L /\ k2 - L \in Nat /\ W1(p, k2 - L)
    BY <1>7
  <2>3. CASE W1(o, k) /\ o # p /\ W1(o2, k2) BY <2>3
  <2>4. CASE W1(o, k) /\ o # p /\ k2 - L \in Nat /\ W1(p, k2 - L) BY <1>1, <2>4
  <2>5. CASE W1(o2, k2) /\ o2 # p /\ k - L \in Nat /\ W1(p, k - L) BY <1>1, <2>5
  <2>6. CASE o = 0 /\ o2 = 0 /\ k - L \in Nat /\ k2 - L \in Nat /\ W1(p, k - L) /\ W1(p, k2 - L)
    <3>1. k - L = k2 - L BY <1>1, <2>6
    <3> QED BY <1>2, <2>6, <3>1
  <2> QED BY <2>1, <2>2, <2>3, <2>4, <2>5, <2>6
<1>11. Shape(cb2, q2) BY <1>4, <1>5, <1>6 DEF Shape
<1> QED BY <1>9, <1>10, <1>11 DEF Keeps, cb2, q2, jobs

\* Subscribing: one handler more waits, where none that calls the same waited.
LEMMA SubscribeMoves ==
  ASSUME NEW cb, NEW q, Shape(cb, q), NEW p \in Ids, NEW h, NEW x
  PROVE  LET cb2 == CallbacksAfter(st, cb, p, h)
             q2 == QueueAfter(st, val, q, p, h)
         IN  /\ h.onFulfilled # x => Keeps(x, cb, q, cb2, q2)
             /\ h.onFulfilled = x /\ ~Waiting(x, cb, q) => Single(x, cb2, q2) /\ Waiting(x, cb2, q2)
             /\ Shape(cb2, q2)
<1> DEFINE cb2 == CallbacksAfter(st, cb, p, h)
           q2 == QueueAfter(st, val, q, p, h)
           W1(o, k) == Waits(x, o, k, cb, q)
           W2(o, k) == Waits(x, o, k, cb2, q2)
<1>1. DOMAIN cb = Ids /\ IsSeq(cb[p]) /\ IsSeq(q) /\ 0 # p /\ p \in Nat /\ 0 \notin Ids
  BY QueueIsNone DEF Shape
<1>2. Len(cb[p]) \in Nat /\ Len(q) \in Nat BY <1>1, SeqLen
<1> DEFINE OneMore(at, last) ==
             \A o, k \in Nat : W2(o, k) <=> W1(o, k) \/ (o = at /\ k = last /\ h.onFulfilled = x)
<1>3. PICK at \in Nat, last \in Nat : OneMore(at, last)
  <2>1. CASE st[p] = "pending"
    <3>1. q2 = q /\ cb2 = [cb EXCEPT ![p] = Append(@, h)] BY <2>1 DEF CallbacksAfter, QueueAfter
    <3>2. /\ \A o \in Ids : o # p => cb2[o] = cb[o]
          /\ Len(cb2[p]) = Len(cb[p]) + 1 /\ cb2[p][Len(cb[p]) + 1] = h
          /\ \A k \in 1 .. Len(cb[p]) : cb2[p][k] = cb[p][k]
      BY <1>1, <3>1, SeqAppend
    <3> HIDE DEF cb2, q2
    <3>3. \A o, k \in Nat : o # p => (W2(o, k) <=> W1(o, k)) BY <3>1, <3>2 DEF Waits
    <3>4. \A k \in Nat : W2(p, k) <=> W1(p, k) \/ (k = Len(cb[p]) + 1 /\ h.onFulfilled = x)
      BY <1>1, <1>2, <3>2 DEF Waits
    <3>5. Len(cb[p]) + 1 \in Nat BY <1>2
    <3> HIDE DEF W1, W2
    <3>6. OneMore(p, Len(cb[p]) + 1) BY <3>3, <3>4
    <3> HIDE DEF OneMore
    <3> QED BY <1>1, <3>5, <3>6
  <2>2. CASE st[p] # "pending"
    <3>1. cb2 = cb /\ q2 = Append(q, Job(h, st[p], val[p])) BY <2>2 DEF CallbacksAfter, QueueAfter
    <3>2. /\ Len(q2) = Len(q) + 1 /\ q2[Len(q) + 1].handler = h
          /\ \A k \in 1 .. Len(q) : q2[k] = q[k]
      <4>1. Job(h, st[p], val[p]).handler = h BY DEF Job
      <4> QED BY <1>1, <3>1, <4>1, SeqAppend
    <3> HIDE DEF cb2, q2
    <3>3. \A o, k \in Nat : o # 0 => (W2(o, k) <=> W1(o, k)) BY <3>1 DEF Waits
    <3>4. \A k \in Nat : W2(0, k) <=> W1(0, k) \/ (k = Len(q) + 1 /\ h.onFulfilled = x)
      BY <1>1, <1>2, <3>2 DEF Waits
    <3>5. Len(q) + 1 \in Nat BY <1>2
    <3> HIDE DEF W1, W2
    <3>6. OneMore(0, Len(q) + 1) BY <3>3, <3>4
    <3> HIDE DEF OneMore
    <3>7. 0 \in Nat OBVIOUS
    <3> QED BY <3>5, <3>6, <3>7
  <2> QED BY <2>1, <2>2
<1>4. Shape(cb2, q2)
  <2>1. CASE st[p] = "pending"
    <3>1. q2 = q /\ cb2 = [cb EXCEPT ![p] = Append(@, h)] BY <2>1 DEF CallbacksAfter, QueueAfter
    <3>2. IsSeq(Append(cb[p], h)) BY <1>1, SeqAppend
    <3> QED BY <1>1, <3>1, <3>2 DEF Shape
  <2>2. CASE st[p] # "pending"
    <3>1. cb2 = cb /\ q2 = Append(q, Job(h, st[p], val[p])) BY <2>2 DEF CallbacksAfter, QueueAfter
    <3>2. IsSeq(Append(q, Job(h, st[p], val[p]))) BY <1>1, SeqAppend
    <3> QED BY <1>1, <3>1, <3>2 DEF Shape
  <2> QED BY <2>1, <2>2
<1> HIDE DEF W1, W2, cb2, q2
<1>5. ASSUME h.onFulfilled # x PROVE Keeps(x, cb, q, cb2, q2)
  <2>1. \A o, k \in Nat : W2(o, k) <=> W1(o, k) BY <1>3, <1>5
  <2> QED BY <2>1 DEF Keeps, Single, Waiting, W1, W2
<1>6. ASSUME h.onFulfilled = x, ~Waiting(x, cb, q) PROVE Single(x, cb2, q2) /\ Waiting(x, cb2, q2)
  <2>1. \A o, k \in Nat : ~W1(o, k) BY <1>6 DEF Waiting, W1
  <2>2. \A o, k \in Nat : W2(o, k) <=> o = at /\ k = last BY <1>3, <1>6, <2>1
  <2>3. W2(at, last) BY <1>3, <2>2
  <2> QED BY <1>3, <2>2, <2>3 DEF Single, Waiting, W2
<1> QED BY <1>4, <1>5, <1>6 DEF cb2, q2

\* Taking the first job: its handler waits no more, if it was the only one.
LEMMA HeadMoves ==
  ASSUME NEW cb, NEW q, Shape(cb, q), q # <<>>, NEW x
  PROVE  /\ Shape(cb, Tail(q))
         /\ Single(x, cb, q) => Single(x, cb, Tail(q))
         /\ Head(q).handler.onFulfilled # x => Keeps(x, cb, q, cb, Tail(q))
         /\ Head(q).handler.onFulfilled = x => Waiting(x, cb, q)
         /\ Head(q).handler.onFulfilled = x /\ Single(x, cb, q) => ~Waiting(x, cb, Tail(q))
<1> DEFINE q2 == Tail(q)
           W1(o, k) == Waits(x, o, k, cb, q)
           W2(o, k) == Waits(x, o, k, cb, q2)
<1>1. IsSeq(q) /\ 0 \notin Ids BY QueueIsNone DEF Shape
<1>2. /\ IsSeq(q2) /\ Len(q) \in Nat \ {0} /\ Len(q2) = Len(q) - 1 /\ Head(q) = q[1]
      /\ \A k \in 1 .. Len(q) - 1 : q2[k] = q[k + 1]
  BY <1>1, SeqTail
<1>3. Shape(cb, q2) BY <1>2 DEF Shape
<1> HIDE DEF q2
<1>4. \A o, k \in Nat : o # 0 => (W2(o, k) <=> W1(o, k)) BY DEF Waits
<1>5. ASSUME NEW k \in Nat PROVE W2(0, k) <=> k >= 1 /\ W1(0, k + 1)
  <2>1. W2(0, k) <=> k \in 1 .. Len(q2) /\ q2[k].handler.onFulfilled = x BY <1>1 DEF Waits
  <2>2. W1(0, k + 1) <=> k + 1 \in 1 .. Len(q) /\ q[k + 1].handler.onFulfilled = x BY <1>1 DEF Waits
  <2>3. k \in 1 .. Len(q2) <=> k \in 1 .. Len(q) - 1 BY <1>2
  <2>4. k \in 1 .. Len(q) - 1 <=> k >= 1 /\ k + 1 \in 1 .. Len(q) BY <1>2
  <2> QED BY <1>2, <2>1, <2>2, <2>3, <2>4
<1>6. W1(0, 1) <=> Head(q).handler.onFulfilled = x BY <1>1, <1>2 DEF Waits
<1>7. ~W1(0, 0) BY <1>1, <1>2 DEF Waits
<1> HIDE DEF W1, W2
<1>8. ASSUME NEW k \in Nat, W1(0, k) PROVE k = 1 \/ (k - 1 \in Nat /\ W2(0, k - 1))
  <2>1. CASE k = 0 BY <1>7, <1>8, <2>1
  <2>2. CASE k = 1 BY <2>2
  <2>3. CASE k # 0 /\ k # 1
    <3>1. k - 1 \in Nat /\ k - 1 >= 1 /\ (k - 1) + 1 = k BY <2>3
    <3> QED BY <1>5, <1>8, <3>1
  <2> QED BY <2>1, <2>2, <2>3
<1>9. ASSUME \A o, k, o2, k2 \in Nat : W1(o, k) /\ W1(o2, k2) => o = o2 /\ k = k2,
             NEW o \in Nat, NEW k \in Nat, NEW o2 \in Nat, NEW k2 \in Nat, W2(o, k), W2(o2, k2)
      PROVE  o = o2 /\ k = k2
  <2>1. CASE o = 0 /\ o2 = 0
    <3>1. W1(0, k + 1) /\ W1(0, k2 + 1) /\ k + 1 \in Nat /\ k2 + 1 \in Nat BY <1>5, <1>9, <2>1
    <3>2. k + 1 = k2 + 1 BY <1>9, <3>1
    <3> QED BY <2>1, <3>2
  <2>2. CASE o = 0 /\ o2 # 0
    <3>1. W1(0, k + 1) /\ k + 1 \in Nat /\ W1(o2, k2) BY <1>4, <1>5, <1>9, <2>2
    <3> QED BY <1>9, <2>2, <3>1
  <2>3. CASE o # 0 /\ o2 = 0
    <3>1. W1(0, k2 + 1) /\ k2 + 1 \in Nat /\ W1(o, k) BY <1>4, <1>5, <1>9, <2>3
    <3> QED BY <1>9, <2>3, <3>1
  <2>4. CASE o # 0 /\ o2 # 0 BY <1>4, <1>9, <2>4
  <2> QED BY <2>1, <2>2, <2>3, <2>4
<1>10. Single(x, cb, q) => Single(x, cb, q2) BY <1>9 DEF Single, W1, W2
<1>11. ASSUME Head(q).handler.onFulfilled # x PROVE Waiting(x, cb, q2) <=> Waiting(x, cb, q)
  <2>1. ASSUME NEW o \in Nat, NEW k \in Nat, W2(o, k) PROVE \E o2, k2 \in Nat : W1(o2, k2)
    <3>1. CASE o = 0
      <4>1. W1(0, k + 1) /\ k + 1 \in Nat BY <1>5, <2>1, <3>1
      <4> QED BY <4>1
    <3>2. CASE o # 0 BY <1>4, <2>1, <3>2
    <3> QED BY <3>1, <3>2
  <2>2. ASSUME NEW o \in Nat, NEW k \in Nat, W1(o, k) PROVE \E o2, k2 \in Nat : W2(o2, k2)
    <3>1. CASE o = 0 BY <1>6, <1>8, <1>11, <2>2, <3>1
    <3>2. CASE o # 0 BY <1>4, <2>2, <3>2
    <3> QED BY <3>1, <3>2
  <2> QED BY <2>1, <2>2 DEF Waiting, W1, W2
<1>12. Head(q).handler.onFulfilled = x => Waiting(x, cb, q) BY <1>6 DEF Waiting, W1
<1>13. ASSUME Head(q).handler.onFulfilled = x,
              \A o, k, o2, k2 \in Nat : W1(o, k) /\ W1(o2, k2) => o = o2 /\ k = k2,
              NEW o \in Nat, NEW k \in Nat, W2(o, k)
       PROVE  FALSE
  <2>1. W1(0, 1) BY <1>6, <1>13
  <2>2. CASE o = 0
    <3>1. W1(0, k + 1) /\ k + 1 \in Nat /\ k >= 1 BY <1>5, <1>13, <2>2
    <3>2. k + 1 = 1 BY <1>13, <2>1, <3>1
    <3> QED BY <3>1, <3>2
  <2>3. CASE o # 0
    <3>1. W1(o, k) BY <1>4, <1>13, <2>3
    <3> QED BY <1>13, <2>1, <2>3, <3>1
  <2> QED BY <2>2, <2>3
<1>14. Head(q).handler.onFulfilled = x /\ Single(x, cb, q) => ~Waiting(x, cb, q2)
  BY <1>13 DEF Single, Waiting, W1, W2
<1> QED BY <1>3, <1>10, <1>11, <1>12, <1>14 DEF Keeps, q2

-----------------------------------------------------------------------------
(* The handlers of all through the operations.                             *)

\* Nothing moves.
LEMMA KeepsSame == \A x, cb, q : Keeps(x, cb, q, cb, q)
BY DEF Keeps

\* The handlers of all wait where they did, or went to the queue.
SlotsStay(q) == \A x : x.fn = "slot" => Keeps(x, callbacks, q, callbacks', queue')

\* Settling a promise.
LEMMA SettleSlots ==
  ASSUME NEW q, Shape(callbacks, q), NEW p \in Ids, NEW state, NEW value, Settle(p, state, value, q)
  PROVE  SlotsStay(q)
<1>1. CASE st[p] # "pending"
  <2>1. callbacks' = callbacks /\ queue' = q BY <1>1 DEF Settle, promises
  <2> QED BY <2>1, KeepsSame DEF SlotsStay
<1>2. CASE st[p] = "pending"
  <2>1. callbacks' = [callbacks EXCEPT ![p] = <<>>] /\ queue' = q \o JobsOf(callbacks, p, state, value)
    BY <1>2 DEF Settle, JobsOf
  <2> QED BY <2>1, SettleMoves DEF SlotsStay
<1> QED BY <1>1, <1>2

\* Subscribing with a handler that is not one of all's.
LEMMA SubscribeSlots ==
  ASSUME NEW q, Shape(callbacks, q), NEW p \in Ids, NEW h, h.onFulfilled.fn # "slot", Subscribe(p, h, q)
  PROVE  SlotsStay(q)
<1>1. callbacks' = CallbacksAfter(st, callbacks, p, h) /\ queue' = QueueAfter(st, val, q, p, h)
  BY SubscribeIs
<1> SUFFICES ASSUME NEW x, x.fn = "slot"
             PROVE  Keeps(x, callbacks, q, CallbacksAfter(st, callbacks, p, h), QueueAfter(st, val, q, p, h))
  BY <1>1 DEF SlotsStay
<1>2. h.onFulfilled # x OBVIOUS
<1> QED BY <1>2, SubscribeMoves

\* The resolution procedure.
LEMMA ResolvePromiseSlots ==
  ASSUME NEW q, Shape(callbacks, q), NEW p \in Ids, NEW x, x.kind = "promise" => x.is \in Ids, NEW ps,
         ResolvePromise(p, x, q, ps)
  PROVE  SlotsStay(q)
<1> DEFINE h == Handler(Fn("adopt", Len(ps) + 1, 0), Fn("adopt", Len(ps) + 1, 0), 0)
<1>1. \/ \E state, value : Settle(p, state, value, q)
      \/ x.kind = "promise" /\ Subscribe(x.is, h, q)
      \/ queue' = q /\ callbacks' = callbacks
  BY DEF ResolvePromise, promises
<1>2. h.onFulfilled.fn = "adopt" BY FnIn, HandlerIn
<1> HIDE DEF h
<1>3. CASE \E state, value : Settle(p, state, value, q) BY <1>3, SettleSlots
<1>4. CASE x.kind = "promise" /\ Subscribe(x.is, h, q) BY <1>2, <1>4, SubscribeSlots
<1>5. CASE queue' = q /\ callbacks' = callbacks BY <1>5, KeepsSame DEF SlotsStay
<1> QED BY <1>1, <1>3, <1>4, <1>5

\* #resolve
LEMMA ResolveSlots ==
  ASSUME NEW q, Shape(callbacks, q), NEW p \in Ids, NEW x, x.kind = "promise" => x.is \in Ids, NEW ps,
         Resolve(p, x, q, ps)
  PROVE  SlotsStay(q)
<1>1. CASE st[p] # "pending"
  <2>1. queue' = q /\ callbacks' = callbacks BY <1>1 DEF Resolve, promises
  <2> QED BY <2>1, KeepsSame DEF SlotsStay
<1>2. CASE st[p] = "pending"
  <2>1. ResolvePromise(p, x, q, ps) BY <1>2 DEF Resolve
  <2> QED BY <2>1, ResolvePromiseSlots
<1> QED BY <1>1, <1>2

\* Calling one of a pair of callbacks.
LEMMA CallBackSlots ==
  ASSUME NEW q, Shape(callbacks, q), NEW c, pairs[c].to \in Ids, NEW state,
         NEW y, y.kind = "promise" => y.is \in Ids, CallBack(c, state, y, q)
  PROVE  SlotsStay(q)
<1>1. \/ queue' = q /\ callbacks' = callbacks
      \/ \E ps : ResolvePromise(pairs[c].to, y, q, ps)
      \/ Settle(pairs[c].to, "rejected", y, q)
  BY DEF CallBack, promises
<1>2. CASE queue' = q /\ callbacks' = callbacks BY <1>2, KeepsSame DEF SlotsStay
<1> QED BY <1>1, <1>2, ResolvePromiseSlots, SettleSlots

\* `then' for each item: handlers that call x come to wait if one of the items gets one.
LEMMA SubscribeEachMoves ==
  ASSUME NEW q, Shape(callbacks, q), NEW items \in Seq(Ids), NEW handlers,
         SubscribeEach(items, handlers, q), NEW x
  PROVE  /\ (\A i \in 1 .. Len(items) : handlers[i].onFulfilled # x) =>
              Keeps(x, callbacks, q, callbacks', queue')
         /\ \A j \in 1 .. Len(items) :
              /\ handlers[j].onFulfilled = x /\ ~Waiting(x, callbacks, q)
              /\ \A i \in 1 .. Len(items) : i # j => handlers[i].onFulfilled # x
              => Single(x, callbacks', queue') /\ Waiting(x, callbacks', queue')
<1> DEFINE after == States2(items, handlers, q)
           n == Len(items)
           Calls(i) == handlers[i].onFulfilled = x
           OK(s, k) ==
             /\ s = [callbacks |-> s.callbacks, queue |-> s.queue] /\ Shape(s.callbacks, s.queue)
             /\ (\A i \in 1 .. k : ~Calls(i)) => Keeps(x, callbacks, q, s.callbacks, s.queue)
             /\ \A j \in 1 .. k :
                  Calls(j) /\ ~Waiting(x, callbacks, q) /\ (\A i \in 1 .. n : i # j => ~Calls(i))
                  => Single(x, s.callbacks, s.queue) /\ Waiting(x, s.callbacks, s.queue)
           T == {k \in Nat : k <= n => OK(after[k], k)}
<1>1. n \in Nat /\ \A i \in 1 .. n : items[i] \in Ids BY LenProperties, ElementOfSeq
<1>2. /\ after[0] = [callbacks |-> callbacks, queue |-> q]
      /\ \A i \in 1 .. n : after[i] = Subscribed(after[i - 1], items[i], handlers[i])
  BY <1>1, EachDefined
<1>3. callbacks' = after[n].callbacks /\ queue' = after[n].queue
  BY DEF SubscribeEach, States2
<1> HIDE DEF after, Calls
<1>4. 0 \in T
  <2>1. after[0].callbacks = callbacks /\ after[0].queue = q BY <1>2
  <2>2. 1 .. 0 = {} OBVIOUS
  <2>3. OK(after[0], 0) BY <1>2, <2>1, <2>2, KeepsSame
  <2> HIDE DEF OK
  <2> QED BY <2>3
<1>5. ASSUME NEW k \in T PROVE k + 1 \in T
  <2> SUFFICES ASSUME k + 1 <= n PROVE OK(after[k + 1], k + 1) OBVIOUS
  <2>1. /\ k \in Nat /\ k + 1 \in 1 .. n /\ (k + 1) - 1 = k /\ k <= n
        /\ \A i \in 1 .. k : i \in 1 .. k + 1 /\ i \in 1 .. n /\ i # k + 1
        /\ \A i \in 1 .. k + 1 : i \in 1 .. k \/ i = k + 1
    BY <1>1
  <2> DEFINE cb == after[k].callbacks
             qk == after[k].queue
             p == items[k + 1]
             h == handlers[k + 1]
             cb2 == CallbacksAfter(st, cb, p, h)
             q2 == QueueAfter(st, val, qk, p, h)
  <2>2. OK(after[k], k) BY <2>1
  <2>3. after[k + 1] = Subscribed([callbacks |-> cb, queue |-> qk], p, h) BY <1>2, <2>1, <2>2
  <2>4. p \in Ids BY <1>1, <2>1
  <2>5. Calls(k + 1) <=> h.onFulfilled = x BY DEF Calls
  <2>6. Shape(cb, qk) BY <2>2
  <2> HIDE DEF cb, qk, p, h
  <2>7. after[k + 1] = [callbacks |-> cb2, queue |-> q2] BY <2>3, SubscribedIs
  <2>8. /\ h.onFulfilled # x => Keeps(x, cb, qk, cb2, q2)
        /\ h.onFulfilled = x /\ ~Waiting(x, cb, qk) => Single(x, cb2, q2) /\ Waiting(x, cb2, q2)
        /\ Shape(cb2, q2)
    BY <2>4, <2>6, SubscribeMoves
  <2> HIDE DEF cb2, q2
  <2>9. ASSUME \A i \in 1 .. k + 1 : ~Calls(i) PROVE Keeps(x, callbacks, q, cb2, q2)
    <3>1. Keeps(x, callbacks, q, cb, qk) BY <2>1, <2>2, <2>9 DEF cb, qk
    <3>2. Keeps(x, cb, qk, cb2, q2)
      <4>1. k + 1 \in 1 .. k + 1 BY <2>1
      <4> QED BY <2>5, <2>8, <2>9, <4>1
    <3> QED BY <3>1, <3>2, KeepsTwice
  <2>10. ASSUME NEW j \in 1 .. k + 1, Calls(j), ~Waiting(x, callbacks, q),
                \A i \in 1 .. n : i # j => ~Calls(i)
         PROVE  Single(x, cb2, q2) /\ Waiting(x, cb2, q2)
    <3>1. CASE j = k + 1
      <4>1. \A i \in 1 .. k : ~Calls(i) BY <2>1, <2>10, <3>1
      <4>2. Keeps(x, callbacks, q, cb, qk) BY <2>2, <4>1 DEF cb, qk
      <4>3. ~Waiting(x, cb, qk) BY <2>10, <4>2 DEF Keeps
      <4> QED BY <2>5, <2>8, <2>10, <3>1, <4>3
    <3>2. CASE j \in 1 .. k
      <4>1. Single(x, cb, qk) /\ Waiting(x, cb, qk) BY <2>2, <2>10, <3>2 DEF cb, qk
      <4>2. Keeps(x, cb, qk, cb2, q2)
        <5>1. k + 1 # j BY <2>1, <3>2
        <5> QED BY <2>1, <2>5, <2>8, <2>10, <5>1
      <4> QED BY <4>1, <4>2 DEF Keeps
    <3> QED BY <2>1, <3>1, <3>2
  <2>11. after[k + 1].callbacks = cb2 /\ after[k + 1].queue = q2 BY <2>7
  <2> QED BY <2>7, <2>8, <2>9, <2>10, <2>11
<1> HIDE DEF T
<1>6. T = Nat
  <2>1. T \in SUBSET Nat BY DEF T
  <2> QED BY <1>4, <1>5, <2>1, Upwards
<1> HIDE DEF OK
<1>7. OK(after[n], n)
  <2>1. n \in T /\ n <= n BY <1>1, <1>6
  <2> QED BY <2>1 DEF T
<1>8. /\ (\A i \in 1 .. n : ~Calls(i)) => Keeps(x, callbacks, q, callbacks', queue')
      /\ \A j \in 1 .. n :
           Calls(j) /\ ~Waiting(x, callbacks, q) /\ (\A i \in 1 .. n : i # j => ~Calls(i))
           => Single(x, callbacks', queue') /\ Waiting(x, callbacks', queue')
  BY <1>3, <1>7 DEF OK
<1> QED BY <1>8 DEF Calls

-----------------------------------------------------------------------------
(* The microtasks of all and race.                                         *)

\* What a handler of all or race is, by one of its functions.
LEMMA ItemHandlerFacts ==
  ASSUME NEW m, NEW ps, NEW ag, NEW pa, NEW rn, NEW p, NEW h,
         HandlerOf(p, h, m, ps, ag, pa, rn),
         NEW fn \in {h.onFulfilled, h.onRejected}, fn.fn \in {"slot", "resolve", "reject"}
  PROVE  /\ fn.to \in 1 .. m
         /\ \E i \in DOMAIN ag[fn.to].items :
              /\ ag[fn.to].items[i] = p /\ h.onRejected = Fn("reject", fn.to, 0)
              /\ \/ ag[fn.to].kind = "all" /\ h.onFulfilled = Slot(fn.to, i)
                 \/ ag[fn.to].kind = "race" /\ h.onFulfilled = Fn("resolve", fn.to, 0)
<1>1. ~ThenHandler(p, h, m, pa, rn)
  BY DEF ThenHandler, NoFn, UserFn, Fn
<1>2. ~\E c \in DOMAIN ps : ps[c].from = Promise(p) /\ h = AdoptHandler(c)
  BY DEF AdoptHandler, Handler, Fn
<1>3. PICK a \in 1 .. m :
        \/ ag[a].kind = "all" /\ \E i \in DOMAIN ag[a].items : ag[a].items[i] = p /\ h = SlotHandler(a, i)
        \/ ag[a].kind = "race" /\ (\E i \in DOMAIN ag[a].items : ag[a].items[i] = p) /\ h = RaceHandler(a)
  BY <1>1, <1>2 DEF HandlerOf, ItemHandler
<1>4. CASE ag[a].kind = "all" /\ \E i \in DOMAIN ag[a].items : ag[a].items[i] = p /\ h = SlotHandler(a, i)
  <2>1. PICK i \in DOMAIN ag[a].items : ag[a].items[i] = p /\ h = SlotHandler(a, i) BY <1>4
  <2>2. h.onFulfilled = Slot(a, i) /\ h.onRejected = Fn("reject", a, 0)
    BY <2>1, HandlerIn DEF SlotHandler, Slot
  <2>3. Slot(a, i).to = a /\ Fn("reject", a, 0).to = a BY FnIn DEF Slot
  <2>4. fn.to = a BY <2>2, <2>3
  <2> QED BY <1>4, <2>1, <2>2, <2>4
<1>5. CASE ag[a].kind = "race" /\ (\E i \in DOMAIN ag[a].items : ag[a].items[i] = p) /\ h = RaceHandler(a)
  <2>1. h.onFulfilled = Fn("resolve", a, 0) /\ h.onRejected = Fn("reject", a, 0)
    BY <1>5, HandlerIn DEF RaceHandler
  <2>2. Fn("resolve", a, 0).to = a /\ Fn("reject", a, 0).to = a BY FnIn
  <2>3. fn.to = a BY <2>1, <2>2
  <2> QED BY <1>5, <2>1, <2>3
<1> QED BY <1>3, <1>4, <1>5

\* A microtask of all or race is about an item that is settled.
LEMMA ItemJob ==
  ASSUME GoodInv, NEW name \in {"slot", "resolve", "reject"}, RunJob(name)
  PROVE  \E i \in DOMAIN agg[CurrentFn.to].items : \E p \in 1 .. made :
           /\ agg[CurrentFn.to].items[i] = p /\ Current.value = val[p]
           /\ st[p] = IF name = "reject" THEN "rejected" ELSE "fulfilled"
           /\ name = "slot" => CurrentFn = Slot(CurrentFn.to, i) /\ Current.handler.onFulfilled = CurrentFn
           /\ name = "resolve" => agg[CurrentFn.to].kind = "race"
<1> DEFINE h == Current.handler
           fn == CurrentFn
<1>1. fn.fn = name /\ fn \in {h.onFulfilled, h.onRejected} BY JobFacts
<1>2. PICK p \in 1 .. made :
        /\ st[p] # "pending" /\ Current.state = st[p] /\ Current.value = val[p]
        /\ HandlerOf(p, h, made, pairs, agg, parent, ran)
  BY JobFacts
<1>3. fn = IF Current.state = "fulfilled" THEN h.onFulfilled ELSE h.onRejected BY DEF CurrentFn
<1>4. st[p] \in {"fulfilled", "rejected"}
  <2>1. p \in Ids BY AskedTypes
  <2>2. st[p] \in States BY <2>1 DEF GoodInv, Good, Fit, Typed
  <2> QED BY <1>2, <2>2 DEF States
<1> HIDE DEF h, fn
<1>5. PICK i \in DOMAIN agg[fn.to].items :
        /\ agg[fn.to].items[i] = p /\ h.onRejected = Fn("reject", fn.to, 0)
        /\ \/ agg[fn.to].kind = "all" /\ h.onFulfilled = Slot(fn.to, i)
           \/ agg[fn.to].kind = "race" /\ h.onFulfilled = Fn("resolve", fn.to, 0)
  BY <1>1, <1>2, ItemHandlerFacts
<1>6. /\ Fn("reject", fn.to, 0).fn = "reject" /\ Fn("resolve", fn.to, 0).fn = "resolve"
      /\ Slot(fn.to, i).fn = "slot"
  BY FnIn DEF Slot
<1>7. /\ st[p] = IF name = "reject" THEN "rejected" ELSE "fulfilled"
      /\ name = "slot" => fn = Slot(fn.to, i) /\ h.onFulfilled = fn
      /\ name = "resolve" => agg[fn.to].kind = "race"
  BY <1>1, <1>2, <1>3, <1>4, <1>5, <1>6
<1> QED BY <1>2, <1>5, <1>7 DEF h, fn

\* A microtask takes no handler of another call of all from the queue.
LEMMA OtherSlots ==
  ASSUME GoodInv, NEW name \in FnNames, RunJob(name), NEW o, NEW i,
         name \in {"slot", "reject"} => o # CurrentFn.to
  PROVE  Head(queue).handler.onFulfilled # Slot(o, i)
<1> DEFINE h == Current.handler
           fn == CurrentFn
<1>1. fn.fn = name /\ fn \in {h.onFulfilled, h.onRejected} BY JobFacts
<1>2. PICK p \in 1 .. made : HandlerOf(p, h, made, pairs, agg, parent, ran) BY JobFacts
<1>3. Slot(o, i).fn = "slot" /\ Slot(o, i).to = o BY FnIn DEF Slot
<1> HIDE DEF h, fn
<1>4. CASE name \in {"slot", "resolve", "reject"}
  <2>1. PICK j : \/ h.onFulfilled = Slot(fn.to, j)
                 \/ agg[fn.to].kind = "race" /\ h.onFulfilled = Fn("resolve", fn.to, 0)
    BY <1>1, <1>2, <1>4, ItemHandlerFacts
  <2>2. h.onRejected = Fn("reject", fn.to, 0) BY <1>1, <1>2, <1>4, ItemHandlerFacts
  <2>3. /\ Fn("resolve", fn.to, 0).fn = "resolve" /\ Fn("reject", fn.to, 0).fn = "reject"
        /\ Slot(fn.to, j).fn = "slot" /\ Slot(fn.to, j).to = fn.to
    BY FnIn DEF Slot
  <2>4. name \in {"slot", "reject"} => o # fn.to BY DEF fn
  <2>5. h.onFulfilled # Slot(o, i) BY <1>1, <1>3, <1>4, <2>1, <2>2, <2>3, <2>4
  <2> QED BY <2>5 DEF h, Current
<1>5. CASE name \notin {"slot", "resolve", "reject"}
  <2>1. name \in {"none", "user", "adopt"} BY <1>5 DEF FnNames
  <2>2. h.onFulfilled.fn # "slot"
    <3> SUFFICES ASSUME h.onFulfilled.fn = "slot" PROVE FALSE OBVIOUS
    <3>1. PICK to, j : h.onFulfilled = Slot(to, j) /\ h.onRejected = Fn("reject", to, 0)
      <4> DEFINE f == h.onFulfilled
      <4>1. f \in {h.onFulfilled, h.onRejected} /\ f.fn = "slot" OBVIOUS
      <4> HIDE DEF f
      <4>2. \E j : h.onRejected = Fn("reject", f.to, 0)
                   /\ (h.onFulfilled = Slot(f.to, j) \/ h.onFulfilled = Fn("resolve", f.to, 0))
        BY <1>2, <4>1, ItemHandlerFacts
      <4>3. Fn("resolve", f.to, 0).fn = "resolve" BY FnIn
      <4> QED BY <4>1, <4>2, <4>3 DEF f
    <3>2. Slot(to, j).fn = "slot" /\ Fn("reject", to, 0).fn = "reject" BY FnIn DEF Slot
    <3> QED BY <1>1, <2>1, <3>1, <3>2
  <2> QED BY <1>3, <2>2 DEF h, Current
<1> QED BY <1>4, <1>5

\* The handlers of all, other than those of the call t.
OthersStay(t) == \A o \in Ids : \A i : o # t => Keeps(Slot(o, i), callbacks, queue, callbacks', queue')

\* An operation on the queue as it is.
LEMMA StayOthers ==
  ASSUME SlotsStay(queue), NEW t PROVE OthersStay(t)
<1>1. \A o, i : Slot(o, i).fn = "slot" BY FnIn DEF Slot
<1> QED BY <1>1 DEF SlotsStay, OthersStay

\* A microtask: its job is taken, then comes an operation.
LEMMA JobOthers ==
  ASSUME GoodInv, NEW name \in FnNames, RunJob(name), NEW t,
         name \in {"slot", "reject"} => t = CurrentFn.to,
         Shape(callbacks, Tail(queue)) => SlotsStay(Tail(queue))
  PROVE  OthersStay(t)
<1>1. Shape(callbacks, queue) /\ queue # <<>> BY GoodShape, JobFacts DEF GoodInv
<1>2. Shape(callbacks, Tail(queue)) BY <1>1, HeadMoves
<1> SUFFICES ASSUME NEW o \in Ids, NEW i, o # t
             PROVE  Keeps(Slot(o, i), callbacks, queue, callbacks', queue')
  BY DEF OthersStay
<1>3. Head(queue).handler.onFulfilled # Slot(o, i) BY OtherSlots
<1>4. Keeps(Slot(o, i), callbacks, queue, callbacks, Tail(queue)) BY <1>1, <1>3, HeadMoves
<1>5. Slot(o, i).fn = "slot" BY FnIn DEF Slot
<1>6. Keeps(Slot(o, i), callbacks, Tail(queue), callbacks', queue') BY <1>2, <1>5 DEF SlotsStay
<1> QED BY <1>4, <1>6, KeepsTwice

-----------------------------------------------------------------------------
(* Steps that are about one promise.                                       *)

\* The other calls of all and race are as they were.
LEMMA CombOthers ==
  ASSUME GoodInv, CombInv, NEW t \in Ids, OnlySettles(t), OthersStay(t), PairsOut',
         \A o \in Ids : o # t => agg'[o] = agg[o], AllAt(t)', MatchAt(t)'
  PROVE  CombInv'
<1> SUFFICES ASSUME NEW p \in Ids, p # t PROVE AllAt(p)' /\ MatchAt(p)'
  BY DEF CombInv
<1>1. AllAt(p) /\ MatchAt(p) BY DEF CombInv
<1>2. agg'[p] = agg[p] /\ st'[p] = st[p] /\ val'[p] = val[p] BY DEF OnlySettles
<1>3. ASSUME agg[p].kind \in {"all", "race"}, NEW i \in DOMAIN agg[p].items
      PROVE  LET o == agg[p].items[i] IN st[o] # "pending" => st'[o] = st[o] /\ val'[o] = val[o]
  <2>1. agg[p].items \in Seq(1 .. made) /\ made \in 0 .. N
    BY <1>3 DEF GoodInv, Good, Fit, Typed, Combined
  <2>2. agg[p].items[i] \in 1 .. made BY <2>1, LenProperties, ElementOfSeq
  <2>3. agg[p].items[i] \in Ids BY <2>2, AskedTypes
  <2> QED BY <2>3 DEF OnlySettles
<1>4. ASSUME agg[p].kind = "all"
      PROVE  /\ \A i \in DOMAIN agg[p].items : Single(Slot(p, i), callbacks', queue')
             /\ Missing(p)' = Missing(p)
  <2>1. \A i : Keeps(Slot(p, i), callbacks, queue, callbacks', queue') BY DEF OthersStay
  <2>2. \A i \in DOMAIN agg[p].items : Single(Slot(p, i), callbacks, queue) BY <1>1, <1>4 DEF AllAt
  <2>3. \A i : Waiting(Slot(p, i), callbacks', queue') <=> Waiting(Slot(p, i), callbacks, queue)
    BY <2>1 DEF Keeps
  <2>4. Missing(p)' = Missing(p) BY <1>2, <2>3 DEF Missing
  <2>5. \A i \in DOMAIN agg[p].items : Single(Slot(p, i), callbacks', queue') BY <2>1, <2>2 DEF Keeps
  <2> QED BY <2>4, <2>5
<1>5. AllAt(p)'
  <2> SUFFICES ASSUME agg[p].kind = "all"
               PROVE  /\ \A i \in DOMAIN agg[p].items : Single(Slot(p, i), callbacks', queue')
                      /\ st[p] = "pending" =>
                           /\ agg[p].remaining = Cardinality(Missing(p))
                           /\ DOMAIN agg[p].results = DOMAIN agg[p].items
                           /\ \A i \in DOMAIN agg[p].items \ Missing(p) :
                                /\ st'[agg[p].items[i]] = "fulfilled"
                                /\ agg[p].results[i] = val'[agg[p].items[i]]
    BY <1>2, <1>4 DEF AllAt
  <2>1. \A i \in DOMAIN agg[p].items \ Missing(p) : st[p] = "pending" =>
          /\ st[agg[p].items[i]] = "fulfilled"
          /\ agg[p].results[i] = val[agg[p].items[i]]
    BY <1>1 DEF AllAt
  <2>2. \A i \in DOMAIN agg[p].items \ Missing(p) : st[p] = "pending" =>
          /\ st'[agg[p].items[i]] = "fulfilled"
          /\ agg[p].results[i] = val'[agg[p].items[i]]
    BY <1>3, <2>1
  <2> QED BY <1>1, <1>4, <2>2 DEF AllAt
<1>6. MatchAt(p)'
  <2>1. CASE agg[p].kind = "all" /\ st[p] = "fulfilled"
    <3>1. /\ Len(val[p].is) = Len(agg[p].items)
          /\ \A i \in DOMAIN agg[p].items :
               st[agg[p].items[i]] = "fulfilled" /\ val[p].is[i] = val[agg[p].items[i]]
      BY <1>1, <2>1 DEF MatchAt, IsAll
    <3>2. \A i \in DOMAIN agg[p].items :
            st'[agg[p].items[i]] = "fulfilled" /\ val[p].is[i] = val'[agg[p].items[i]]
      BY <1>3, <2>1, <3>1
    <3> QED BY <1>2, <2>1, <3>1, <3>2 DEF MatchAt, IsAll, IsRace
  <2>2. CASE (agg[p].kind = "all" /\ st[p] = "rejected") \/ (agg[p].kind = "race" /\ st[p] # "pending")
    <3>1. PICK i \in DOMAIN agg[p].items : st[agg[p].items[i]] = st[p] /\ val[agg[p].items[i]] = val[p]
      BY <1>1, <2>2 DEF MatchAt, IsAll, IsRace, Settled
    <3>2. st[p] # "pending" BY <2>2
    <3>3. st'[agg[p].items[i]] = st[p] /\ val'[agg[p].items[i]] = val[p] BY <1>3, <2>2, <3>1, <3>2
    <3> QED BY <1>2, <2>2, <3>1, <3>3 DEF MatchAt, IsAll, IsRace
  <2>3. CASE ~(agg[p].kind = "all" /\ st[p] = "fulfilled")
             /\ ~(agg[p].kind = "all" /\ st[p] = "rejected") /\ ~(agg[p].kind = "race" /\ st[p] # "pending")
    BY <1>2, <2>3 DEF MatchAt, IsAll, IsRace, Settled
  <2> QED BY <2>1, <2>2, <2>3
<1> QED BY <1>5, <1>6

\* A promise that is not of all or race.
LEMMA CombNone ==
  ASSUME GoodInv, CombInv, NEW t \in Ids, agg[t].kind = "none", agg' = agg,
         OnlySettles(t), OthersStay(t), PairsOut'
  PROVE  CombInv'
<1>1. AllAt(t)' BY DEF AllAt
<1>2. MatchAt(t)' BY DEF MatchAt, IsAll, IsRace
<1> QED BY <1>1, <1>2, CombOthers

\* No pair of callbacks is given for a promise of all or race.
LEMMA PairsStayOut ==
  ASSUME PairsOut, NEW t, agg[t].kind = "none", agg' = agg, NEW S, NEW ps \in Seq(S),
         DOMAIN ps = DOMAIN pairs, \A d \in DOMAIN pairs : ps[d].to = pairs[d].to,
         NEW y, pairs' = ps \/ pairs' = Given(ps, t, y)
  PROVE  PairsOut'
<1>1. \A d \in DOMAIN pairs' : (d \in DOMAIN ps /\ pairs'[d] = ps[d]) \/ pairs'[d].to = t
  <2>1. CASE pairs' = ps BY <2>1
  <2>2. CASE pairs' = Given(ps, t, y)
    <3>1. /\ \A c \in DOMAIN ps : Given(ps, t, y)[c] = ps[c]
          /\ \A c \in DOMAIN Given(ps, t, y) : c \in DOMAIN ps \/ Given(ps, t, y)[c].to = t
      BY GivenIs
    <3> QED BY <2>2, <3>1
  <2> QED BY <2>1, <2>2
<1> QED BY <1>1 DEF PairsOut

-----------------------------------------------------------------------------
(* The actions.                                                            *)

\* What promises are resolved with exists.
LEMMA ThingIn == ASSUME GoodInv, NEW x, Thing(made, x) PROVE x.kind = "promise" => x.is \in Ids
BY ThingKinds, AskedTypes DEF Thing

\* Resolving or rejecting a promise: what waits.
LEMMA ResolveStay ==
  ASSUME GoodInv, NEW t \in Ids, NEW q, NEW x, Thing(made, x), Shape(callbacks, q),
         Resolve(t, x, q, pairs) \/ Settle(t, "rejected", x, q)
  PROVE  SlotsStay(q)
BY ThingIn, ResolveSlots, SettleSlots

\* Resolving or rejecting a promise that is not of all or race.
LEMMA CombResolve ==
  ASSUME GoodInv, CombInv, NEW t \in Ids, agg[t].kind = "none", agg' = agg, NEW q, NEW x,
         Resolve(t, x, q, pairs) \/ Reject(t, x, q), OthersStay(t)
  PROVE  CombInv'
<1>1. OnlySettles(t) /\ \E y : pairs' = pairs \/ pairs' = Given(pairs, t, y)
  <2>1. CASE Reject(t, x, q)
    <3>1. Settle(t, "rejected", x, q) /\ pairs' = pairs BY <2>1 DEF Reject
    <3> QED BY <3>1, SettleDoes
  <2>2. CASE Resolve(t, x, q, pairs) /\ st[t] # "pending"
    <3>1. st' = st /\ val' = val /\ pairs' = pairs BY <2>2 DEF Resolve, promises
    <3> QED BY <3>1, SameSettles
  <2>3. CASE Resolve(t, x, q, pairs) /\ st[t] = "pending"
    <3>1. ResolvePromise(t, x, q, pairs) BY <2>3 DEF Resolve
    <3>2. OnlySettles(t) /\ Becomes(t, x, pairs) BY <3>1, ResolvePromiseDoes
    <3> QED BY <3>2 DEF Becomes
  <2> QED BY <2>1, <2>2, <2>3
<1>2. PairsOut'
  <2>1. PICK S : pairs \in Seq(S) BY AskedTypes
  <2> QED BY <1>1, <2>1, PairsStayOut DEF CombInv
<1> QED BY <1>1, <1>2, CombNone

\* Calling one of a pair of callbacks.
LEMMA CombCallBack ==
  ASSUME GoodInv, CombInv, NEW c \in DOMAIN pairs, NEW t, t = pairs[c].to, NEW state, NEW y, NEW q,
         CallBack(c, state, y, q), agg' = agg, OthersStay(t)
  PROVE  CombInv'
<1> DEFINE ps == [pairs EXCEPT ![c].called = TRUE]
<1>1. t \in Ids /\ agg[t].kind = "none" BY AskedTypes DEF CombInv, PairsOut
<1>2. PICK S0 : pairs \in Seq(S0) BY AskedTypes
<1>3. CASE pairs[c].called
  <2>1. st' = st /\ val' = val /\ pairs' = pairs BY <1>3 DEF CallBack, promises
  <2>2. PairsOut' BY <2>1 DEF CombInv, PairsOut
  <2> QED BY <1>1, <2>1, <2>2, SameSettles, CombNone
<1>4. CASE ~pairs[c].called
  <2>1. ResolvePromise(t, y, q, ps) \/ (Settle(t, "rejected", y, q) /\ pairs' = ps)
    BY <1>4 DEF CallBack
  <2>2. DOMAIN ps = DOMAIN pairs OBVIOUS
  <2>3. \A d \in DOMAIN pairs : ps[d].to = pairs[d].to
    <3>1. pairs \in Seq(Pairs(made)) BY DEF GoodInv, Good, Fit, Typed
    <3>2. \A d \in DOMAIN pairs : pairs[d] \in Pairs(made) BY <3>1, LenProperties, ElementOfSeq
    <3> QED BY <3>2 DEF Pairs
  <2>4. PICK S : ps \in Seq(S)
    <3>1. Len(pairs) \in Nat /\ DOMAIN ps = 1 .. Len(pairs) BY <1>2, <2>2, LenProperties
    <3>2. ps = [d \in 1 .. Len(pairs) |-> ps[d]] BY <3>1
    <3> HIDE DEF ps
    <3>3. IsSeq(ps) BY <3>1, <3>2, SeqMake
    <3> QED BY <3>3 DEF IsSeq
  <2> HIDE DEF ps
  <2>5. OnlySettles(t) /\ \E z : pairs' = ps \/ pairs' = Given(ps, t, z)
    <3>1. ResolvePromise(t, y, q, ps) => OnlySettles(t) /\ Becomes(t, y, ps)
      BY <1>1, ResolvePromiseDoes
    <3> QED BY <1>1, <2>1, <3>1, SettleDoes DEF Becomes
  <2>6. PairsOut' BY <1>1, <2>2, <2>3, <2>4, <2>5, PairsStayOut DEF CombInv
  <2> QED BY <1>1, <2>5, <2>6, CombNone
<1> QED BY <1>3, <1>4

\* A call of the constructor.
LEMMA CreateComb == ASSUME GoodInv, CombInv, Create PROVE CombInv'
<1>1. /\ st' = st /\ val' = val /\ callbacks' = callbacks /\ queue' = queue /\ pairs' = pairs /\ agg' = agg
  BY DEF Create, promises
<1> QED BY <1>1 DEF CombInv, PairsOut, AllAt, MatchAt, Missing, IsAll, IsRace, Settled

\* A call of then.
LEMMA ThenComb ==
  ASSUME GoodInv, CombInv, NEW p \in 1 .. made, NEW f \in {NoFn, UserFn}, NEW g \in {NoFn, UserFn},
         Then(p, f, g)
  PROVE  CombInv'
<1> DEFINE h == Handler(f, g, made + 1)
<1>1. Subscribe(p, h, queue) /\ pairs' = pairs /\ agg' = agg /\ made < N BY DEF Then
<1>2. h.onFulfilled.fn # "slot" BY HandlerIn DEF NoFn, UserFn, Fn
<1> HIDE DEF h
<1>3. Shape(callbacks, queue) BY GoodShape DEF GoodInv
<1>4. PICK t : t = made + 1 OBVIOUS
<1>5. t \in Ids /\ agg[t].kind = "none"
  <2>1. made \in 0 .. N BY AskedTypes
  <2>2. t \in Ids /\ t > made BY <1>1, <1>4, <2>1, BoundsAssumption DEF Ids
  <2> QED BY <2>2, AskedTypes
<1>6. SlotsStay(queue)
  <2>1. p \in Ids BY AskedTypes
  <2> QED BY <1>1, <1>2, <1>3, <2>1, SubscribeSlots
<1>7. st' = st /\ val' = val BY <1>1, SubscribeIs
<1>8. PairsOut' BY <1>1 DEF CombInv, PairsOut
<1> QED BY <1>1, <1>5, <1>6, <1>7, <1>8, StayOthers, SameSettles, CombNone

\* Nothing waits for a call of all that has not been made.
LEMMA NoneYet ==
  ASSUME GoodInv, NEW t, t \notin 1 .. made, NEW i PROVE ~Waiting(Slot(t, i), callbacks, queue)
<1> SUFFICES ASSUME NEW o \in Nat, NEW k \in Nat, Waits(Slot(t, i), o, k, callbacks, queue) PROVE FALSE
  BY DEF Waiting
<1>1. \E p, h : HandlerOf(p, h, made, pairs, agg, parent, ran) /\ h.onFulfilled = Slot(t, i)
  <2>1. CASE k \in 1 .. Len(queue) /\ queue[k].handler.onFulfilled = Slot(t, i)
    <3>1. JobFits(queue[k], made, st, val, pairs, agg, parent, ran)
      BY <2>1 DEF GoodInv, Good, Fit, Scheduled
    <3> QED BY <2>1, <3>1 DEF JobFits
  <2>2. CASE o \in Ids /\ k \in 1 .. Len(callbacks[o]) /\ callbacks[o][k].onFulfilled = Slot(t, i)
    <3>1. HandlerOf(o, callbacks[o][k], made, pairs, agg, parent, ran)
      BY <2>2 DEF GoodInv, Good, Fit, Kept
    <3> QED BY <2>2, <3>1
  <2> QED BY <2>1, <2>2 DEF Waits
<1>2. PICK p, h : HandlerOf(p, h, made, pairs, agg, parent, ran) /\ h.onFulfilled = Slot(t, i) BY <1>1
<1>3. Slot(t, i).fn = "slot" /\ Slot(t, i).to = t BY FnIn DEF Slot
<1> DEFINE fn == h.onFulfilled
<1>4. fn \in {h.onFulfilled, h.onRejected} /\ fn.fn = "slot" /\ fn.to = t BY <1>2, <1>3
<1> HIDE DEF fn
<1>5. fn.to \in 1 .. made BY <1>2, <1>4, ItemHandlerFacts
<1> QED BY <1>4, <1>5

\* The calls of resolve and reject by a user.
LEMMA UserComb ==
  ASSUME GoodInv, CombInv, NEW p \in 1 .. made
  PROVE  /\ \A x \in Things : UserResolve(p, x) => CombInv'
         /\ \A r \in Reasons : UserReject(p, r) => CombInv'
<1>1. p \in Ids /\ Shape(callbacks, queue) BY AskedTypes, GoodShape DEF GoodInv
<1>2. ASSUME NEW x \in Things, UserResolve(p, x) PROVE CombInv'
  <2>1. Resolve(p, x, queue, pairs) /\ agg' = agg /\ agg[p].kind = "none"
    BY <1>2 DEF UserResolve, Held
  <2>2. Thing(made, x) BY ThingsAre
  <2>3. OthersStay(p) BY <1>1, <2>1, <2>2, ResolveStay, StayOthers
  <2> QED BY <1>1, <2>1, <2>3, CombResolve
<1>3. ASSUME NEW r \in Reasons, UserReject(p, r) PROVE CombInv'
  <2>1. Reject(p, r, queue) /\ agg' = agg /\ agg[p].kind = "none"
    BY <1>3 DEF UserReject, Held
  <2>2. OthersStay(p)
    <3>1. Settle(p, "rejected", r, queue) BY <2>1 DEF Reject
    <3> QED BY <1>1, <3>1, SettleSlots, StayOthers
  <2> QED BY <1>1, <2>1, <2>2, CombResolve
<1> QED BY <1>2, <1>3

\* A foreign thenable calls back.
LEMMA ForeignComb ==
  ASSUME GoodInv, CombInv, NEW c \in DOMAIN pairs, NEW state, NEW y \in Things,
         ForeignCallBack(c, state, y)
  PROVE  CombInv'
<1>1. CallBack(c, state, y, queue) /\ agg' = agg BY DEF ForeignCallBack
<1>2. Shape(callbacks, queue) BY GoodShape DEF GoodInv
<1>3. PICK t : t = pairs[c].to OBVIOUS
<1>4. t \in Ids BY <1>3, AskedTypes
<1>5. SlotsStay(queue)
  <2>1. y.kind = "promise" => y.is \in Ids BY ThingsAre, ThingIn
  <2> QED BY <1>1, <1>2, <1>3, <1>4, <2>1, CallBackSlots
<1> QED BY <1>1, <1>3, <1>5, StayOthers, CombCallBack

\* A microtask whose handler is the user's, or missing.
LEMMA HandlersComb ==
  ASSUME GoodInv, CombInv
  PROVE  /\ PassThrough => CombInv'
         /\ \A x \in Things : UserReturns(x) => CombInv'
         /\ \A r \in Reasons : UserThrows(r) => CombInv'
<1> DEFINE next == Current.handler.next
<1>1. ASSUME NEW name \in {"none", "user"}, RunJob(name), agg' = agg, NEW x, Thing(made, x),
             Resolve(next, x, Tail(queue), pairs) \/ Reject(next, x, Tail(queue))
      PROVE  CombInv'
  <2>1. next \in 1 .. made /\ parent[next] \in 1 .. made BY <1>1, JobFn
  <2>2. PICK t : t = next OBVIOUS
  <2>3. t \in Ids /\ agg[t].kind = "none" /\ parent[t] # 0
    <3>1. parent[next] # 0 BY <2>1
    <3> QED BY <2>1, <2>2, <3>1, AskedTypes
  <2> HIDE DEF next
  <2>4. Shape(callbacks, Tail(queue)) => SlotsStay(Tail(queue))
    BY <1>1, <2>2, <2>3, ResolveStay DEF Reject
  <2>5. name \in FnNames /\ name \notin {"slot", "reject"} BY DEF FnNames
  <2>6. OthersStay(t) BY <1>1, <2>4, <2>5, JobOthers
  <2> QED BY <1>1, <2>2, <2>3, <2>6, CombResolve
<1>2. ASSUME PassThrough PROVE CombInv'
  <2>1. /\ RunJob("none") /\ agg' = agg
        /\ Resolve(next, Current.value, Tail(queue), pairs) \/ Reject(next, Current.value, Tail(queue))
    BY <1>2 DEF PassThrough
  <2>2. Thing(made, Current.value) BY <2>1, JobFacts DEF Thing
  <2> QED BY <1>1, <2>1, <2>2
<1>3. ASSUME NEW x \in Things, UserReturns(x) PROVE CombInv'
  <2>1. RunJob("user") /\ agg' = agg /\ Resolve(next, x, Tail(queue), pairs) BY <1>3 DEF UserReturns
  <2> QED BY <1>1, <2>1, ThingsAre
<1>4. ASSUME NEW r \in Reasons, UserThrows(r) PROVE CombInv'
  <2>1. RunJob("user") /\ agg' = agg /\ Reject(next, r, Tail(queue)) BY <1>4 DEF UserThrows
  <2>2. Thing(made, r) BY ReasonsAre DEF Thing
  <2> QED BY <1>1, <2>1, <2>2
<1> QED BY <1>2, <1>3, <1>4

\* A microtask in which a promise takes over the state of another.
LEMMA AdoptComb == ASSUME GoodInv, CombInv, Adopt PROVE CombInv'
<1>1. /\ RunJob("adopt") /\ agg' = agg
      /\ CallBack(CurrentFn.to, Current.state, Current.value, Tail(queue))
  BY DEF Adopt
<1>2. PICK c : c = CurrentFn.to OBVIOUS
<1>3. c \in DOMAIN pairs /\ Current.value.kind = "plain" BY <1>1, <1>2, JobFn, JobFacts
<1>4. PICK t : t = pairs[c].to OBVIOUS
<1>5. t \in Ids BY <1>3, <1>4, AskedTypes
<1>6. CallBack(c, Current.state, Current.value, Tail(queue)) BY <1>1, <1>2
<1>7. ASSUME Shape(callbacks, Tail(queue)) PROVE SlotsStay(Tail(queue))
  <2>1. Current.value.kind # "promise" BY <1>3
  <2> QED BY <1>4, <1>5, <1>6, <1>7, <2>1, CallBackSlots
<1>8. OthersStay(t)
  <2>1. "adopt" \in FnNames /\ "adopt" \notin {"slot", "reject"} BY DEF FnNames
  <2> QED BY <1>1, <1>7, <2>1, JobOthers
<1> QED BY <1>1, <1>3, <1>4, <1>6, <1>8, CombCallBack

\* A new promise, made by a call of all or race.
LEMMA CallMade ==
  ASSUME GoodInv, PairsOut, made < N, NEW t, t = made + 1, NEW call,
         agg' = [agg EXCEPT ![made + 1] = call], pairs' = pairs
  PROVE  /\ t \in Ids /\ t \notin 1 .. made /\ st[t] = "pending" /\ agg'[t] = call
         /\ \A o \in Ids : o # t => agg'[o] = agg[o]
         /\ PairsOut'
<1>1. made \in 0 .. N /\ DOMAIN agg = Ids BY DEF GoodInv, Good, Fit, Typed
<1>2. t \in Ids /\ t > made /\ t \notin 1 .. made BY <1>1, BoundsAssumption DEF Ids
<1>3. st[t] = "pending" BY <1>2, AskedTypes
<1>4. agg'[t] = call /\ \A o \in Ids : o # t => agg'[o] = agg[o] BY <1>1, <1>2
<1>5. ASSUME NEW c \in DOMAIN pairs PROVE agg'[pairs[c].to].kind = "none"
  <2>1. pairs[c].to \in 1 .. made /\ pairs[c].to \in Ids BY AskedTypes
  <2>2. agg'[pairs[c].to] = agg[pairs[c].to] BY <1>2, <1>4, <2>1
  <2> QED BY <2>2 DEF PairsOut
<1>6. PairsOut' BY <1>5 DEF PairsOut
<1> QED BY <1>2, <1>3, <1>4, <1>6

\* Resolving a pending promise with a value.
LEMMA ResolvePlainDoes ==
  ASSUME GoodInv, NEW p \in Ids, NEW x, x.kind = "plain", NEW q, Resolve(p, x, q, pairs),
         st[p] = "pending"
  PROVE  st'[p] = "fulfilled" /\ val'[p] = x
<1>1. ResolvePromise(p, x, q, pairs) BY DEF Resolve
<1>2. Becomes(p, x, pairs) BY <1>1, ResolvePromiseDoes
<1> QED BY <1>2 DEF Becomes

\* A user calls all.
LEMMA AllComb ==
  ASSUME GoodInv, CombInv, NEW items \in Seq(1 .. made), All(items) PROVE CombInv'
<1> DEFINE call == [kind |-> "all", items |-> items,
                    results |-> [i \in DOMAIN items |-> None], remaining |-> Len(items)]
           handlers == [i \in DOMAIN items |-> SlotHandler(made + 1, i)]
<1>1. /\ made < N /\ agg' = [agg EXCEPT ![made + 1] = call]
      /\ IF items = <<>> THEN Resolve(made + 1, Plain(<<>>), queue, pairs)
         ELSE SubscribeEach(items, handlers, queue) /\ pairs' = pairs
  BY DEF All, SlotHandler
<1>2. PICK t : t = made + 1 OBVIOUS
<1>3. /\ call.kind = "all" /\ call.items = items /\ call.remaining = Len(items)
      /\ DOMAIN call.results = DOMAIN items
  OBVIOUS
<1>4. Plain(<<>>).kind = "plain" /\ Plain(<<>>).is = <<>> BY DEF Plain
<1>5. made + 1 \in Ids
  <2>1. made \in 0 .. N BY AskedTypes
  <2> QED BY <1>1, <2>1, BoundsAssumption DEF Ids
<1>6. pairs' = pairs
  <2>1. CASE items = <<>> BY <1>1, <1>4, <1>5, <2>1, ResolvePlain
  <2> QED BY <1>1, <2>1
<1>7. Shape(callbacks, queue) BY GoodShape DEF GoodInv
<1> HIDE DEF call
<1>8. /\ t \in Ids /\ t \notin 1 .. made /\ st[t] = "pending" /\ agg'[t] = call
      /\ \A o \in Ids : o # t => agg'[o] = agg[o]
      /\ PairsOut'
  BY <1>1, <1>2, <1>6, CallMade DEF CombInv
<1>9. Len(items) \in Nat /\ DOMAIN items = 1 .. Len(items) BY LenProperties
<1>10. CASE items = <<>>
  <2>1. Resolve(t, Plain(<<>>), queue, pairs) BY <1>1, <1>2, <1>10
  <2>2. OnlySettles(t) BY <1>4, <1>8, <2>1, ResolvePlain
  <2>3. st'[t] = "fulfilled" /\ val'[t] = Plain(<<>>) BY <1>4, <1>8, <2>1, ResolvePlainDoes
  <2>4. OthersStay(t)
    <3>1. Plain(<<>>).kind # "promise" BY <1>4
    <3> QED BY <1>7, <1>8, <2>1, <3>1, ResolveSlots, StayOthers
  <2>5. DOMAIN items = {} BY <1>10
  <2>6. AllAt(t)' BY <1>3, <1>8, <2>3, <2>5 DEF AllAt
  <2>7. MatchAt(t)' BY <1>3, <1>4, <1>8, <1>10, <2>3, <2>5 DEF MatchAt, IsAll, IsRace
  <2> QED BY <1>8, <2>2, <2>4, <2>6, <2>7, CombOthers
<1>11. CASE items # <<>>
  <2>1. SubscribeEach(items, handlers, queue) BY <1>1, <1>11
  <2>2. st' = st /\ val' = val BY <2>1 DEF SubscribeEach
  <2>3. items \in Seq(Ids)
    <3>1. 1 .. made \subseteq Ids BY AskedTypes
    <3> QED BY <3>1, SeqSubset
  <2>4. \A i \in 1 .. Len(items) : handlers[i].onFulfilled = Slot(t, i)
    BY <1>2, <1>9, HandlerIn DEF SlotHandler, Slot
  <2>5. \A o, i : Slot(o, i).to = o /\ Slot(o, i).i = i BY FnIn DEF Slot
  <2> HIDE DEF handlers
  <2>6. OthersStay(t)
    <3> SUFFICES ASSUME NEW o \in Ids, NEW i, o # t
                 PROVE  Keeps(Slot(o, i), callbacks, queue, callbacks', queue')
      BY DEF OthersStay
    <3>1. \A k \in 1 .. Len(items) : handlers[k].onFulfilled # Slot(o, i) BY <2>4, <2>5
    <3> QED BY <1>7, <2>1, <2>3, <3>1, SubscribeEachMoves
  <2>7. ASSUME NEW j \in 1 .. Len(items)
        PROVE  Single(Slot(t, j), callbacks', queue') /\ Waiting(Slot(t, j), callbacks', queue')
    <3>1. handlers[j].onFulfilled = Slot(t, j) BY <2>4
    <3>2. \A i \in 1 .. Len(items) : i # j => handlers[i].onFulfilled # Slot(t, j) BY <2>4, <2>5
    <3>3. ~Waiting(Slot(t, j), callbacks, queue) BY <1>8, NoneYet
    <3> QED BY <1>7, <2>1, <2>3, <3>1, <3>2, <3>3, SubscribeEachMoves
  <2>8. Missing(t)' = 1 .. Len(items) BY <1>3, <1>8, <1>9, <2>7 DEF Missing
  <2>9. Cardinality(Missing(t)') = Len(items)
    <3>1. Cardinality(1 .. Len(items)) = Len(items) BY <1>9, FS_Interval
    <3> QED BY <2>8, <3>1
  <2>10. AllAt(t)' BY <1>3, <1>8, <1>9, <2>7, <2>8, <2>9 DEF AllAt
  <2>11. MatchAt(t)' BY <1>3, <1>8, <2>2 DEF MatchAt, IsAll, IsRace, Settled
  <2> QED BY <1>8, <2>2, <2>6, <2>10, <2>11, SameSettles, CombOthers
<1> QED BY <1>10, <1>11

\* A user calls race.
LEMMA RaceComb ==
  ASSUME GoodInv, CombInv, NEW items \in Seq(1 .. made), Race(items) PROVE CombInv'
<1> DEFINE call == [kind |-> "race", items |-> items]
           handlers == [i \in DOMAIN items |-> RaceHandler(made + 1)]
<1>1. /\ made < N /\ agg' = [agg EXCEPT ![made + 1] = call]
      /\ SubscribeEach(items, handlers, queue) /\ pairs' = pairs
  BY DEF Race, RaceHandler
<1>2. PICK t : t = made + 1 OBVIOUS
<1>3. call.kind = "race" OBVIOUS
<1> HIDE DEF call
<1>4. /\ t \in Ids /\ st[t] = "pending" /\ agg'[t] = call
      /\ \A o \in Ids : o # t => agg'[o] = agg[o]
      /\ PairsOut'
  BY <1>1, <1>2, CallMade DEF CombInv
<1>5. st' = st /\ val' = val BY <1>1 DEF SubscribeEach
<1>6. OthersStay(t)
  <2> SUFFICES ASSUME NEW o \in Ids, NEW i, o # t
               PROVE  Keeps(Slot(o, i), callbacks, queue, callbacks', queue')
    BY DEF OthersStay
  <2>1. Shape(callbacks, queue) BY GoodShape DEF GoodInv
  <2>2. items \in Seq(Ids)
    <3>1. 1 .. made \subseteq Ids BY AskedTypes
    <3> QED BY <3>1, SeqSubset
  <2>3. ASSUME NEW k \in 1 .. Len(items) PROVE handlers[k].onFulfilled # Slot(o, i)
    <3>1. k \in DOMAIN items BY LenProperties
    <3>2. handlers[k].onFulfilled = Fn("resolve", made + 1, 0) BY <3>1, HandlerIn DEF RaceHandler
    <3>3. Fn("resolve", made + 1, 0).fn = "resolve" /\ Slot(o, i).fn = "slot" BY FnIn DEF Slot
    <3> QED BY <3>2, <3>3
  <2> HIDE DEF handlers
  <2> QED BY <1>1, <2>1, <2>2, <2>3, SubscribeEachMoves
<1>7. AllAt(t)' BY <1>3, <1>4 DEF AllAt
<1>8. MatchAt(t)' BY <1>3, <1>4, <1>5 DEF MatchAt, IsAll, IsRace, Settled
<1> QED BY <1>4, <1>5, <1>6, <1>7, <1>8, SameSettles, CombOthers

\* The items of a call that are settled stay as they are.
LEMMA ItemsStay ==
  ASSUME GoodInv, NEW t \in Ids, OnlySettles(t), NEW p \in Ids, agg[p].kind # "none",
         NEW i \in DOMAIN agg[p].items, st[agg[p].items[i]] # "pending"
  PROVE  st'[agg[p].items[i]] = st[agg[p].items[i]] /\ val'[agg[p].items[i]] = val[agg[p].items[i]]
<1>1. agg[p].items \in Seq(1 .. made) BY DEF GoodInv, Good, Fit, Combined
<1>2. agg[p].items[i] \in 1 .. made BY <1>1, LenProperties, ElementOfSeq
<1>3. agg[p].items[i] \in Ids BY <1>2, AskedTypes
<1> QED BY <1>3 DEF OnlySettles

\* A call that has settled still matches its items.
LEMMA StaysMatched ==
  ASSUME GoodInv, CombInv, NEW t \in Ids, st[t] # "pending", OnlySettles(t),
         agg[t].kind \in {"all", "race"}, agg'[t].kind = agg[t].kind, agg'[t].items = agg[t].items
  PROVE  MatchAt(t)'
<1>1. MatchAt(t) /\ st'[t] = st[t] /\ val'[t] = val[t] BY DEF CombInv, OnlySettles
<1>2. CASE IsAll(t) /\ st[t] = "fulfilled"
  <2>1. /\ Len(val[t].is) = Len(agg[t].items)
        /\ \A i \in DOMAIN agg[t].items :
             st[agg[t].items[i]] = "fulfilled" /\ val[t].is[i] = val[agg[t].items[i]]
    BY <1>1, <1>2 DEF MatchAt
  <2>2. \A i \in DOMAIN agg[t].items :
          st'[agg[t].items[i]] = "fulfilled" /\ val[t].is[i] = val'[agg[t].items[i]]
    BY <2>1, ItemsStay
  <2> QED BY <1>1, <1>2, <2>1, <2>2 DEF MatchAt, IsAll, IsRace
<1>3. CASE (IsAll(t) /\ st[t] = "rejected") \/ IsRace(t)
  <2>1. PICK i \in DOMAIN agg[t].items : st[agg[t].items[i]] = st[t] /\ val[agg[t].items[i]] = val[t]
    BY <1>1, <1>3 DEF MatchAt, Settled
  <2>2. st'[agg[t].items[i]] = st[t] /\ val'[agg[t].items[i]] = val[t] BY <2>1, ItemsStay
  <2> QED BY <1>1, <1>3, <2>1, <2>2 DEF MatchAt, IsAll, IsRace
<1>4. st[t] \in {"pending", "fulfilled", "rejected"} BY DEF GoodInv, Good, Fit, Typed, States
<1> QED BY <1>2, <1>3, <1>4 DEF IsAll, IsRace

\* A microtask takes its handler out of the queue, and moves the handlers of all only.
LEMMA JobSlots ==
  ASSUME GoodInv, NEW name, RunJob(name), NEW x, x.fn = "slot", Single(x, callbacks, queue),
         Shape(callbacks, Tail(queue)) => SlotsStay(Tail(queue))
  PROVE  /\ Single(x, callbacks', queue')
         /\ Current.handler.onFulfilled # x =>
              (Waiting(x, callbacks', queue') <=> Waiting(x, callbacks, queue))
         /\ Current.handler.onFulfilled = x => Waiting(x, callbacks, queue) /\ ~Waiting(x, callbacks', queue')
<1>1. Shape(callbacks, queue) /\ queue # <<>> BY GoodShape, JobFacts DEF GoodInv
<1>2. /\ Shape(callbacks, Tail(queue))
      /\ Single(x, callbacks, Tail(queue))
      /\ Current.handler.onFulfilled # x => Keeps(x, callbacks, queue, callbacks, Tail(queue))
      /\ Current.handler.onFulfilled = x => Waiting(x, callbacks, queue)
      /\ Current.handler.onFulfilled = x => ~Waiting(x, callbacks, Tail(queue))
  BY <1>1, HeadMoves DEF Current
<1>3. Keeps(x, callbacks, Tail(queue), callbacks', queue') BY <1>2 DEF SlotsStay
<1> QED BY <1>2, <1>3 DEF Keeps

\* A microtask in which an item of a call of race arrives.
LEMMA RaceResolveComb == ASSUME GoodInv, CombInv, RaceResolve PROVE CombInv'
<1>1. /\ RunJob("resolve") /\ agg' = agg
      /\ Resolve(CurrentFn.to, Current.value, Tail(queue), pairs)
  BY DEF RaceResolve
<1>2. PICK t : t = CurrentFn.to OBVIOUS
<1>3. t \in Ids /\ Current.value.kind = "plain"
  <2>1. t \in 1 .. made BY <1>1, <1>2, JobFn
  <2> QED BY <1>1, <2>1, AskedTypes, JobFacts
<1>4. Resolve(t, Current.value, Tail(queue), pairs) BY <1>1, <1>2
<1>5. PICK i \in DOMAIN agg[t].items :
        /\ st[agg[t].items[i]] = "fulfilled" /\ Current.value = val[agg[t].items[i]]
        /\ agg[t].kind = "race"
  BY <1>1, <1>2, ItemJob
<1>6. OnlySettles(t) /\ pairs' = pairs BY <1>3, <1>4, ResolvePlain
<1>7. OthersStay(t)
  <2>1. "resolve" \in FnNames /\ "resolve" \notin {"slot", "reject"} BY DEF FnNames
  <2>2. Shape(callbacks, Tail(queue)) => SlotsStay(Tail(queue)) BY <1>3, <1>4, ResolveSlots
  <2> QED BY <1>1, <2>1, <2>2, JobOthers
<1>8. PairsOut' BY <1>1, <1>6 DEF CombInv, PairsOut
<1>9. AllAt(t)' BY <1>1, <1>5 DEF AllAt
<1>10. MatchAt(t)'
  <2>1. CASE st[t] # "pending" BY <1>1, <1>3, <1>5, <1>6, <2>1, StaysMatched
  <2>2. CASE st[t] = "pending"
    <3>1. st'[t] = "fulfilled" /\ val'[t] = Current.value
      BY <1>3, <1>4, <2>2, ResolvePlainDoes
    <3>2. st'[agg[t].items[i]] = "fulfilled" /\ val'[agg[t].items[i]] = Current.value
      BY <1>3, <1>5, <1>6, ItemsStay
    <3> QED BY <1>1, <1>5, <3>1, <3>2 DEF MatchAt, IsAll, IsRace
  <2> QED BY <2>1, <2>2
<1> QED BY <1>1, <1>3, <1>6, <1>7, <1>8, <1>9, <1>10, CombOthers

\* A microtask in which an item of a call of all or race is rejected.
LEMMA RejectNextComb == ASSUME GoodInv, CombInv, RejectNext PROVE CombInv'
<1>1. /\ RunJob("reject") /\ agg' = agg /\ pairs' = pairs
      /\ Settle(CurrentFn.to, "rejected", Current.value, Tail(queue))
  BY DEF RejectNext, Reject
<1>2. PICK t : t = CurrentFn.to OBVIOUS
<1>3. t \in Ids /\ agg[t].kind \in {"all", "race"}
  <2>1. t \in 1 .. made /\ agg[t].kind \in {"all", "race"} BY <1>1, <1>2, JobFn
  <2> QED BY <2>1, AskedTypes
<1>4. Settle(t, "rejected", Current.value, Tail(queue)) BY <1>1, <1>2
<1>5. PICK i \in DOMAIN agg[t].items :
        st[agg[t].items[i]] = "rejected" /\ Current.value = val[agg[t].items[i]]
  BY <1>1, <1>2, ItemJob
<1>6. OnlySettles(t) /\ (st[t] = "pending" => st'[t] = "rejected" /\ val'[t] = Current.value)
  BY <1>3, <1>4, SettleDoes
<1>7. Shape(callbacks, Tail(queue)) => SlotsStay(Tail(queue)) BY <1>3, <1>4, SettleSlots
<1>8. OthersStay(t)
  <2>1. "reject" \in FnNames BY DEF FnNames
  <2> QED BY <1>1, <1>2, <1>7, <2>1, JobOthers
<1>9. PairsOut' BY <1>1 DEF CombInv, PairsOut
<1>10. st'[t] # "pending" BY <1>6 DEF OnlySettles
<1>11. AllAt(t)'
  <2>1. ASSUME agg[t].kind = "all", NEW k \in DOMAIN agg[t].items
        PROVE  Single(Slot(t, k), callbacks', queue')
    <3>1. Single(Slot(t, k), callbacks, queue) BY <1>3, <2>1 DEF CombInv, AllAt
    <3>2. Slot(t, k).fn = "slot" BY FnIn DEF Slot
    <3> QED BY <1>1, <1>7, <3>1, <3>2, JobSlots
  <2> QED BY <1>1, <1>10, <2>1 DEF AllAt
<1>12. MatchAt(t)'
  <2>1. CASE st[t] # "pending" BY <1>1, <1>3, <1>6, <2>1, StaysMatched
  <2>2. CASE st[t] = "pending"
    <3>1. st'[t] = "rejected" /\ val'[t] = Current.value BY <1>6, <2>2
    <3>2. st'[agg[t].items[i]] = "rejected" /\ val'[agg[t].items[i]] = Current.value
      BY <1>3, <1>5, <1>6, ItemsStay
    <3> QED BY <1>1, <1>5, <3>1, <3>2 DEF MatchAt, IsAll, IsRace
  <2> QED BY <2>1, <2>2
<1> QED BY <1>1, <1>3, <1>6, <1>8, <1>9, <1>11, <1>12, CombOthers

\* A microtask in which an item of a call of all arrives.
LEMMA AllSlotComb == ASSUME GoodInv, CombInv, AllSlot PROVE CombInv'
<1>1. PICK t, i : t = CurrentFn.to /\ i = CurrentFn.i OBVIOUS
<1>2. PICK results : results = [agg[t].results EXCEPT ![i] = Current.value] OBVIOUS
<1>3. /\ RunJob("slot") /\ agg' = [agg EXCEPT ![t].results = results, ![t].remaining = @ - 1]
      /\ IF agg[t].remaining = 1 THEN Resolve(t, Plain(results), Tail(queue), pairs)
         ELSE /\ queue' = Tail(queue) /\ pairs' = pairs
              /\ st' = st /\ val' = val /\ callbacks' = callbacks
  BY <1>1, <1>2 DEF AllSlot, promises
<1>4. t \in Ids /\ agg[t].kind = "all"
  <2>1. t \in 1 .. made /\ agg[t].kind = "all" BY <1>1, <1>3, JobFn
  <2> QED BY <2>1, AskedTypes
<1>5. /\ i \in DOMAIN agg[t].items
      /\ st[agg[t].items[i]] = "fulfilled" /\ Current.value = val[agg[t].items[i]]
      /\ Current.handler.onFulfilled = Slot(t, i)
  <2>1. PICK k \in DOMAIN agg[t].items :
          /\ st[agg[t].items[k]] = "fulfilled" /\ Current.value = val[agg[t].items[k]]
          /\ CurrentFn = Slot(t, k) /\ Current.handler.onFulfilled = CurrentFn
    BY <1>1, <1>3, ItemJob
  <2>2. Slot(t, k).i = k BY FnIn DEF Slot
  <2> QED BY <1>1, <2>1, <2>2
<1>6. /\ agg'[t].kind = "all" /\ agg'[t].items = agg[t].items
      /\ agg'[t].results = results /\ agg'[t].remaining = agg[t].remaining - 1
      /\ \A o \in Ids : agg'[o].kind = agg[o].kind
      /\ \A o \in Ids : o # t => agg'[o] = agg[o]
  <2>1. DOMAIN agg = Ids BY DEF GoodInv, Good, Fit, Typed
  <2>2. DOMAIN agg[t] = {"kind", "items", "results", "remaining"}
    BY <1>4 DEF GoodInv, Good, Fit, Combined
  <2> QED BY <1>3, <1>4, <2>1, <2>2
<1>7. Plain(results).kind = "plain" /\ Plain(results).is = results BY DEF Plain
<1>8. OnlySettles(t) /\ pairs' = pairs BY <1>3, <1>4, <1>7, ResolvePlain, SameSettles
<1>9. Shape(callbacks, Tail(queue)) => SlotsStay(Tail(queue))
  <2>1. CASE agg[t].remaining = 1
    <3>1. Plain(results).kind # "promise" BY <1>7
    <3> QED BY <1>3, <1>4, <2>1, <3>1, ResolveSlots
  <2>2. CASE agg[t].remaining # 1
    <3>1. queue' = Tail(queue) /\ callbacks' = callbacks BY <1>3, <2>2
    <3> QED BY <3>1, KeepsSame DEF SlotsStay
  <2> QED BY <2>1, <2>2
<1>10. OthersStay(t)
  <2>1. "slot" \in FnNames BY DEF FnNames
  <2> QED BY <1>1, <1>3, <1>9, <2>1, JobOthers
<1>11. PairsOut'
  <2>1. \A c \in DOMAIN pairs : pairs[c].to \in Ids BY AskedTypes
  <2> QED BY <1>6, <1>8, <2>1 DEF CombInv, PairsOut
<1>12. \A k : Slot(t, k).fn = "slot" /\ (k # i => Slot(t, k) # Slot(t, i))
  <2>1. \A k : Slot(t, k).fn = "slot" /\ Slot(t, k).i = k BY FnIn DEF Slot
  <2> QED BY <2>1
<1>13. \A k \in DOMAIN agg[t].items : Single(Slot(t, k), callbacks, queue)
  BY <1>4 DEF CombInv, AllAt
<1>14. /\ \A k \in DOMAIN agg[t].items : Single(Slot(t, k), callbacks', queue')
       /\ i \in Missing(t) /\ Missing(t)' = Missing(t) \ {i}
  <2>1. ASSUME NEW k \in DOMAIN agg[t].items
        PROVE  /\ Single(Slot(t, k), callbacks', queue')
               /\ k # i => (Waiting(Slot(t, k), callbacks', queue') <=> Waiting(Slot(t, k), callbacks, queue))
               /\ k = i => Waiting(Slot(t, k), callbacks, queue) /\ ~Waiting(Slot(t, k), callbacks', queue')
    BY <1>3, <1>5, <1>9, <1>12, <1>13, JobSlots
  <2> QED BY <1>5, <1>6, <2>1 DEF Missing
<1>15. CASE st[t] # "pending"
  <2>1. st'[t] # "pending" BY <1>8, <1>15 DEF OnlySettles
  <2>2. AllAt(t)' BY <1>6, <1>14, <2>1 DEF AllAt
  <2>3. MatchAt(t)' BY <1>4, <1>6, <1>8, <1>15, StaysMatched
  <2> QED BY <1>4, <1>6, <1>8, <1>10, <1>11, <2>2, <2>3, CombOthers
<1>16. CASE st[t] = "pending"
  <2>1. /\ agg[t].remaining = Cardinality(Missing(t))
        /\ DOMAIN agg[t].results = DOMAIN agg[t].items
        /\ \A k \in DOMAIN agg[t].items \ Missing(t) :
             st[agg[t].items[k]] = "fulfilled" /\ agg[t].results[k] = val[agg[t].items[k]]
    BY <1>4, <1>16 DEF CombInv, AllAt
  <2>2. DOMAIN results = DOMAIN agg[t].items /\ results[i] = Current.value
        /\ \A k \in DOMAIN agg[t].items : k # i => results[k] = agg[t].results[k]
    BY <1>2, <1>5, <2>1
  <2>3. \A k \in DOMAIN agg[t].items \ Missing(t)' :
          st'[agg[t].items[k]] = "fulfilled" /\ results[k] = val'[agg[t].items[k]]
    <3> SUFFICES ASSUME NEW k \in DOMAIN agg[t].items \ (Missing(t) \ {i})
                 PROVE  st'[agg[t].items[k]] = "fulfilled" /\ results[k] = val'[agg[t].items[k]]
      BY <1>14
    <3>1. st[agg[t].items[k]] = "fulfilled" /\ results[k] = val[agg[t].items[k]]
      BY <1>5, <2>1, <2>2
    <3> QED BY <1>4, <1>8, <3>1, ItemsStay
  <2>4. Len(agg[t].items) \in Nat /\ DOMAIN agg[t].items = 1 .. Len(agg[t].items)
    <3>1. agg[t].items \in Seq(1 .. made) BY <1>4 DEF GoodInv, Good, Fit, Combined
    <3> QED BY <3>1, LenProperties
  <2>5. IsFiniteSet(Missing(t)) /\ Cardinality(Missing(t)') = Cardinality(Missing(t)) - 1
    <3>1. IsFiniteSet(1 .. Len(agg[t].items)) BY <2>4, FS_Interval
    <3>2. Missing(t) \in SUBSET (1 .. Len(agg[t].items)) BY <2>4 DEF Missing
    <3>3. IsFiniteSet(Missing(t)) BY <3>1, <3>2, FS_Subset
    <3> QED BY <1>14, <3>3, FS_RemoveElement
  <2>6. CASE agg[t].remaining # 1
    <3>1. st' = st BY <1>3, <2>6
    <3>2. AllAt(t)' BY <1>6, <1>14, <2>1, <2>2, <2>3, <2>5 DEF AllAt
    <3>3. MatchAt(t)' BY <1>6, <1>16, <3>1 DEF MatchAt, IsAll, IsRace
    <3> QED BY <1>4, <1>6, <1>8, <1>10, <1>11, <3>2, <3>3, CombOthers
  <2>7. CASE agg[t].remaining = 1
    <3>1. Resolve(t, Plain(results), Tail(queue), pairs) BY <1>3, <2>7
    <3>2. st'[t] = "fulfilled" /\ val'[t] = Plain(results)
      BY <1>4, <1>7, <1>16, <3>1, ResolvePlainDoes
    <3>3. AllAt(t)' BY <1>6, <1>14, <3>2 DEF AllAt
    <3>4. Missing(t)' = {}
      <4>1. PICK x : Missing(t) = {x} BY <2>1, <2>5, <2>7, FS_Singleton
      <4> QED BY <1>14, <4>1
    <3>5. Len(results) = Len(agg[t].items)
      <4>1. results = [k \in 1 .. Len(agg[t].items) |-> results[k]] BY <1>2, <2>1, <2>4
      <4> QED BY <2>4, <4>1, SeqMake
    <3>6. MatchAt(t)'
      <4>1. \A k \in DOMAIN agg[t].items :
              st'[agg[t].items[k]] = "fulfilled" /\ results[k] = val'[agg[t].items[k]]
        BY <2>3, <3>4
      <4> QED BY <1>6, <1>7, <3>2, <3>5, <4>1 DEF MatchAt, IsAll, IsRace
    <3> QED BY <1>4, <1>6, <1>8, <1>10, <1>11, <3>3, <3>6, CombOthers
  <2> QED BY <2>6, <2>7
<1> QED BY <1>15, <1>16

-----------------------------------------------------------------------------
(* The theorem.                                                            *)

\* At the start there is no call of all or race.
LEMMA CombStart == Init => CombInv
<1> SUFFICES ASSUME Init PROVE CombInv OBVIOUS
<1>1. agg = [p \in Ids |-> [kind |-> "none"]] /\ pairs = <<>> BY DEF Init
<1>2. \A p \in Ids : agg[p].kind = "none" BY <1>1
<1>3. DOMAIN pairs = {} BY <1>1
<1> QED BY <1>2, <1>3 DEF CombInv, PairsOut, AllAt, MatchAt, IsAll, IsRace

\* Every step keeps CombInv.
LEMMA CombStep == GoodInv /\ CombInv /\ [Next]_vars => CombInv'
<1> SUFFICES ASSUME GoodInv, CombInv, [Next]_vars PROVE CombInv' OBVIOUS
<1>1. CASE Create BY <1>1, CreateComb
<1>2. CASE \E p \in 1 .. made, x \in Things : UserResolve(p, x) BY <1>2, UserComb
<1>3. CASE \E p \in 1 .. made, r \in Reasons : UserReject(p, r) BY <1>3, UserComb
<1>4. CASE \E p \in 1 .. made, f, g \in {NoFn, UserFn} : Then(p, f, g) BY <1>4, ThenComb
<1>5. CASE \E items \in ItemLists : All(items) \/ Race(items) BY <1>5, ListsAre, AllComb, RaceComb
<1>6. CASE \E c \in DOMAIN pairs :
             \/ \E y \in Things : ForeignCallBack(c, "fulfilled", y)
             \/ \E r \in Reasons : ForeignCallBack(c, "rejected", r)
  <2>1. \A r \in Reasons : r \in Things BY DEF Things
  <2> QED BY <1>6, <2>1, ForeignComb
<1>7. CASE Microtask
  <2>1. /\ PassThrough => CombInv'
        /\ \A x \in Things : UserReturns(x) => CombInv'
        /\ \A r \in Reasons : UserThrows(r) => CombInv'
    BY HandlersComb
  <2>2. CASE PassThrough BY <2>1, <2>2
  <2>3. CASE Adopt BY <2>3, AdoptComb
  <2>4. CASE AllSlot BY <2>4, AllSlotComb
  <2>5. CASE RaceResolve BY <2>5, RaceResolveComb
  <2>6. CASE RejectNext BY <2>6, RejectNextComb
  <2>7. CASE \E x \in Things : UserReturns(x) BY <2>1, <2>7
  <2>8. CASE \E r \in Reasons : UserThrows(r) BY <2>1, <2>8
  <2> QED BY <1>7, <2>2, <2>3, <2>4, <2>5, <2>6, <2>7, <2>8 DEF Microtask
<1>8. CASE UNCHANGED vars
  <2>1. /\ st' = st /\ val' = val /\ callbacks' = callbacks /\ queue' = queue
        /\ pairs' = pairs /\ agg' = agg
    BY <1>8 DEF vars
  <2>2. PairsOut' BY <2>1 DEF CombInv, PairsOut
  <2>3. ASSUME NEW p \in Ids PROVE AllAt(p)' /\ MatchAt(p)'
    <3>1. AllAt(p) /\ MatchAt(p) BY DEF CombInv
    <3>2. Missing(p)' = Missing(p) BY <2>1 DEF Missing
    <3>3. AllAt(p)' BY <2>1, <3>1, <3>2 DEF AllAt
    <3>4. MatchAt(p)' BY <2>1, <3>1 DEF MatchAt, IsAll, IsRace, Settled
    <3> QED BY <3>3, <3>4
  <2> QED BY <2>2, <2>3 DEF CombInv
<1> QED BY <1>1, <1>2, <1>3, <1>4, <1>5, <1>6, <1>7, <1>8 DEF Next

\* MatchAt of every promise is CombinatorsMatchItems.
LEMMA CombMatch == GoodInv /\ CombInv => CombinatorsMatchItems
BY AskedTypes DEF CombInv, MatchAt, CombinatorsMatchItems

\* APromise.all fulfils with the values of its items, in the order of the items and not of
\* their completion, and rejects with the reason of an item; APromise.race settles as one of
\* its items did.
THEOREM CombinatorsMatchItemsHolds == Spec => []CombinatorsMatchItems
<1>1. Spec => []CombInv
  <2>1. Init => GoodInv /\ CombInv BY GoodStart, CombStart
  <2>2. GoodInv /\ CombInv /\ [Next]_vars => (GoodInv /\ CombInv)' BY GoodStep, CombStep
  <2> QED BY <2>1, <2>2, PTL DEF Spec
<1> QED BY <1>1, InvariantHolds, CombMatch, PTL
=============================================================================
