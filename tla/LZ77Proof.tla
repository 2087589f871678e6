----------------------------- MODULE LZ77Proof -----------------------------
(***************************************************************************)
(* Proof about LZ77, for every input, level, hash function and window      *)
(* size: no chain runs into a slot of prev that was reused or never        *)
(* written.                                                                *)
(*                                                                         *)
(* CandidatesAreFresh is not inductive: the next candidate is read from    *)
(* the slot of the present one, so something must be known of every slot   *)
(* that a search may still look at.  These are the slots of the last       *)
(* WINDOW_SIZE positions (PrevInv), whose positions have different         *)
(* residues (ModInjective); the slot of a candidate farther back may hold  *)
(* anything, but find_match stops at its distance before it looks there.   *)
(***************************************************************************)
EXTENDS LZ77, TLAPS

HashValues == {Hash[t] : t \in DOMAIN Hash}
Slots == 0 .. WINDOW_SIZE - 1

LTypeOK ==
    /\ in \in Seq(Bytes)
    /\ pos \in Nat
    /\ head \in [HashValues -> Int]
    /\ prev \in [Slots -> Int]
    /\ search.candidate \in Int

(* What a chain may hold of hash h: its end, or an inserted position with
   that hash, before position i. *)
Link(c, i, h) ==
    c # Nil => /\ c \in Nat
               /\ c < i
               /\ Hashable(c)
               /\ hash3(c) = h

HeadInv == \A h \in HashValues : Link(head[h], pos, h)

InWindow(i) == i \in Nat /\ i < pos /\ pos - i <= WINDOW_SIZE

PrevInv ==
    \A i \in Nat :
        InWindow(i) /\ Hashable(i) => Link(prev[i % WINDOW_SIZE], i, hash3(i))

SearchInv ==
    pc = "search" /\ search.candidate # Nil =>
        Hashable(pos) /\ Link(search.candidate, pos, hash3(pos))

IInv == LTypeOK /\ HeadInv /\ PrevInv /\ SearchInv

-----------------------------------------------------------------------------
(* Arithmetic of slots numbered modulo a size.                             *)

\* The slot of an index lies in the range of slots.
LEMMA ModRange ==
  ASSUME NEW c \in Nat \ {0}, NEW i \in Int
  PROVE  i % c \in 0 .. c - 1
  OBVIOUS

\* A multiple of the size smaller than the size is zero.
LEMMA SmallMultiple ==
  ASSUME NEW c \in Nat \ {0}, NEW q \in Int, 0 <= c * q, c * q < c
  PROVE  q = 0
<1>1. CASE q >= 1
  <2>1. c * q >= c * 1 BY <1>1, SMT
  <2> QED BY <2>1, SMT
<1>2. CASE q <= -1
  <2>1. c * q <= c * (-1) BY <1>2, SMT
  <2> QED BY <2>1, SMT
<1> QED BY <1>1, <1>2

\* Two indices less than one size apart have different slots.
LEMMA ModInjective ==
  ASSUME NEW c \in Nat \ {0}, NEW i \in Int, NEW j \in Int,
         i <= j, j - i < c, i % c = j % c
  PROVE  i = j
<1> DEFINE p == i \div c
           q == j \div c
<1>1. p \in Int /\ q \in Int OBVIOUS
<1>2. i = c * p + (i % c) /\ j = c * q + (j % c) OBVIOUS
<1>3. i % c \in Int /\ j % c \in Int OBVIOUS
<1> HIDE DEF p, q
<1>4. c * (q - p) = c * q - c * p BY <1>1, SMT
<1>5. c * (q - p) = j - i BY <1>1, <1>2, <1>3, <1>4, SMT
<1>6. q - p = 0 BY <1>1, <1>5, SmallMultiple
<1> QED BY <1>1, <1>2, <1>3, <1>6

-----------------------------------------------------------------------------
\* The hash of a position that starts three bytes is a hash value.
LEMMA HashType ==
    ASSUME LTypeOK, NEW i \in Nat, Hashable(i)
    PROVE  hash3(i) \in HashValues
<1>1. i + 1 \in DOMAIN in /\ i + 2 \in DOMAIN in /\ i + 3 \in DOMAIN in
    BY WindowAssumption DEF LTypeOK, Hashable
<1>2. At(i) \in Bytes /\ At(i + 1) \in Bytes /\ At(i + 2) \in Bytes
    BY <1>1 DEF LTypeOK, At
<1> QED BY <1>2, WindowAssumption DEF hash3, HashValues

\* hash3 and Hashable speak of the input only.
LEMMA HashStays ==
    ASSUME in' = in, NEW i \in Nat
    PROVE  (Hashable(i) <=> Hashable(i)') /\ hash3(i)' = hash3(i)
BY DEF Hashable, hash3, At

\* Inserting the present position and going on keeps both kinds of links.
LEMMA InsertKeeps ==
    ASSUME IInv, Insert(pos), pos' = pos + 1, in' = in
    PROVE  /\ head' \in [HashValues -> Int]
           /\ prev' \in [Slots -> Int]
           /\ HeadInv'
           /\ PrevInv'
<1> USE DEF IInv
<1>0. pos \in Nat /\ WINDOW_SIZE \in Nat \ {0} BY WindowAssumption DEF LTypeOK
<1>1. CASE ~Hashable(pos)
  <2>1. head' = head /\ prev' = prev BY <1>1 DEF Insert
  <2>2. HeadInv' BY <2>1, <1>0, HashStays DEF HeadInv, Link
  <2>3. ASSUME NEW i \in Nat, InWindow(i)', Hashable(i)'
        PROVE  InWindow(i) /\ Hashable(i)
    <3>1. Hashable(i) BY <2>3, HashStays
    <3>2. i # pos BY <3>1, <1>1
    <3> QED BY <3>1, <3>2, <2>3, <1>0 DEF InWindow
  <2>4. PrevInv' BY <2>1, <2>3, HashStays DEF PrevInv, Link
  <2> QED BY <2>1, <2>2, <2>4 DEF LTypeOK
<1>2. CASE Hashable(pos)
  <2> DEFINE h == hash3(pos)
             w == pos % WINDOW_SIZE
  <2>1. h \in HashValues BY <1>0, <1>2, HashType
  <2>2. w \in Slots BY <1>0, ModRange DEF Slots
  <2>3. /\ prev' = [prev EXCEPT ![w] = head[h]]
        /\ head' = [head EXCEPT ![h] = pos]
    BY <1>2 DEF Insert
  <2> HIDE DEF w
  <2>4. head' \in [HashValues -> Int] /\ prev' \in [Slots -> Int]
    BY <2>1, <2>2, <2>3, <1>0 DEF LTypeOK
  <2>5. HeadInv'
    <3> SUFFICES ASSUME NEW g \in HashValues PROVE Link(head[g], pos, g)'
        BY DEF HeadInv
    <3>1. CASE g = h
      <4>1. head'[g] = pos BY <3>1, <2>1, <2>3 DEF LTypeOK
      <4> QED BY <4>1, <3>1, <1>0, <1>2, HashStays DEF Link
    <3>2. CASE g # h
      <4>1. head'[g] = head[g] BY <3>2, <2>3 DEF LTypeOK
      <4>2. Link(head[g], pos, g) BY DEF HeadInv
      <4> QED BY <4>1, <4>2, <1>0, HashStays DEF Link
    <3> QED BY <3>1, <3>2
  <2>6. PrevInv'
    <3> SUFFICES ASSUME NEW i \in Nat, InWindow(i)', Hashable(i)'
                 PROVE  Link(prev[i % WINDOW_SIZE], i, hash3(i))'
        BY DEF PrevInv
    <3>1. Hashable(i) /\ hash3(i)' = hash3(i) BY HashStays
    <3>2. i % WINDOW_SIZE \in Slots BY <1>0, ModRange DEF Slots
    <3>3. CASE i = pos
      <4>1. prev'[i % WINDOW_SIZE] = head[h] BY <3>3, <2>2, <2>3 DEF LTypeOK, w
      <4>2. Link(head[h], pos, h) BY <2>1 DEF HeadInv
      <4> QED BY <4>1, <4>2, <3>1, <3>3, HashStays DEF Link
    <3>4. CASE i # pos
      <4>1. InWindow(i) /\ pos - i < WINDOW_SIZE BY <3>4, <1>0 DEF InWindow
      <4>2. i % WINDOW_SIZE # w
        <5>1. /\ i \in Int /\ pos \in Int /\ WINDOW_SIZE \in Nat \ {0}
              /\ i <= pos /\ pos - i < WINDOW_SIZE
            BY <4>1, <1>0 DEF InWindow
        <5>2. i % WINDOW_SIZE = pos % WINDOW_SIZE => i = pos
            BY <5>1, ModInjective
        <5> QED BY <5>2, <3>4 DEF w
      <4>3. prev'[i % WINDOW_SIZE] = prev[i % WINDOW_SIZE]
          BY <4>2, <3>2, <2>3 DEF LTypeOK
      <4>4. Link(prev[i % WINDOW_SIZE], i, hash3(i)) BY <4>1, <3>1 DEF PrevInv
      <4> QED BY <4>3, <4>4, <3>1, HashStays DEF Link
    <3> QED BY <3>3, <3>4
  <2> QED BY <2>4, <2>5, <2>6
<1> QED BY <1>1, <1>2

\* A step that moves neither the position nor the chains keeps the links.
LEMMA LinksStay ==
    ASSUME IInv, in' = in, UNCHANGED <<pos, head, prev>>
    PROVE  HeadInv' /\ PrevInv'
<1>1. HeadInv' BY HashStays DEF IInv, HeadInv, Link
<1>2. PrevInv' BY HashStays DEF IInv, PrevInv, Link, InWindow
<1> QED BY <1>1, <1>2

\* The candidate of the next round of find_match is one of the same chain.
LEMMA ExamineKeeps == IInv /\ Examine => IInv'
<1> SUFFICES ASSUME IInv, Examine PROVE IInv' OBVIOUS
<1> USE DEF IInv
<1> DEFINE c == search.candidate
<1>1. /\ in' = in /\ UNCHANGED <<pos, head, prev, pc>>
      /\ search'.candidate = prev[c % WINDOW_SIZE]
    BY DEF Examine
<1>2. /\ pc = "search" /\ c # Nil /\ pos \in Nat /\ WINDOW_SIZE \in Nat \ {0}
      /\ c \in Int /\ pos - c <= WINDOW_SIZE
    BY WindowAssumption DEF Examine, Examinable, Distance, Nil, LTypeOK
<1>3. Hashable(pos) /\ Link(c, pos, hash3(pos)) BY <1>2 DEF SearchInv
<1>4. c \in Nat /\ InWindow(c) /\ Hashable(c) /\ hash3(c) = hash3(pos)
    BY <1>2, <1>3 DEF Link, InWindow
<1>5. Link(prev[c % WINDOW_SIZE], c, hash3(c)) BY <1>4 DEF PrevInv
<1>6. Link(prev[c % WINDOW_SIZE], pos, hash3(pos)) BY <1>2, <1>4, <1>5 DEF Link, InWindow
<1>7. SearchInv' BY <1>1, <1>2, <1>3, <1>6, HashStays DEF SearchInv, Link
<1>8. c % WINDOW_SIZE \in Slots BY <1>2, ModRange DEF Slots
<1>9. LTypeOK' BY <1>1, <1>8 DEF LTypeOK
<1> QED BY <1>1, <1>7, <1>9, LinksStay

\* find_match starts at the head of the chain of its hash.
LEMMA StartSearchKeeps == IInv /\ StartSearch => IInv'
<1> SUFFICES ASSUME IInv, StartSearch PROVE IInv' OBVIOUS
<1> USE DEF IInv
<1>1. in' = in /\ UNCHANGED <<pos, head, prev>> /\ pos \in Nat
    BY DEF StartSearch, LTypeOK
<1>2. CASE Hashable(pos)
  <2>1. search'.candidate = head[hash3(pos)] BY <1>2 DEF StartSearch
  <2>2. hash3(pos) \in HashValues BY <1>1, <1>2, HashType
  <2>3. Link(head[hash3(pos)], pos, hash3(pos)) BY <2>2 DEF HeadInv
  <2>4. SearchInv' BY <1>1, <1>2, <2>1, <2>3, HashStays DEF SearchInv, Link
  <2>5. LTypeOK' BY <1>1, <2>1, <2>2 DEF LTypeOK
  <2> QED BY <1>1, <2>4, <2>5, LinksStay
<1>3. CASE ~Hashable(pos)
  <2>1. search'.candidate = Nil BY <1>3 DEF StartSearch, NoSearch
  <2>2. SearchInv' /\ LTypeOK' BY <1>1, <2>1 DEF SearchInv, LTypeOK, Nil
  <2> QED BY <1>1, <2>2, LinksStay
<1> QED BY <1>2, <1>3

\* The decisions of lz77_parse: each inserts the position and goes on.
LEMMA DecisionKeeps ==
    ASSUME IInv, Insert(pos), in' = in, search' = search, pos' = pos + 1,
           pc' # "search"
    PROVE  IInv'
<1>1. LTypeOK' BY InsertKeeps DEF IInv, LTypeOK
<1>2. SearchInv' BY DEF SearchInv
<1> QED BY <1>1, <1>2, InsertKeeps DEF IInv

\* Every step keeps the invariant.
THEOREM NextKeeps == IInv /\ [ParseNext]_parseVars => IInv'
<1> SUFFICES ASSUME IInv, [ParseNext]_parseVars PROVE IInv' OBVIOUS
<1>1. CASE StartSearch BY <1>1, StartSearchKeeps
<1>2. CASE Examine BY <1>2, ExamineKeeps
<1>3. CASE EmitLiteral BY <1>3, DecisionKeeps DEF EmitLiteral, Advance
<1>4. CASE EmitGreedy BY <1>4, DecisionKeeps DEF EmitGreedy, SkipTo
<1>5. CASE HoldMatch BY <1>5, DecisionKeeps DEF HoldMatch, Advance
<1>6. CASE EmitHeld BY <1>6, DecisionKeeps DEF EmitHeld, SkipTo
<1>7. CASE InsertSkipped
  <2>1. CASE pos < skip BY <1>7, <2>1, DecisionKeeps DEF InsertSkipped
  <2>2. CASE ~(pos < skip)
    <3>1. in' = in /\ UNCHANGED <<pos, head, prev, search>> /\ pc' = "loop"
        BY <1>7, <2>2 DEF InsertSkipped
    <3>2. LTypeOK' /\ SearchInv' BY <3>1 DEF IInv, LTypeOK, SearchInv
    <3> QED BY <3>1, <3>2, LinksStay DEF IInv
  <2> QED BY <2>1, <2>2
<1>8. CASE FinishParse
  <2>1. in' = in /\ UNCHANGED <<pos, head, prev, search>> /\ pc' = "parsed"
      BY <1>8 DEF FinishParse
  <2>2. LTypeOK' /\ SearchInv' BY <2>1 DEF IInv, LTypeOK, SearchInv
  <2> QED BY <2>1, <2>2, LinksStay DEF IInv
<1>9. CASE UNCHANGED parseVars
  <2>1. in' = in /\ UNCHANGED <<pos, head, prev, search, pc>> BY <1>9 DEF parseVars
  <2>2. LTypeOK' BY <2>1 DEF IInv, LTypeOK
  <2>3. SearchInv' BY <2>1, HashStays DEF IInv, LTypeOK, SearchInv, Link
  <2> QED BY <2>1, <2>2, <2>3, LinksStay DEF IInv
<1> QED BY <1>1, <1>2, <1>3, <1>4, <1>5, <1>6, <1>7, <1>8, <1>9 DEF ParseNext

\* lz77_parse starts with empty chains, whatever malloc left in prev.
THEOREM InitHolds == ParseInit("loop") => IInv
<1> SUFFICES ASSUME ParseInit("loop") PROVE IInv OBVIOUS
<1> USE WindowAssumption
<1>1. LTypeOK BY DEF ParseInit, LTypeOK, HashValues, Slots, NoSearch, Nil, Garbage
<1>2. HeadInv BY DEF ParseInit, HeadInv, HashValues, Link
<1>3. PrevInv BY DEF ParseInit, PrevInv, InWindow
<1>4. SearchInv BY DEF ParseInit, SearchInv
<1> QED BY <1>1, <1>2, <1>3, <1>4 DEF IInv

\* Every candidate find_match is handed is an earlier position with the hash it
\* searches for (deflate.c:69, :86, :101), for every window and every hash.
THEOREM ChainsAreFresh == ParseSpec => []CandidatesAreFresh
<1>1. IInv => CandidatesAreFresh
    BY DEF IInv, LTypeOK, SearchInv, CandidatesAreFresh, Link
<1> QED BY <1>1, InitHolds, NextKeeps, PTL DEF ParseSpec

=============================================================================
