-------------------------------- MODULE LZ77 --------------------------------
(***************************************************************************)
(* The matcher of C-Deflate (deflate.c, lz77_parse and find_match): the    *)
(* input becomes a sequence of tokens, literals and (length, distance)     *)
(* matches, found through hash chains kept in two arrays.  head[h] is the  *)
(* latest position of hash h; prev has one slot per position modulo        *)
(* WINDOW_SIZE, so a slot is reused when its position leaves the window.   *)
(*                                                                         *)
(* One step is one round of a loop of the code: a candidate of find_match, *)
(* the decision lz77_parse takes at a position, the insertion of one       *)
(* position covered by a match.  Positions count from 0 as in the code.    *)
(***************************************************************************)
EXTENDS Integers, Sequences

CONSTANTS
    Bytes,          \* the byte values of the inputs
    Inputs,         \* the inputs to compress
    Levels,         \* rows of LEVELS: [good_length, max_chain, lazy]
    Hash,           \* hash3 as a function of three bytes; collisions allowed
    WINDOW_SIZE, MIN_MATCH, MAX_MATCH

ASSUME LevelAssumption ==
    \A l \in Levels : /\ l.good_length \in Nat /\ l.max_chain \in Nat
                      /\ l.lazy \in BOOLEAN

ASSUME WindowAssumption ==
    /\ Inputs \subseteq Seq(Bytes)
    /\ WINDOW_SIZE \in Nat \ {0}
    /\ MIN_MATCH \in Nat /\ MAX_MATCH \in Nat
    /\ 3 <= MIN_MATCH /\ MIN_MATCH <= MAX_MATCH      \* hash3 reads three bytes
    /\ Hash \in [Bytes \X Bytes \X Bytes -> Nat]

VARIABLES
    in, cfg,        \* the arguments of lz77_parse
    pc,             \* "loop", "search", "skip" in lz77_parse, then "parsed"
    pos,            \* position in the input
    head, prev,     \* the hash chains
    search,         \* locals of find_match
    held,           \* have_prev, prev_len, prev_dist, prev_pos (len 0: none)
    skip,           \* end of the match whose positions are being inserted
    tokens

parseVars == <<in, cfg, pc, pos, head, prev, search, held, skip, tokens>>

Nil == -1           \* end of a chain
Garbage == -2       \* what malloc left in a slot of prev

Literal(b) == [length |-> 0, distance |-> 0, literal |-> b]
Match(l, d) == [length |-> l, distance |-> d, literal |-> 0]
NoMatch == [len |-> 0, dist |-> 0, pos |-> 0]
NoSearch == [candidate |-> Nil, chain |-> 0, len |-> 0, dist |-> 0]

At(i) == in[i + 1]
hash3(i) == Hash[At(i), At(i + 1), At(i + 2)]
Hashable(i) == i + MIN_MATCH <= Len(in)

(* head and prev are allocated per call; only head is initialised. *)
ParseInit(first) ==
    /\ in \in Inputs
    /\ cfg \in Levels
    /\ pc = first
    /\ pos = 0
    /\ head = [h \in {Hash[t] : t \in DOMAIN Hash} |-> Nil]
    /\ prev = [s \in 0 .. WINDOW_SIZE - 1 |-> Garbage]
    /\ search = NoSearch
    /\ held = NoMatch
    /\ skip = 0
    /\ tokens = <<>>

-----------------------------------------------------------------------------
(* find_match *)

Distance == pos - search.candidate
MaxLen == IF Len(in) - pos > MAX_MATCH THEN MAX_MATCH ELSE Len(in) - pos

(* The length of the common run at pos and at the candidate. *)
RunLength ==
    CHOOSE l \in 0 .. MaxLen :
        /\ \A k \in 0 .. l - 1 : At(pos + k) = At(search.candidate + k)
        /\ l < MaxLen => At(pos + l) # At(search.candidate + l)

\* Mutant: the window is taken to be one position longer.
ExaminableTooFar ==
    /\ search.candidate >= 0 /\ search.chain > 0 /\ search.len < MaxLen
    /\ Distance \in 1 .. WINDOW_SIZE + 1

(* The loop goes on to the candidate: the chain has not ended, neither the
   budget nor the window is exhausted, and a longer match is possible. *)
Examinable ==
    /\ search.candidate >= 0
    /\ search.chain > 0
    /\ search.len < MaxLen
    /\ Distance \in 1 .. WINDOW_SIZE

StartSearch ==
    /\ pc = "loop"
    /\ pos < Len(in)
    /\ pc' = "search"
    /\ search' = IF Hashable(pos)
                 THEN [candidate |-> head[hash3(pos)], chain |-> cfg.max_chain,
                       len |-> 0, dist |-> 0]
                 ELSE NoSearch
    /\ UNCHANGED <<in, cfg, pos, head, prev, held, skip, tokens>>

Examine ==
    /\ pc = "search"
    /\ Examinable
    /\ LET next == prev[search.candidate % WINDOW_SIZE]
           budget == search.chain - 1
           hopeless == /\ search.len > 0
                       /\ At(pos + search.len) # At(search.candidate + search.len)
       IN search' =
            IF ~hopeless /\ RunLength > search.len
            THEN [candidate |-> next,
                  chain |-> IF RunLength >= cfg.good_length
                            THEN budget \div 4 ELSE budget,
                  len |-> RunLength,
                  dist |-> Distance]
            ELSE [search EXCEPT !.candidate = next, !.chain = budget]
    /\ UNCHANGED <<in, cfg, pc, pos, head, prev, held, skip, tokens>>

Found == IF search.len >= MIN_MATCH THEN search.len ELSE 0

-----------------------------------------------------------------------------
(* lz77_parse *)

(* The insertion of position i in its chain; the last positions of the input
   start no match and are not inserted. *)
Insert(i) ==
    IF Hashable(i)
    THEN /\ prev' = [prev EXCEPT ![i % WINDOW_SIZE] = head[hash3(i)]]
         /\ head' = [head EXCEPT ![hash3(i)] = i]
    ELSE UNCHANGED <<head, prev>>

Advance == pc' = "loop" /\ pos' = pos + 1 /\ UNCHANGED skip
SkipTo(end) == pc' = "skip" /\ pos' = pos + 1 /\ skip' = end

Searched == pc = "search" /\ ~Examinable

EmitLiteral ==
    /\ Searched
    /\ Found = 0
    /\ held.len = 0
    /\ Insert(pos)
    /\ tokens' = Append(tokens, Literal(At(pos)))
    /\ Advance
    /\ UNCHANGED <<in, cfg, search, held>>

EmitGreedy ==
    /\ Searched
    /\ Found > 0
    /\ ~cfg.lazy
    /\ Insert(pos)
    /\ tokens' = Append(tokens, Match(search.len, search.dist))
    /\ SkipTo(pos + search.len)
    /\ UNCHANGED <<in, cfg, search, held>>

(* A lazy level holds a match back, to see whether the next byte starts a
   longer one; if it does, the byte held is a literal after all. *)
HoldMatch ==
    /\ Searched
    /\ cfg.lazy
    /\ Found > held.len
    /\ Insert(pos)
    /\ tokens' = IF held.len > 0 THEN Append(tokens, Literal(At(held.pos)))
                                 ELSE tokens
    /\ held' = [len |-> search.len, dist |-> search.dist, pos |-> pos]
    /\ Advance
    /\ UNCHANGED <<in, cfg, search>>

\* Mutant: the held match is taken to start where the search was, not before.
EmitHeldHere ==
    /\ Searched /\ cfg.lazy /\ held.len > 0 /\ Found <= held.len
    /\ Insert(pos)
    /\ tokens' = Append(tokens, Match(held.len, held.dist))
    /\ SkipTo(pos + held.len)
    /\ held' = NoMatch
    /\ UNCHANGED <<in, cfg, search>>

EmitHeld ==
    /\ Searched
    /\ cfg.lazy
    /\ held.len > 0
    /\ Found <= held.len
    /\ Insert(pos)
    /\ tokens' = Append(tokens, Match(held.len, held.dist))
    /\ SkipTo(held.pos + held.len)
    /\ held' = NoMatch
    /\ UNCHANGED <<in, cfg, search>>

(* The loops that insert the positions a match covers. *)
InsertSkipped ==
    /\ pc = "skip"
    /\ IF pos < skip
       THEN Insert(pos) /\ pos' = pos + 1 /\ UNCHANGED pc
       ELSE pc' = "loop" /\ UNCHANGED <<pos, head, prev>>
    /\ UNCHANGED <<in, cfg, search, held, skip, tokens>>

FinishParse ==
    /\ pc = "loop"
    /\ pos >= Len(in)
    /\ pc' = "parsed"
    /\ tokens' = IF held.len > 0 THEN Append(tokens, Match(held.len, held.dist))
                                 ELSE tokens
    /\ UNCHANGED <<in, cfg, pos, head, prev, search, held, skip>>

ParseNext ==
    \/ StartSearch \/ Examine
    \/ EmitLiteral \/ EmitGreedy \/ HoldMatch \/ EmitHeld
    \/ InsertSkipped \/ FinishParse

ParseSpec == ParseInit("loop") /\ [][ParseNext]_parseVars

-----------------------------------------------------------------------------
(* A chain never runs into a slot of prev that was reused or never written:
   whatever the window has overwritten meanwhile, every candidate find_match
   is handed is an earlier position with the hash it searches for. *)
CandidatesAreFresh ==
    pc = "search" /\ search.candidate # Nil =>
        /\ search.candidate \in 0 .. pos - 1
        /\ hash3(search.candidate) = hash3(pos)

=============================================================================
