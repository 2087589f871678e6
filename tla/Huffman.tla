------------------------------ MODULE Huffman ------------------------------
(***************************************************************************)
(* The canonical Huffman codes of C-Deflate (huffman.c) and its two bit    *)
(* orders (bits.c), as operators.  A bit string is a sequence of 0 and 1   *)
(* in the order of the stream.  A code over an alphabet 0..n-1 is the      *)
(* function of its lengths, 0 for an unused symbol; a tree of build_once   *)
(* is kept as the depths of its leaves, which is all that is read of it.   *)
(***************************************************************************)
EXTENDS Integers, Sequences, SequencesExt, FiniteSetsExt

CONSTANTS MAX_CODE_BITS     \* the longest code of any alphabet

(* bw_bits: a field goes out least significant bit first, masked to its width. *)
bw_bits(value, count) == [i \in 1 .. count |-> (value \div 2^(i - 1)) % 2]

\* Mutant: a code is written in the order of every other field.
bw_code_lsb(code, count) == bw_bits(code, count)

(* bw_code: a code goes out most significant bit first. *)
bw_code(code, count) == Reverse(bw_bits(code, count))

(* br_bits: the field of the given width after position at.  Past the end the
   reader feeds zeros; that it did so shows in the position. *)
BitAt(stream, i) == IF i <= Len(stream) THEN stream[i] ELSE 0
br_bits(stream, at, count) ==
    MapThenSumSet(LAMBDA i : BitAt(stream, at + i) * 2^(i - 1), 1 .. count)

(* The elements of S in the strict order Before. *)
Ordered(S, Before(_, _)) ==
    [i \in 1 .. Cardinality(S) |->
        CHOOSE x \in S : Cardinality({y \in S : Before(y, x)}) = i - 1]

-----------------------------------------------------------------------------
(* build_once *)

Used(freqs) == {s \in DOMAIN freqs : freqs[s] > 0}

(* Leaves are created in symbol order: leaf i is the i-th used symbol. *)
LeafSymbols(freqs) == Ordered(Used(freqs), LAMBDA s, t : s < t)
Leaves(freqs) ==
    [i \in 1 .. Cardinality(Used(freqs)) |->
        [freq |-> freqs[LeafSymbols(freqs)[i]], depths |-> {<<i, 0>>}]]

(* The selection loops: the first of the least frequent trees is taken out,
   and the last one moves to its place. *)
Least(heap) ==
    CHOOSE a \in DOMAIN heap :
        /\ \A i \in DOMAIN heap : heap[a].freq <= heap[i].freq
        /\ \A i \in 1 .. a - 1 : heap[a].freq < heap[i].freq
TakeOut(heap, a) ==
    [i \in 1 .. Len(heap) - 1 |-> heap[IF i = a THEN Len(heap) ELSE i]]

Join(t, u) ==
    [freq |-> t.freq + u.freq,
     depths |-> {<<p[1], p[2] + 1>> : p \in t.depths \cup u.depths}]

RECURSIVE MergeAll(_)
MergeAll(heap) ==
    IF Len(heap) = 1 THEN heap[1]
    ELSE LET a == Least(heap)
             rest == TakeOut(heap, a)
             b == Least(rest)
         IN MergeAll(Append(TakeOut(rest, b), Join(heap[a], rest[b])))

ByLeaf(depths) ==
    [l \in 1 .. Cardinality(depths) |-> (CHOOSE p \in depths : p[1] = l)[2]]

(* The lengths by leaf.  When a single symbol is used its 1 is stored at the
   symbol's own index (line 45), not at leaf 1, the only one the caller reads:
   the symbol keeps a length only if it is symbol 0. *)
build_once(freqs) ==
    CASE Used(freqs) = {} -> <<>>
      [] Cardinality(Used(freqs)) = 1 -> <<IF freqs[0] > 0 THEN 1 ELSE 0>>
      [] OTHER -> ByLeaf(MergeAll(Leaves(freqs)).depths)

(* huff_build_lengths: frequencies are halved, rounding up, until the longest
   code fits the limit; then the leaves are mapped back to symbols. *)
LongestCode(leafLen) == Max({0} \cup {leafLen[l] : l \in DOMAIN leafLen})

RECURSIVE Scaled(_, _)
Scaled(freqs, limit) ==
    IF LongestCode(build_once(freqs)) <= limit THEN freqs
    ELSE Scaled([s \in DOMAIN freqs |-> (freqs[s] + 1) \div 2], limit)

OnSymbols(leafSymbols, leafLen, symbols) ==
    [s \in symbols |->
        IF \E l \in DOMAIN leafSymbols : leafSymbols[l] = s
        THEN leafLen[CHOOSE l \in DOMAIN leafSymbols : leafSymbols[l] = s]
        ELSE 0]

huff_build_lengths(freqs, limit) ==
    OnSymbols(LeafSymbols(freqs), build_once(Scaled(freqs, limit)), DOMAIN freqs)

-----------------------------------------------------------------------------
(* huff_assign_codes: codes of one length are consecutive, in symbol order. *)

Count(lengths, bits) == Cardinality({s \in DOMAIN lengths : lengths[s] = bits})

NextCode(lengths) ==
    LET next[b \in 1 .. MAX_CODE_BITS] ==
            IF b = 1 THEN 0 ELSE 2 * (next[b - 1] + Count(lengths, b - 1))
    IN next

huff_assign_codes(lengths) ==
    [s \in DOMAIN lengths |->
        IF lengths[s] = 0 THEN 0
        ELSE NextCode(lengths)[lengths[s]]
             + Cardinality({t \in DOMAIN lengths : t < s /\ lengths[t] = lengths[s]})]

(* The bits of a symbol; none when it has no code. *)
CodeBits(lengths, s) == bw_code(huff_assign_codes(lengths)[s], lengths[s])

(* huff_build_decoder: the counts per length and the symbols by length, unless
   a length is out of range or the lengths claim more codes than there are. *)
NotACode == [counts |-> <<>>, symbols |-> <<>>]

OverSubscribed(lengths) ==
    LET left[b \in 0 .. MAX_CODE_BITS] ==
            IF b = 0 THEN 1 ELSE 2 * left[b - 1] - Count(lengths, b)
    IN \E b \in 1 .. MAX_CODE_BITS : left[b] < 0
TooLong(lengths) == \E s \in DOMAIN lengths : lengths[s] > MAX_CODE_BITS

huff_build_decoder(lengths) ==
    IF TooLong(lengths) \/ OverSubscribed(lengths) THEN NotACode
    ELSE [counts |-> [b \in 1 .. MAX_CODE_BITS |-> Count(lengths, b)],
          symbols |-> Ordered({s \in DOMAIN lengths : lengths[s] > 0},
                        LAMBDA s, t : \/ lengths[s] < lengths[t]
                                      \/ lengths[s] = lengths[t] /\ s < t)]

(* huff_decode: one bit per round, until the code read falls among those of its
   length; no symbol is returned after MAX_CODE_BITS bits. *)
NoSymbol == -1

RECURSIVE Walk(_, _, _, _, _, _, _)
Walk(d, stream, at, len, code, first, index) ==
    IF len > MAX_CODE_BITS THEN [sym |-> NoSymbol, pos |-> at]
    ELSE LET c == code + BitAt(stream, at + 1)
             count == d.counts[len]
         IN IF c - first < count
            THEN [sym |-> d.symbols[index + (c - first) + 1], pos |-> at + 1]
            ELSE Walk(d, stream, at + 1, len + 1, 2 * c, 2 * (first + count),
                      index + count)

huff_decode(d, stream, at) == Walk(d, stream, at, 1, 0, 0, 0)

=============================================================================
