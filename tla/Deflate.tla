------------------------------ MODULE Deflate ------------------------------
(***************************************************************************)
(* The DEFLATE codec of C-Deflate: deflate_compress over the tokens of     *)
(* LZ77 (the three block types, measured and emitted), a stream that       *)
(* arrives whole, cut short or damaged, and deflate_decompress reading it  *)
(* back block by block and symbol by symbol.                               *)
(*                                                                         *)
(* The alphabets and field widths of RFC 1951 are constants, so that the   *)
(* whole codec fits inputs TLC can enumerate.  A byte is BYTE_BITS bits of *)
(* the stream; literals are 0..END_OF_BLOCK-1 and length codes follow      *)
(* END_OF_BLOCK.                                                           *)
(***************************************************************************)
EXTENDS LZ77, Huffman

CONSTANTS
    BYTE_BITS,                      \* 8
    LEN_BITS,                       \* 16: LEN and NLEN of a stored block
    END_OF_BLOCK,                   \* 256
    LENGTH_BASE, LENGTH_EXTRA,      \* tables of length codes, from index 1
    DIST_BASE, DIST_EXTRA,          \* tables of distance codes, from index 1
    FIXED_LIT, FIXED_DIST,          \* lengths of the fixed codes
    MAX_CL_BITS,                    \* 7
    REPEAT,                         \* symbols 16, 17, 18: [sym, base, bits]
    CODELEN_ORDER,
    HLIT_BITS, HDIST_BITS, HCLEN_BITS, CL_BITS,   \* 5, 5, 4, 3
    DamagedUpTo     \* streams of inputs up to this length may be damaged

VARIABLES
    kind,           \* the block type chosen
    estimate,       \* the bits it was chosen for
    sent,           \* the stream deflate_compress wrote, bit by bit
    fault,          \* what happened to it on the way
    stream,         \* the stream deflate_decompress reads
    out_cap,        \* the capacity of its output buffer
    at,             \* bits consumed by the reader
    final,          \* BFINAL of the block being read
    tables,         \* the decoders lit and dist
    out,            \* the output written
    result          \* the return value: "OK" or an error

codecVars == <<kind, estimate, sent>>
readVars == <<at, final, tables, out, result>>
linkVars == <<fault, stream, out_cap>>
vars == <<parseVars, codecVars, linkVars, readVars>>

NUM_LENGTHS == Len(LENGTH_BASE)
NUM_LITERALS == END_OF_BLOCK + 1 + NUM_LENGTHS
NUM_DISTANCES == Len(DIST_BASE)
NUM_CODELEN == Len(CODELEN_ORDER)
CHUNK == 2^LEN_BITS - 1         \* 65535

ASSUME CodecAssumption ==
    /\ Bytes = 0 .. END_OF_BLOCK - 1 /\ END_OF_BLOCK <= 2^BYTE_BITS
    /\ LEN_BITS % BYTE_BITS = 0
    /\ NUM_LITERALS <= 2^MAX_CODE_BITS /\ NUM_DISTANCES <= 2^MAX_CODE_BITS
    /\ NUM_CODELEN <= 2^MAX_CL_BITS /\ MAX_CL_BITS < 2^CL_BITS
    /\ NUM_LENGTHS <= 2^HLIT_BITS /\ NUM_DISTANCES <= 2^HDIST_BITS
    /\ NUM_CODELEN - 4 < 2^HCLEN_BITS

Init ==
    /\ ParseInit("start")
    /\ kind = "none" /\ estimate = 0 /\ sent = <<>>
    /\ fault = "none" /\ stream = <<>> /\ out_cap = 0
    /\ at = 0 /\ final = FALSE /\ tables = <<NotACode, NotACode>>
    /\ out = <<>> /\ result = "none"

-----------------------------------------------------------------------------
(* Symbols of a token, and the frequencies *)

(* The last entry of a table whose base does not exceed the value. *)
CodeOf(base, value) == Max({0} \cup {i - 1 : i \in {j \in DOMAIN base : base[j] <= value}})
length_to_code(length) == CodeOf(LENGTH_BASE, length)
distance_to_code(distance) == CodeOf(DIST_BASE, distance)

IsLiteral(t) == t.length = 0
LitSymbol(t) ==
    IF IsLiteral(t) THEN t.literal ELSE END_OF_BLOCK + 1 + length_to_code(t.length)

lit_freq ==
    [s \in 0 .. NUM_LITERALS - 1 |->
        Cardinality({i \in DOMAIN tokens : LitSymbol(tokens[i]) = s})
        + IF s = END_OF_BLOCK THEN 1 ELSE 0]
dist_freq ==
    [s \in 0 .. NUM_DISTANCES - 1 |->
        Cardinality({i \in DOMAIN tokens : /\ ~IsLiteral(tokens[i])
                                            /\ distance_to_code(tokens[i].distance) = s})]

(* The bits of a token that its two codes do not account for. *)
ExtraBits(t) ==
    LENGTH_EXTRA[length_to_code(t.length) + 1] + DIST_EXTRA[distance_to_code(t.distance) + 1]

\* Mutant: the extra bits of a match are not measured.
token_bits_codes(litLen, distLen) ==
    MapThenSumSet(
        LAMBDA i : litLen[LitSymbol(tokens[i])]
                   + IF IsLiteral(tokens[i]) THEN 0
                     ELSE distLen[distance_to_code(tokens[i].distance)],
        DOMAIN tokens) + litLen[END_OF_BLOCK]

token_bits(litLen, distLen) ==
    MapThenSumSet(
        LAMBDA i : litLen[LitSymbol(tokens[i])]
                   + IF IsLiteral(tokens[i]) THEN 0
                     ELSE distLen[distance_to_code(tokens[i].distance)]
                          + ExtraBits(tokens[i]),
        DOMAIN tokens) + litLen[END_OF_BLOCK]

-----------------------------------------------------------------------------
(* The header of a dynamic block *)

(* Zero-length runs use the two zero repeats, the longer one first; a run of
   another length is written once and repeated by the first repeat. *)
Times(n, sym) == [i \in 1 .. n |-> [sym |-> sym, extra |-> 0]]
MaxTake(r, run) == Min({run, r.base + 2^r.bits - 1})

RECURSIVE PackRun(_, _, _)
PackRun(run, sym, repeats) ==
    LET usable == SelectSeq(repeats, LAMBDA r : r.base <= run) IN
    IF usable = <<>> THEN Times(run, sym)
    ELSE LET r == usable[1]
         IN <<[sym |-> r.sym, extra |-> MaxTake(r, run) - r.base]>>
            \o PackRun(run - MaxTake(r, run), sym, repeats)

RunAt(s) == Max({n \in 1 .. Len(s) : \A i \in 1 .. n : s[i] = s[1]})

RECURSIVE pack_code_lengths(_)
pack_code_lengths(s) ==
    IF s = <<>> THEN <<>>
    ELSE (IF s[1] = 0
          THEN PackRun(RunAt(s), 0, <<REPEAT.zeros, REPEAT.fewzeros>>)
          ELSE Times(1, s[1]) \o PackRun(RunAt(s) - 1, s[1], <<REPEAT.prev>>))
         \o pack_code_lengths(SubSeq(s, RunAt(s) + 1, Len(s)))

RepeatBits(sym) ==
    IF \E r \in Range(REPEAT) : r.sym = sym
    THEN (CHOOSE r \in Range(REPEAT) : r.sym = sym).bits ELSE 0

(* hlit, hdist, hclen: trailing zeros are not sent, down to a minimum. *)
Trimmed(least, s) ==
    Min({n \in least .. Len(s) : \A i \in n + 1 .. Len(s) : s[i] = 0})

AsSeq(lengths, n) == [i \in 1 .. n |-> lengths[i - 1]]

(* An unused distance alphabet still gets one code, of one bit. *)
AtLeastOne(lengths) ==
    IF \A s \in DOMAIN lengths : lengths[s] = 0 THEN [lengths EXCEPT ![0] = 1] ELSE lengths

(* What deflate_compress computes for a dynamic block, stage by stage. *)
Packed(litLen, distLen) ==
    LET hlit == Trimmed(END_OF_BLOCK + 1, AsSeq(litLen, NUM_LITERALS))
        hdist == Trimmed(1, AsSeq(distLen, NUM_DISTANCES))
    IN [litLen |-> litLen, distLen |-> distLen, hlit |-> hlit, hdist |-> hdist,
        cl |-> pack_code_lengths(AsSeq(litLen, hlit) \o AsSeq(distLen, hdist))]

WithClCode(p) ==
    LET cl_freq == [s \in 0 .. NUM_CODELEN - 1 |->
                        Cardinality({i \in DOMAIN p.cl : p.cl[i].sym = s})]
    IN [plan |-> p, clLen |-> huff_build_lengths(cl_freq, MAX_CL_BITS)]

Dynamic ==
    WithClCode(Packed(huff_build_lengths(lit_freq, MAX_CODE_BITS),
                      AtLeastOne(huff_build_lengths(dist_freq, MAX_CODE_BITS))))

hclen(d) == Trimmed(4, [i \in 1 .. NUM_CODELEN |-> d.clLen[CODELEN_ORDER[i]]])

header_bits(d) ==
    3 + HLIT_BITS + HDIST_BITS + HCLEN_BITS + hclen(d) * CL_BITS
      + MapThenSumSet(LAMBDA i : d.clLen[d.plan.cl[i].sym] + RepeatBits(d.plan.cl[i].sym),
                      DOMAIN d.plan.cl)

-----------------------------------------------------------------------------
(* Emitting *)

Bits(seqs) == FlattenSeq(seqs)

emit_token(t, litLen, distLen) ==
    LET lc == length_to_code(t.length)
        dc == distance_to_code(t.distance)
    IN IF IsLiteral(t) THEN CodeBits(litLen, t.literal)
       ELSE Bits(<<CodeBits(litLen, LitSymbol(t)),
                   bw_bits(t.length - LENGTH_BASE[lc + 1], LENGTH_EXTRA[lc + 1]),
                   CodeBits(distLen, dc),
                   bw_bits(t.distance - DIST_BASE[dc + 1], DIST_EXTRA[dc + 1])>>)

emit_tokens(litLen, distLen) ==
    Bits([i \in DOMAIN tokens |-> emit_token(tokens[i], litLen, distLen)])
        \o CodeBits(litLen, END_OF_BLOCK)

emit_header(d) ==
    Bits(<<bw_bits(1, 1), bw_bits(2, 2),
           bw_bits(d.plan.hlit - END_OF_BLOCK - 1, HLIT_BITS),
           bw_bits(d.plan.hdist - 1, HDIST_BITS),
           bw_bits(hclen(d) - 4, HCLEN_BITS),
           Bits([i \in 1 .. hclen(d) |-> bw_bits(d.clLen[CODELEN_ORDER[i]], CL_BITS)]),
           Bits([i \in DOMAIN d.plan.cl |->
                    CodeBits(d.clLen, d.plan.cl[i].sym)
                    \o bw_bits(d.plan.cl[i].extra, RepeatBits(d.plan.cl[i].sym))])>>)

(* bw_align: zeros up to the next byte. *)
ByteRest(n) == (-n) % BYTE_BITS
ByteEnd(n) == n + ByteRest(n)
bw_align(w) == w \o [i \in 1 .. ByteRest(Len(w)) |-> 0]

emit_stored(w, bytes, last) ==
    Bits(<<bw_align(w \o bw_bits(IF last THEN 1 ELSE 0, 1) \o bw_bits(0, 2)),
           bw_bits(Len(bytes), LEN_BITS),
           bw_bits(CHUNK - Len(bytes), LEN_BITS),
           Bits([i \in DOMAIN bytes |-> bw_bits(bytes[i], BYTE_BITS)])>>)

(* The loop over chunks of at most CHUNK bytes; an empty input is one block. *)
RECURSIVE StoreFrom(_, _)
StoreFrom(w, p) ==
    LET chunk == Min({CHUNK, Len(in) - p})
        next == emit_stored(w, SubSeq(in, p + 1, p + chunk), p + chunk >= Len(in))
    IN IF p + chunk >= Len(in) THEN next ELSE StoreFrom(next, p + chunk)

deflate_bound(len) ==
    len + (len \div CHUNK + 1) * (1 + 2 * (LEN_BITS \div BYTE_BITS)) + 8

-----------------------------------------------------------------------------
(* deflate_compress.  The output buffer has deflate_bound bytes. *)

Emit(type, cost, bits) ==
    /\ kind' = type
    /\ estimate' = cost
    /\ sent' = bw_align(bits)
    /\ pc' = "sent"
    /\ UNCHANGED <<in, cfg, pos, head, prev, search, held, skip, tokens, linkVars, readVars>>

IsStoreLevel == cfg.max_chain = 0
StoreOnly == in = <<>> \/ IsStoreLevel

CompressStored ==
    /\ pc = "start"
    /\ StoreOnly
    /\ Emit("stored", 0, StoreFrom(<<>>, 0))

BeginParse ==
    /\ pc = "start"
    /\ ~StoreOnly
    /\ pc' = "loop"
    /\ UNCHANGED <<in, cfg, pos, head, prev, search, held, skip, tokens,
                   codecVars, linkVars, readVars>>

Parse == ParseNext /\ UNCHANGED <<codecVars, linkVars, readVars>>

stored_bits == 3 + 2 * LEN_BITS + Len(in) * BYTE_BITS
fixed_bits == 3 + token_bits(FIXED_LIT, FIXED_DIST)
dynamic_bits(d) == header_bits(d) + token_bits(d.plan.litLen, d.plan.distLen)

CompressBlock ==
    /\ pc = "parsed"
    /\ \E d \in {Dynamic} : \E cost \in {dynamic_bits(d)} :
        \/ /\ stored_bits <= fixed_bits /\ stored_bits <= cost
           /\ Emit("stored", stored_bits, StoreFrom(<<>>, 0))
        \/ /\ fixed_bits < stored_bits /\ fixed_bits <= cost
           /\ Emit("fixed", fixed_bits,
                   Bits(<<bw_bits(1, 1), bw_bits(1, 2), emit_tokens(FIXED_LIT, FIXED_DIST)>>))
        \/ /\ cost < fixed_bits /\ cost < stored_bits
           /\ Emit("dynamic", cost,
                   emit_header(d) \o emit_tokens(d.plan.litLen, d.plan.distLen))

-----------------------------------------------------------------------------
(* The stream on its way, and the buffer it is read into *)

Receive(what, bits, cap) ==
    /\ pc = "sent"
    /\ fault' = what
    /\ stream' = bits
    /\ out_cap' = cap
    /\ pc' = "block"
    /\ UNCHANGED <<in, cfg, pos, head, prev, search, held, skip, tokens, codecVars, readVars>>

Arrive == Receive("none", sent, Len(in))

CutShort ==
    \E n \in 0 .. Len(sent) \div BYTE_BITS - 1 :
        Receive("cut", SubSeq(sent, 1, n * BYTE_BITS), Len(in))

SmallBuffer == in # <<>> /\ Receive("small", sent, Len(in) - 1)

Damage ==
    /\ Len(in) <= DamagedUpTo
    /\ \E i \in DOMAIN sent : Receive("damaged", [sent EXCEPT ![i] = 1 - @], Len(in))

-----------------------------------------------------------------------------
(* deflate_decompress *)

\* Mutant: the reader feeds zeros and does not latch that it did.
UnderflowForgotten(p) == FALSE

(* The latch of br_bits: once set it stays, as the position only grows. *)
Underflow(p) == p > Len(stream)

Return(r) ==
    /\ result' = r
    /\ pc' = "done"
    /\ UNCHANGED <<in, cfg, pos, head, prev, search, held, skip, tokens, codecVars,
                   linkVars, at, final, tables, out>>

Continue(where, p, f, t, o) ==
    /\ pc' = where
    /\ at' = p
    /\ final' = f
    /\ tables' = t
    /\ out' = o
    /\ UNCHANGED <<in, cfg, pos, head, prev, search, held, skip, tokens, codecVars,
                   linkVars, result>>

AtBlock == pc = "block" /\ ~final
BFINAL == br_bits(stream, at, 1) = 1
BTYPE == br_bits(stream, at + 1, 2)

Finish == pc = "block" /\ final /\ Return("OK")

BadBlock ==
    /\ AtBlock
    /\ IF Underflow(at + 3) THEN Return("INPUT") ELSE BTYPE = 3 /\ Return("CORRUPT")

StoredBlock ==
    /\ AtBlock
    /\ ~Underflow(at + 3)
    /\ BTYPE = 0
    /\ \E start \in {ByteEnd(at + 3)} : \E body \in {start + 2 * LEN_BITS} :
       \E len \in {br_bits(stream, start, LEN_BITS)} :
         LET nlen == br_bits(stream, start + LEN_BITS, LEN_BITS)
             bytes == [i \in 1 .. len |->
                         br_bits(stream, body + (i - 1) * BYTE_BITS, BYTE_BITS)]
         IN IF Underflow(body) THEN Return("INPUT")
            ELSE IF len # CHUNK - nlen THEN Return("CORRUPT")
            ELSE IF Len(out) + len > out_cap THEN Return("OUTPUT")
            ELSE IF Underflow(body + len * BYTE_BITS) THEN Return("INPUT")
            ELSE Continue("block", body + len * BYTE_BITS, BFINAL, tables, out \o bytes)

FixedBlock ==
    /\ AtBlock
    /\ ~Underflow(at + 3)
    /\ BTYPE = 1
    /\ Continue("symbol", at + 3, BFINAL,
                <<huff_build_decoder(FIXED_LIT), huff_build_decoder(FIXED_DIST)>>, out)

(* read_dynamic_header: the lengths are read until there are enough, a repeat
   that goes beyond is cut off. *)
Failed(e) == [err |-> e, pos |-> 0, lengths |-> <<>>]

RECURSIVE ReadLengths(_, _, _, _)
ReadLengths(dec, p, need, lengths) ==
    IF Len(lengths) >= need THEN [err |-> "OK", pos |-> p, lengths |-> lengths]
    ELSE LET s == huff_decode(dec, stream, p)
             r == CHOOSE x \in Range(REPEAT) : x.sym = s.sym
             wanted == r.base + br_bits(stream, s.pos, r.bits)
             value == IF r = REPEAT.prev THEN Last(lengths) ELSE 0
             more == [i \in 1 .. Min({wanted, need - Len(lengths)}) |-> value]
         IN CASE s.sym = NoSymbol -> Failed("CORRUPT")
              [] s.sym = REPEAT.prev.sym /\ lengths = <<>> -> Failed("CORRUPT")
              [] s.sym <= MAX_CODE_BITS /\ s.sym # NoSymbol ->
                   IF Underflow(s.pos) THEN Failed("INPUT")
                   ELSE ReadLengths(dec, s.pos, need, Append(lengths, s.sym))
              [] OTHER ->
                   IF Underflow(s.pos + r.bits) THEN Failed("INPUT")
                   ELSE ReadLengths(dec, s.pos + r.bits, need, lengths \o more)

FromSeq(s, from, n) == [i \in 0 .. n - 1 |-> s[from + i + 1]]

DynamicBlock ==
    /\ AtBlock
    /\ ~Underflow(at + 3)
    /\ BTYPE = 2
    /\ \E p \in {at + 3 + HLIT_BITS + HDIST_BITS + HCLEN_BITS} :
       \E hl \in {br_bits(stream, at + 3, HLIT_BITS) + END_OF_BLOCK + 1} :
       \E hd \in {br_bits(stream, at + 3 + HLIT_BITS, HDIST_BITS) + 1} :
       \E hc \in {br_bits(stream, p - HCLEN_BITS, HCLEN_BITS) + 4} :
         IF hl > NUM_LITERALS \/ hd > NUM_DISTANCES THEN Return("CORRUPT")
         ELSE \E dec \in {huff_build_decoder(
                            [s \in 0 .. NUM_CODELEN - 1 |->
                               LET i == CHOOSE j \in DOMAIN CODELEN_ORDER : CODELEN_ORDER[j] = s
                               IN IF i <= hc THEN br_bits(stream, p + (i - 1) * CL_BITS, CL_BITS)
                                  ELSE 0])} :
              IF dec = NotACode THEN Return("CORRUPT")
              ELSE \E h \in {ReadLengths(dec, p + hc * CL_BITS, hl + hd, <<>>)} :
                   IF h.err # "OK" THEN Return(h.err)
                   ELSE \E t \in {<<huff_build_decoder(FromSeq(h.lengths, 0, hl)),
                                    huff_build_decoder(FromSeq(h.lengths, hl, hd))>>} :
                        IF NotACode \in Range(t) THEN Return("CORRUPT")
                        ELSE Continue("symbol", h.pos, BFINAL, t, out)

-----------------------------------------------------------------------------
(* The loop over the symbols of a block *)

Symbol == huff_decode(tables[1], stream, at)

BadSymbol ==
    /\ pc = "symbol"
    /\ \E s \in {Symbol} :
        IF s.sym = NoSymbol THEN Return("CORRUPT") ELSE Underflow(s.pos) /\ Return("INPUT")

GoodSymbol(s) == s.sym # NoSymbol /\ ~Underflow(s.pos)

EndBlock ==
    /\ pc = "symbol"
    /\ \E s \in {Symbol} :
        /\ GoodSymbol(s)
        /\ s.sym = END_OF_BLOCK
        /\ Continue("block", s.pos, final, tables, out)

LiteralSymbol ==
    /\ pc = "symbol"
    /\ \E s \in {Symbol} :
        /\ GoodSymbol(s)
        /\ s.sym < END_OF_BLOCK
        /\ IF Len(out) >= out_cap THEN Return("OUTPUT")
           ELSE Continue("symbol", s.pos, final, tables, Append(out, s.sym))

(* A match is copied byte by byte, so it may reach into what it produces.  The
   reader's end is not tested here but at the next symbol. *)
Copy(o, length, distance) ==
    o \o [i \in 1 .. length |-> o[Len(o) - distance + 1 + ((i - 1) % distance)]]

MatchSymbol ==
    /\ pc = "symbol"
    /\ \E s \in {Symbol} :
        /\ GoodSymbol(s)
        /\ s.sym > END_OF_BLOCK
        /\ LET lc == s.sym - END_OF_BLOCK
               p == s.pos + LENGTH_EXTRA[lc]
               length == LENGTH_BASE[lc] + br_bits(stream, s.pos, LENGTH_EXTRA[lc])
           IN \E d \in {huff_decode(tables[2], stream, p)} :
              IF d.sym = NoSymbol THEN Return("CORRUPT")
              ELSE \E distance \in {DIST_BASE[d.sym + 1]
                                    + br_bits(stream, d.pos, DIST_EXTRA[d.sym + 1])} :
                   IF distance > Len(out) THEN Return("CORRUPT")
                   ELSE IF Len(out) + length > out_cap THEN Return("OUTPUT")
                   ELSE Continue("symbol", d.pos + DIST_EXTRA[d.sym + 1], final, tables,
                                 Copy(out, length, distance))

Done == pc = "done" /\ UNCHANGED vars

Compress == CompressStored \/ BeginParse \/ Parse \/ CompressBlock
Decompress ==
    \/ Finish \/ BadBlock \/ StoredBlock \/ FixedBlock \/ DynamicBlock
    \/ BadSymbol \/ EndBlock \/ LiteralSymbol \/ MatchSymbol

Next == Compress \/ Arrive \/ CutShort \/ SmallBuffer \/ Damage \/ Decompress \/ Done

Spec == Init /\ [][Next]_vars

-----------------------------------------------------------------------------
(* What the tokens stand for: the reference for the parse. *)
RECURSIVE ExpandOnto(_, _)
ExpandOnto(o, ts) ==
    IF ts = <<>> THEN o
    ELSE LET t == Head(ts)
         IN ExpandOnto(IF IsLiteral(t) THEN Append(o, t.literal)
                       ELSE IF t.distance > Len(o) THEN o
                       ELSE Copy(o, t.length, t.distance),
                       Tail(ts))
Expand(ts) == ExpandOnto(<<>>, ts)

(* How much of the input the tokens account for: a match held back is not yet
   among them, one being skipped already is. *)
Covered ==
    CASE pc = "skip" -> skip
      [] pc = "parsed" -> Len(in)
      [] held.len > 0 -> held.pos
      [] OTHER -> pos

(* At every step of lz77_parse the tokens expand to exactly the input they
   account for: no byte is lost or doubled when a held match is taken, dropped
   for a later one or skipped over (deflate.c:139-182), and every match is one
   the format can express. *)
TokensGiveInput ==
    pc \in {"loop", "search", "skip", "parsed"} =>
        /\ Covered <= Len(in)
        /\ Expand(tokens) = SubSeq(in, 1, Covered)
        /\ \A i \in DOMAIN tokens :
              ~IsLiteral(tokens[i]) => /\ tokens[i].length \in MIN_MATCH .. MAX_MATCH
                                       /\ tokens[i].distance \in 1 .. WINDOW_SIZE

(* All matches of a dynamic block share one distance code, and it is not code
   0: the code build_once gives no length (huffman.c:45). *)
LoneDistance ==
    /\ kind = "dynamic"
    /\ dist_freq[0] = 0
    /\ Cardinality(Used(dist_freq)) = 1

(* A stream that arrives whole is read back to the input, through whichever
   block types the encoder chose, except when LoneDistance holds. *)
RoundTrip ==
    pc = "done" /\ fault = "none" /\ ~LoneDistance => result = "OK" /\ out = in

(* The same without the exception: what the README's "Round trip is exact"
   and the comment at huffman.c:40 promise. *)
RoundTripAlways ==
    pc = "done" /\ fault = "none" => result = "OK" /\ out = in

(* A stream cut at any byte is an error, though the reader goes on with zeros
   and tests for the end only between symbols (bits.c:75, inflate.c:113); a
   buffer one byte short is an output error; and whatever the stream, no more
   is written than the buffer holds.  Of a damaged bit only that bound is
   claimed: the bytes it decodes to may be wrong, for only the gzip container
   around the stream keeps a checksum (deflate.h:46).
   Left out of the rest: the streams of LoneDistance, which a decoder does not
   follow as they were meant even when nothing was lost. *)
FaultsReported ==
    /\ Len(out) <= out_cap
    /\ pc = "done" /\ ~LoneDistance =>
          /\ fault = "cut" => result # "OK"
          /\ fault = "small" => result = "OUTPUT"

(* The block choice is measured, not guessed (deflate.c:419): what is emitted
   has exactly the estimated size, it is never larger than the input stored,
   and it fits the buffer deflate_bound asks for. *)
ChoiceIsMeasured ==
    pc = "sent" =>
        /\ kind \in {"fixed", "dynamic"} => Len(sent) = ByteEnd(estimate)
        /\ Len(sent) <= Len(bw_align(StoreFrom(<<>>, 0)))
        /\ Len(sent) <= BYTE_BITS * deflate_bound(Len(in))

=============================================================================
