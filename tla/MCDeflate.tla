----------------------------- MODULE MCDeflate -----------------------------
(* A small DEFLATE: eight byte values of four bits, matches of 3 to 5 bytes
   in a window of 4, codes of at most five bits. *)
EXTENDS Deflate

MCBytes == 0 .. 7

(* Every string of two byte values up to a length beyond the window, and
   longer inputs that reach the dynamic and the stored blocks: repeats of each
   kind in the header, a code beyond the limit (the first), no distance at
   all, several stored chunks (the last). *)
LongInputs == {
    <<3,3,3,3,3,4,3,4,4,4,3,3,6,4,3,7,3,3,4,7,3,4,6,4,5,4,6>>,
    <<6,6,5,5,6,5,6,6,5,5,5,5,6,5,5,5,6,5,6,5,5,5,6,5,6,5,6,6,6>>,
    <<7,7,7,4,4,7,7,4,7,4,4,4,7,7,4,4,4,4,7,4,7,4,4,7,4,4>>,
    <<7,6,6,7,7,7,6,6,7,7,7,7,6,7,6,7,7,6,6,6>>,
    <<4,4,4,0,4,4,4,0,4,4,0,4,4,4>>,
    <<4,5,6,7,0,4,6,5,7,1,4,7,5,6,2,5,4,7>>}

(* Matches all at distance 3 or 4 in a dynamic block. *)
LoneDistanceInputs == {<<6,6,6,7,6,6,6,6,6,7,7,7,6,7,6,6>>}

MCInputs == UNION {[1 .. n -> {3, 4}] : n \in 0 .. 8} \cup LongInputs
            \cup LoneDistanceInputs

MCLevels == {
    [good_length |-> 0, max_chain |-> 0, lazy |-> FALSE],
    [good_length |-> 4, max_chain |-> 4, lazy |-> FALSE],
    [good_length |-> 4, max_chain |-> 4, lazy |-> TRUE],
    [good_length |-> 3, max_chain |-> 2, lazy |-> TRUE]}

MCHash == [t \in MCBytes \X MCBytes \X MCBytes |-> (t[1] + t[2] + t[3]) % 2]

MCLengthBase == <<3, 4, 5>>
MCLengthExtra == <<0, 1, 0>>
MCDistBase == <<1, 2, 3>>
MCDistExtra == <<0, 0, 1>>
MCFixedLit == [s \in 0 .. 11 |-> CASE s < 4 -> 4 [] s \in 4 .. 7 -> 5
                                   [] s \in 8 .. 10 -> 3 [] OTHER -> 4]
MCFixedDist == [s \in 0 .. 2 |-> 2]
MCRepeat == [prev |-> [sym |-> 6, base |-> 3, bits |-> 1],
             fewzeros |-> [sym |-> 7, base |-> 3, bits |-> 1],
             zeros |-> [sym |-> 8, base |-> 5, bits |-> 2]]
MCCodelenOrder == <<6, 7, 8, 0, 3, 2, 4, 1, 5>>

=============================================================================
