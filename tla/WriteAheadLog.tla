---------------------------- MODULE WriteAheadLog ----------------------------
(***************************************************************************)
(* The format of Java-LSM's write-ahead log: the bytes that append writes  *)
(* for a record, and replay, which parses them again, stops at the first   *)
(* short read and throws at a negative length.  Keys and values are the    *)
(* byte sequences that are written (UTF-8 encoding is not modelled); an    *)
(* int is four bytes, big-endian.  LoggedLsmTree puts this file under the  *)
(* tree.                                                                   *)
(***************************************************************************)
EXTENDS Integers, Sequences

Byte == 0 .. 255
MaxInt == 127 * 256 * 256 * 256 + (256 * 256 * 256 - 1)

Int32(n) ==
  LET m == n \div 256
      l == m \div 256
  IN  <<l \div 256, l % 256, m % 256, n % 256>>

\* The signed int at position i.
IntAt(s, i) ==
  LET high == IF s[i] < 128 THEN s[i] ELSE s[i] - 256
  IN  ((high * 256 + s[i + 1]) * 256 + s[i + 2]) * 256 + s[i + 3]

Encode(key, value, Tombstone) ==
  IF value = Tombstone
  THEN <<1>> \o Int32(Len(key)) \o key
  ELSE <<0>> \o Int32(Len(key)) \o key \o Int32(Len(value)) \o value

-----------------------------------------------------------------------------
(* Replay, with a record starting at position i.                           *)

\* n bytes can be read from position i on.
Has(s, i, n) == n >= 0 /\ n <= Len(s) - i + 1

IsDelete(s, i) == s[i] = 1
AfterKey(s, i) == i + 5 + IntAt(s, i + 1)
AfterValue(s, i) == AfterKey(s, i) + 4 + IntAt(s, AfterKey(s, i))

\* None of the reads of the record is short: of the op, of a length, of the bytes.
Whole(s, i) ==
  /\ Has(s, i, 5) /\ Has(s, i + 5, IntAt(s, i + 1))
  /\ IsDelete(s, i) \/ /\ Has(s, AfterKey(s, i), 4)
                       /\ Has(s, AfterKey(s, i) + 4, IntAt(s, AfterKey(s, i)))

\* Delivered last when replay throws.  (It is no record: those are pairs.)
Thrown == <<>>

\* The length of the key or of the value has its top bit set: readNBytes throws an
\* IllegalArgumentException, which replay does not catch.
Negative(s, i) ==
  /\ Has(s, i, 5)
  /\ \/ IntAt(s, i + 1) < 0
     \/ /\ ~IsDelete(s, i) /\ Has(s, i + 5, IntAt(s, i + 1))
        /\ Has(s, AfterKey(s, i), 4) /\ IntAt(s, AfterKey(s, i)) < 0

\* The end of what is delivered, at a record that is not whole.
Stop(s, i) == IF Negative(s, i) THEN <<Thrown>> ELSE <<>>

\* What the handler is given, and where the next record starts.
RecordAt(s, i, Tombstone) ==
  << SubSeq(s, i + 5, AfterKey(s, i) - 1),
     IF IsDelete(s, i) THEN Tombstone ELSE SubSeq(s, AfterKey(s, i) + 4, AfterValue(s, i) - 1) >>
EndOf(s, i) == IF IsDelete(s, i) THEN AfterKey(s, i) ELSE AfterValue(s, i)

\* Mutant of Replay: a value that is cut short is delivered as it is.
ReplayTornValue(s, Tombstone) ==
  LET from[i \in 1 .. Len(s) + 1] ==
        IF Whole(s, i) THEN <<RecordAt(s, i, Tombstone)>> \o from[EndOf(s, i)]
        ELSE IF Has(s, i, 5) /\ Has(s, i + 5, IntAt(s, i + 1)) /\ Has(s, AfterKey(s, i), 4)
        THEN << <<SubSeq(s, i + 5, AfterKey(s, i) - 1), SubSeq(s, AfterKey(s, i) + 4, Len(s))>> >>
        ELSE <<>>
  IN  from[1]

\* The records up to the first one that is not whole, and Thrown behind them if that
\* one makes replay throw.
Replay(s, Tombstone) ==
  LET from[i \in 1 .. Len(s) + 1] ==
        IF ~Whole(s, i) THEN Stop(s, i)
        ELSE <<RecordAt(s, i, Tombstone)>> \o from[EndOf(s, i)]
  IN  from[1]
=============================================================================
