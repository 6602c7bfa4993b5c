----------------------------- MODULE Encodings ------------------------------
(***************************************************************************)
(* Samples in the payload of a record (packdata.c, unpackdata.c): Steim-1  *)
(* and Steim-2 words, and encodings with a fixed size.                     *)
(*                                                                         *)
(* A Steim word is a record of its 2-bit nibble, the two bits the word     *)
(* itself begins with where Steim-2 consults them, and its fields.  Byte   *)
(* swapping is left out.  Samples keep to 30 bits and their differences to *)
(* 32: TLC's integers are no wider.                                        *)
(***************************************************************************)
EXTENDS Integers, Sequences, FiniteSetsExt

Steim1 == "Steim1"
Steim2 == "Steim2"
IsSteim(encoding) == encoding \in {Steim1, Steim2}

Power(w) == 2^w
FitsIn(diff, w) == -Power(w - 1) <= diff /\ diff < Power(w - 1)

\* The BITWIDTH macro.
Widths == {4, 5, 6, 8, 10, 15, 16, 30}
BitWidth(diff) == Min({w \in Widths : FitsIn(diff, w)} \union {32})

\* The ways to fill a word; the one with the most differences is tried first.
Packing(n, w, nibble, dnib) == [n |-> n, w |-> w, nibble |-> nibble, dnib |-> dnib]
Packings(encoding) ==
    IF encoding = Steim1
    THEN {Packing(4, 8, 1, 0), Packing(2, 16, 2, 0), Packing(1, 32, 3, 0)}
    ELSE {Packing(7, 4, 3, 2), Packing(6, 5, 3, 1), Packing(5, 6, 3, 0),
          Packing(4, 8, 1, 0), Packing(3, 10, 2, 3), Packing(2, 15, 2, 2),
          Packing(1, 30, 2, 1)}

\* Differences looked at at a time.
Ahead(encoding) == IF encoding = Steim1 THEN 4 ELSE 7

\* Slip: a difference one bit too wide is let through.
OneBitMore(diffs, encoding) ==
    {p \in Packings(encoding) :
        /\ p.n <= Len(diffs)
        /\ \A x \in 1..p.n : p.w = 32 \/ FitsIn(diffs[x], p.w + 1)}

\* The packings the first differences allow; a word of 32 bits takes any.
Possible(diffs, encoding) ==
    {p \in Packings(encoding) :
        /\ p.n <= Len(diffs)
        /\ \A x \in 1..p.n : p.w = 32 \/ BitWidth(diffs[x]) <= p.w}
Fullest(packings) == CHOOSE p \in packings : \A q \in packings : q.n <= p.n

\* A field is the low bits of the difference, and is read with its sign.
Field(diff, w) == IF w = 32 THEN diff ELSE diff % Power(w)
SignExtended(field, w) ==
    IF w = 32 \/ field < Power(w - 1) THEN field ELSE field - Power(w)

Word(diffs, p) ==
    [nibble |-> p.nibble, dnib |-> p.dnib,
     fields |-> [x \in 1..p.n |-> Field(diffs[x], p.w)]]
\* A word of zeros, and one of whatever the memory held before.
NullWord == [nibble |-> 0, dnib |-> 0, fields |-> <<>>]
JunkWord == [nibble |-> 3, dnib |-> 3, fields |-> <<>>]

\* The packing a decoder takes a word for; none for an impossible one.  The
\* nibble alone tells four 8-bit differences, and all of Steim-1.
TakenFor(word, encoding) ==
    {p \in Packings(encoding) :
        /\ p.nibble = word.nibble
        /\ encoding = Steim1 \/ p.nibble = 1 \/ p.dnib = word.dnib}
DiffsOf(word, p) == [x \in 1..p.n |-> SignExtended(word.fields[x], p.w)]

\* A frame is 16 words, the first of them the nibbles; the first frame holds
\* its first and its last sample, too.  The words of so many frames, and the frames that so many words take.
Room(frames) == 15 * frames - (IF frames > 0 THEN 2 ELSE 0)
FramesOf(words) == (words + 2 + 14) \div 15

-----------------------------------------------------------------------------
\* The encodings of a fixed size: bytes of a sample, and what becomes of one.
SampleBytes(encoding) ==
    CASE encoding = "text" -> 1 [] encoding = "int16" -> 2
      [] encoding \in {"int32", "float32"} -> 4 [] encoding = "float64" -> 8
Cast(sample, encoding) ==
    IF encoding = "int16" THEN SignExtended(Field(sample, 16), 16) ELSE sample
=============================================================================
