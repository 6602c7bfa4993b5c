-------------------------- MODULE MseedReaderProofs --------------------------
(***************************************************************************)
(* Theorems about MseedReader, for every file, buffer size and selection:  *)
(* what is in the buffer is the part of the file it is taken for, what is  *)
(* handed over is the record that stands at the place it is given with, and*)
(* what is selected is what the lines of the selections ask for.           *)
(*                                                                         *)
(* The last rests on what Glob() makes of a pattern: a symbol of it is     *)
(* matched from place to place of the string, so that Matches() tells what *)
(* it finds at one place by places further on, and the items of the pattern*)
(* are told apart by where each of them stands in what is written.         *)
(***************************************************************************)
EXTENDS MseedReader, SequenceTheorems, FiniteSetTheorems, WellFoundedInduction, TLAPS

Entries == [rec : {cell.rec : cell \in CellsOf(input)}, place : Nat]

Streams(Buffer) ==
    [from : Nat, to : Nat, streampos : Nat, buffer : Buffer,
     readoffset : Nat, handle : Nat, eof : BOOLEAN, recordcount : Nat]
Stream == Streams(Seq(CellsOf(input)))

\* Type invariant, as far as the records and the stream go.
ReaderTypeOK ==
    /\ input \in Inputs
    /\ msfp \in Stream
    /\ list \in Seq(Entries)
    /\ msr = <<>> \/ \E entry \in Entries : msr = <<entry>>

\* The place in the file of the first byte of the buffer.
Base == msfp.streampos - msfp.readoffset

\* The buffer is a part of the file, the stream position is that of the read
\* offset, and the file is read on where the buffer ends (fileutils.c:368-399).
Buffered ==
    /\ msfp.readoffset <= Len(msfp.buffer) /\ Len(msfp.buffer) <= MaxRecLen
    /\ Base >= 0 /\ msfp.handle = Base + Len(msfp.buffer)
    /\ \A x \in 1..Len(msfp.buffer) :
          Base + x \in DOMAIN input.cells /\ msfp.buffer[x] = input.cells[Base + x]

\* An entry is the record whose header stands at its place.
Stands(entry) ==
    entry.place + 1 \in DOMAIN input.cells /\ entry.rec = input.cells[entry.place + 1].rec

\* Records are handed over in the order of the file and none twice: the places
\* rise and end before the stream position; a record is on its way only when a
\* call has returned.
Rising ==
    /\ \A x, y \in 1..Len(list) : x < y => list[x].place < list[y].place
    /\ \A x \in 1..Len(list) : list[x].place < msfp.streampos
    /\ \A entry \in Entries : msr = <<entry>> =>
          /\ entry.place < msfp.streampos
          /\ \A x \in 1..Len(list) : list[x].place < entry.place
InPlace ==
    /\ \A x \in 1..Len(list) : Stands(list[x])
    /\ \A entry \in Entries : msr = <<entry>> => Stands(entry)
\* Nothing has been read while the selections are.
NothingRead == pc = "select" => msfp = Initializer /\ list = <<>>
NoneWaits == pc \in {"select", "loop", "filled"} => msr = <<>>

\* Every record in the list is the one that stands in the file where the list
\* says, and they come in the order of the file, none twice, wherever the
\* buffer was shifted and filled (fileutils.c:411-462, 692-729).
RecordsInPlace ==
    /\ \A x \in 1..Len(list) : Stands(list[x])
    /\ \A x, y \in 1..Len(list) : x < y => list[x].place < list[y].place

IInv == ReaderTypeOK /\ Buffered /\ Rising /\ InPlace /\ NothingRead /\ NoneWaits

-----------------------------------------------------------------------------
(* The buffer                                                              *)

\* What is left in the buffer is the file from the stream position on.
LEMMA UnreadIs ==
    ASSUME ReaderTypeOK, Buffered
    PROVE  /\ Unread \in Seq(CellsOf(input))
           /\ Len(Unread) = BufLen /\ BufLen \in Nat
           /\ \A x \in 1..BufLen : /\ msfp.streampos + x \in DOMAIN input.cells
                                 /\ Unread[x] = input.cells[msfp.streampos + x]
<1>1. /\ msfp.buffer \in Seq(CellsOf(input)) /\ msfp.readoffset \in Nat /\ msfp.streampos \in Nat
      /\ msfp.readoffset <= Len(msfp.buffer)
  BY DEF ReaderTypeOK, Stream, Streams, Buffered
<1>2. /\ Len(msfp.buffer) \in Nat
      /\ \A x \in 1..Len(msfp.buffer) : msfp.buffer[x] \in CellsOf(input)
  BY <1>1, LenProperties, ElementOfSeq
<1>3. /\ Unread \in Seq(CellsOf(input))
      /\ Len(Unread) = BufLen
      /\ \A x \in 1..BufLen : Unread[x] = msfp.buffer[msfp.readoffset + x]
  <2> DEFINE a == msfp.readoffset + 1
             b == Len(msfp.buffer)
  <2>1. a \in Int /\ b \in Int /\ \A x \in a..b : msfp.buffer[x] \in CellsOf(input)
    BY <1>1, <1>2
  <2>2. /\ SubSeq(msfp.buffer, a, b) \in Seq(CellsOf(input))
        /\ Len(SubSeq(msfp.buffer, a, b)) = IF a <= b THEN b - a + 1 ELSE 0
        /\ \A x \in 1..b - a + 1 : SubSeq(msfp.buffer, a, b)[x] = msfp.buffer[a + x - 1]
    <3> HIDE DEF a, b
    <3> QED
      BY <2>1, SubSeqProperties
  <2>3. b - a + 1 = BufLen /\ \A x \in Int : a + x - 1 = msfp.readoffset + x
    BY <1>1, <1>2 DEF BufLen
  <2>4. /\ Unread = SubSeq(msfp.buffer, a, b) /\ BufLen >= 0
        /\ a <= b => b - a + 1 = BufLen
        /\ ~(a <= b) => BufLen = 0
    BY <1>1, <1>2 DEF Unread, BufLen
  <2>5. Len(Unread) = BufLen
    <3> HIDE DEF a, b
    <3> QED
      BY <2>2, <2>4
  <2>6. ASSUME NEW x \in 1..BufLen
        PROVE  Unread[x] = msfp.buffer[msfp.readoffset + x]
    <3>1. x \in 1..b - a + 1 /\ x \in Int
      BY <2>3
    <3>2. SubSeq(msfp.buffer, a, b)[x] = msfp.buffer[a + x - 1]
      BY <2>2, <3>1
    <3> QED
      BY <2>3, <2>4, <3>1, <3>2
  <2> QED
    BY <2>2, <2>4, <2>5, <2>6
<1>4. ASSUME NEW x \in 1..BufLen
      PROVE  /\ msfp.streampos + x \in DOMAIN input.cells
             /\ Unread[x] = input.cells[msfp.streampos + x]
  <2>1. msfp.readoffset + x \in 1..Len(msfp.buffer)
    BY <1>1, <1>2, <1>4 DEF BufLen
  <2>2. Base + (msfp.readoffset + x) = msfp.streampos + x
    BY <1>1, <1>2, <1>4 DEF Base, BufLen
  <2> QED
    BY <1>3, <2>1, <2>2 DEF Buffered
<1> QED
  BY <1>1, <1>2, <1>3, <1>4 DEF BufLen

\* A set of natural numbers that is not empty has a least one.
LEMMA LeastIs ==
    ASSUME NEW T, T \subseteq Nat, T # {}
    PROVE  \E x \in T : \A y \in T : x <= y
<1> DEFINE less == {pair \in Nat \X Nat : pair[1] < pair[2]}
<1>1. IsWellFoundedOn(less, Nat)
  BY NatLessThanWellFounded, Zenon DEF OpToRel
<1>2. PICK x \in T : \A y \in T : ~(<<y, x>> \in less)
  <2> HIDE DEF less
  <2> QED
    BY <1>1, WFMin
<1>3. ASSUME NEW y \in T PROVE x <= y
  <2>1. ~(<<y, x>> \in less) /\ x \in Nat /\ y \in Nat
    BY <1>2
  <2> QED
    BY <2>1
<1> QED
  BY <1>2, <1>3

\* Min() is that least one.
LEMMA LeastOfNats ==
    ASSUME NEW T, T \subseteq Nat, T # {}
    PROVE  Min(T) \in T
  BY LeastIs DEF Min

\* A record that was parsed has a length, and all of it is in the buffer.
LEMMA ParsedLength ==
    ASSUME ReaderTypeOK, Buffered, BufLen >= MinRecLen,
           NEW outcome \in Outcomes, outcome.code = "NOERROR"
    PROVE  outcome.reclen \in MinRecLen..BufLen
<1>1. MinRecLen \in Nat \ {0}
  BY ReaderAssumption
<1>2. /\ Unread \in Seq(CellsOf(input)) /\ Len(Unread) = BufLen /\ BufLen \in Nat /\ BufLen > 0
      /\ Unread[1] \in CellsOf(input)
  BY <1>1, UnreadIs, ElementOfSeq
<1>3. PICK detected \in Detect(Unread) :
          outcome = Parsed(Unread, msfp.eof, input.unpack /\ ~Deferred, detected)
  BY DEF Outcomes
<1>4. detected \in Int
  <2>1. Unread[1].kind \in {"v2", "v3"} => Unread[1].rec.len \in Nat
    BY <1>2, InputsAssumption DEF ReaderTypeOK
  <2>2. Min(FollowingHeaders(Unread) \union {Len(Unread)}) \in Nat
    <3>1. /\ FollowingHeaders(Unread) \union {Len(Unread)} \subseteq Nat
          /\ FollowingHeaders(Unread) \union {Len(Unread)} # {}
      BY <1>2 DEF FollowingHeaders
    <3> QED
      BY <3>1, LeastOfNats
  <2>3. Min(FollowingHeaders(Unread) \union {Len(Unread)}) % Len(Unread) \in Int
    BY <1>2, <2>2
  <2> QED
    BY <1>2, <2>1, <2>3 DEF Detect
<1> DEFINE reclen == IF detected = 0 /\ msfp.eof /\ PowerOfTwo(Len(Unread)) /\ Len(Unread) <= MaxRecLen
                     THEN Len(Unread) ELSE detected
<1>5. reclen \in Int
  BY <1>2, <1>4
<1>6. outcome = CASE reclen < 0 -> Failed("NOTSEED")
                  [] reclen = 0 -> [code |-> "MORE", need |-> MinRecLen, reclen |-> 0]
                  [] reclen > 0 /\ reclen \notin MinRecLen..MaxRecLen -> Failed("OUTOFRANGE")
                  [] reclen \in MinRecLen..MaxRecLen /\ reclen > Len(Unread) ->
                         [code |-> "MORE", need |-> reclen - Len(Unread), reclen |-> 0]
                  [] OTHER -> Unpacked(Unread[1], reclen, input.unpack /\ ~Deferred)
  BY <1>3, Zenon DEF Parsed
<1> HIDE DEF reclen
<1>7. reclen \in MinRecLen..MaxRecLen /\ reclen <= Len(Unread)
  <2>1. CASE reclen < 0
    <3>1. outcome = Failed("NOTSEED")
      BY <1>1, <1>5, <1>6, <2>1
    <3> QED
      BY <3>1 DEF Failed
  <2>2. CASE reclen = 0
    BY <1>1, <1>5, <1>6, <2>2
  <2>3. CASE reclen > 0 /\ reclen \notin MinRecLen..MaxRecLen
    <3>1. outcome = Failed("OUTOFRANGE")
      BY <1>1, <1>5, <1>6, <2>3
    <3> QED
      BY <3>1 DEF Failed
  <2>4. CASE reclen \in MinRecLen..MaxRecLen /\ reclen > Len(Unread)
    BY <1>1, <1>5, <1>6, <2>4
  <2> QED
    BY <1>2, <1>5, <2>1, <2>2, <2>3, <2>4
<1>8. outcome.reclen = reclen
  <2>1. outcome = Unpacked(Unread[1], reclen, input.unpack /\ ~Deferred)
    BY <1>1, <1>2, <1>5, <1>6, <1>7
  <2> QED
    BY <2>1 DEF Unpacked, Failed
<1> QED
  BY <1>2, <1>7, <1>8, <1>1

\* The least of two numbers, and what is left of the file behind the handle.
LEMMA LeastAndMost ==
    ASSUME NEW a \in Int, NEW b \in Int
    PROVE  /\ Min({a, b}) = IF a <= b THEN a ELSE b
           /\ Max({a, b}) = IF a <= b THEN b ELSE a
<1>1. Min({a, b}) = IF a <= b THEN a ELSE b
  BY DEF Min
<1>2. Max({a, b}) = IF a <= b THEN b ELSE a
  BY DEF Max
<1> QED
  BY <1>1, <1>2

\* What a step assigns to a stream.
LEMMA StreamUpdated ==
    ASSUME NEW Buffer, NEW m \in Streams(Buffer)
    PROVE  /\ \A buffer \in Buffer, offset \in Nat :
                [m EXCEPT !.buffer = buffer, !.readoffset = offset] \in Streams(Buffer)
           /\ \A buffer \in Buffer, handle \in Nat, eof \in BOOLEAN :
                [m EXCEPT !.buffer = buffer, !.handle = handle, !.eof = eof] \in Streams(Buffer)
           /\ \A offset \in Nat, place \in Nat :
                [m EXCEPT !.readoffset = offset, !.streampos = place] \in Streams(Buffer)
           /\ \A count \in Nat : [m EXCEPT !.recordcount = count] \in Streams(Buffer)
BY DEF Streams

-----------------------------------------------------------------------------
(* The steps                                                               *)

\* While no record is on its way, the stream may move forward.
LEMMA MovesOn ==
    ASSUME IInv, msr = <<>>, msr' = <<>>, UNCHANGED <<input, list>>,
           msfp' \in Stream, Buffered', msfp'.streampos >= msfp.streampos, NothingRead'
    PROVE  IInv'
<1>1. Entries' = Entries /\ Stream' = Stream /\ CellsOf(input)' = CellsOf(input)
  BY DEF Entries, Stream, Streams
<1>2. ReaderTypeOK'
  BY <1>1 DEF IInv, ReaderTypeOK
<1>3. \A entry : msr' # <<entry>>
  OBVIOUS
<1>4. ASSUME NEW x \in 1..Len(list) PROVE list[x].place < msfp'.streampos
  <2>1. list[x] \in Entries
    BY ElementOfSeq DEF IInv, ReaderTypeOK
  <2>2. list[x].place \in Nat /\ msfp.streampos \in Nat /\ msfp'.streampos \in Nat
    BY <2>1 DEF Entries, Stream, Streams, IInv, ReaderTypeOK
  <2> QED
    BY <2>2 DEF IInv, Rising
<1>5. Rising'
  BY <1>1, <1>3, <1>4 DEF IInv, Rising
<1>6. InPlace'
  BY <1>1, <1>3 DEF IInv, InPlace, Stands
<1> QED
  BY <1>2, <1>5, <1>6 DEF IInv, NoneWaits

\* The stream may stay where it is.
LEMMA StaysPut ==
    ASSUME IInv, msr = <<>>, UNCHANGED <<input, list, msfp, msr>>,
           pc' = "select" => pc = "select"
    PROVE  IInv'
<1>1. msfp' \in Stream /\ Buffered' /\ msfp'.streampos >= msfp.streampos
  BY DEF IInv, ReaderTypeOK, Stream, Streams, Buffered, Base
<1>2. NothingRead'
  BY DEF IInv, NothingRead, Initializer
<1> QED
  BY <1>1, <1>2, MovesOn

\* Shifting the buffer loses nothing that is still to be read.
LEMMA ShiftKeeps ==
    ASSUME IInv, msfp' = Shifted(msfp), UNCHANGED input
    PROVE  msfp' \in Stream /\ Buffered' /\ msfp'.streampos = msfp.streampos
<1>1. /\ Unread \in Seq(CellsOf(input)) /\ Len(Unread) = BufLen /\ BufLen \in Nat
      /\ \A x \in 1..BufLen : /\ msfp.streampos + x \in DOMAIN input.cells
                            /\ Unread[x] = input.cells[msfp.streampos + x]
  BY UnreadIs DEF IInv
<1>2. /\ msfp \in Stream /\ Len(msfp.buffer) <= MaxRecLen /\ Len(msfp.buffer) \in Nat
      /\ msfp.handle = Base + Len(msfp.buffer)
  BY LenProperties DEF IInv, ReaderTypeOK, Buffered, Stream, Streams
<1>3. msfp' = [msfp EXCEPT !.buffer = Unread, !.readoffset = 0]
  BY <1>2 DEF Shifted, Unread, Stream, Streams
<1>4. msfp' \in Stream
  <2>1. \A buffer \in Seq(CellsOf(input)), offset \in Nat :
           [msfp EXCEPT !.buffer = buffer, !.readoffset = offset] \in Stream
    BY <1>2, StreamUpdated DEF Stream
  <2>2. Unread \in Seq(CellsOf(input)) /\ 0 \in Nat
    BY <1>1
  <2> QED
    BY <1>3, <2>1, <2>2, Zenon
<1>5. /\ msfp'.buffer = Unread /\ msfp'.readoffset = 0
      /\ msfp'.streampos = msfp.streampos /\ msfp'.handle = msfp.handle
  BY <1>2, <1>3 DEF Stream, Streams
<1>6. Base' = msfp.streampos /\ msfp.streampos \in Nat /\ msfp.readoffset \in Nat
  BY <1>2, <1>5 DEF Base, Stream, Streams
<1>7. msfp.handle = msfp.streampos + BufLen /\ BufLen <= MaxRecLen
  BY <1>2, <1>6, ReaderAssumption, SMTT(60) DEF Base, BufLen
<1>8. Buffered'
  BY <1>1, <1>5, <1>6, <1>7 DEF Buffered
<1> QED
  BY <1>4, <1>5, <1>8

\* What is read is the file from the handle on.
LEMMA FillKeeps ==
    ASSUME IInv, Fill
    PROVE  msfp' \in Stream /\ Buffered' /\ msfp'.streampos = msfp.streampos
<1> DEFINE kept  == Shifted(msfp)
           there == Max({0, Len(input.cells) - msfp.handle})
           n     == Min({there, MaxRecLen - Len(kept.buffer)})
           data  == SubSeq(input.cells, msfp.handle + 1, msfp.handle + n)
<1>1. /\ Unread \in Seq(CellsOf(input)) /\ Len(Unread) = BufLen /\ BufLen \in Nat
      /\ \A x \in 1..BufLen : /\ msfp.streampos + x \in DOMAIN input.cells
                            /\ Unread[x] = input.cells[msfp.streampos + x]
  BY UnreadIs DEF IInv
<1>2. /\ msfp \in Stream /\ Len(msfp.buffer) <= MaxRecLen /\ Len(msfp.buffer) \in Nat
      /\ msfp.handle = Base + Len(msfp.buffer)
  BY LenProperties DEF IInv, ReaderTypeOK, Buffered, Stream, Streams
<1>3. kept = [msfp EXCEPT !.buffer = Unread, !.readoffset = 0]
  BY <1>2 DEF Shifted, Unread, Stream, Streams
<1>4. /\ kept.buffer = Unread /\ kept.readoffset = 0 /\ kept \in Stream
      /\ kept.streampos = msfp.streampos /\ kept.handle = msfp.handle
  <2>1. kept \in Stream
    <3>1. \A buffer \in Seq(CellsOf(input)), offset \in Nat :
             [msfp EXCEPT !.buffer = buffer, !.readoffset = offset] \in Stream
      BY <1>2, StreamUpdated DEF Stream
    <3>2. Unread \in Seq(CellsOf(input)) /\ 0 \in Nat
      BY <1>1
    <3> QED
      BY <1>3, <3>1, <3>2, Zenon
  <2> QED
    BY <1>2, <1>3, <2>1 DEF Stream, Streams
<1>5. /\ msfp.streampos \in Nat /\ msfp.readoffset \in Nat /\ MaxRecLen \in Nat
      /\ msfp.handle = msfp.streampos + BufLen /\ BufLen <= MaxRecLen /\ msfp.handle \in Nat
  BY <1>2, ReaderAssumption, SMTT(60) DEF Base, BufLen, Stream, Streams
<1>6. /\ input.cells \in Seq(CellsOf(input)) /\ Len(input.cells) \in Nat
      /\ DOMAIN input.cells = 1..Len(input.cells)
  BY InputsAssumption, LenProperties DEF IInv, ReaderTypeOK
<1>7. there = IF 0 <= Len(input.cells) - msfp.handle THEN Len(input.cells) - msfp.handle ELSE 0
  <2>1. Len(input.cells) - msfp.handle \in Int /\ 0 \in Int
    BY <1>5, <1>6
  <2> QED
    BY <2>1, LeastAndMost
<1>8. there \in Nat /\ MaxRecLen - Len(kept.buffer) \in Nat
  BY <1>1, <1>4, <1>5, <1>6, <1>7
<1>9. n \in Nat /\ n <= there /\ n <= MaxRecLen - BufLen
  <2> HIDE DEF there
  <2>1. n = IF there <= MaxRecLen - Len(kept.buffer) THEN there ELSE MaxRecLen - Len(kept.buffer)
    BY <1>8, LeastAndMost
  <2> QED
    BY <1>1, <1>4, <1>8, <2>1
<1>10. n = 0 \/ msfp.handle + n <= Len(input.cells)
  <2> HIDE DEF n
  <2> QED
    BY <1>5, <1>6, <1>7, <1>9
<1> HIDE DEF n, there
<1>11. /\ data \in Seq(CellsOf(input)) /\ Len(data) = n
       /\ \A x \in 1..n : data[x] = input.cells[msfp.handle + x]
  <2>1. \A x \in msfp.handle + 1..msfp.handle + n : input.cells[x] \in CellsOf(input)
    <3>1. ASSUME NEW x \in msfp.handle + 1..msfp.handle + n
          PROVE  x \in 1..Len(input.cells)
      BY <1>5, <1>6, <1>9, <1>10
    <3> QED
      BY <1>6, <3>1, ElementOfSeq
  <2> DEFINE a == msfp.handle + 1
             b == msfp.handle + n
  <2>2. a \in Int /\ b \in Int /\ \A x \in a..b : input.cells[x] \in CellsOf(input)
    BY <1>5, <1>9, <2>1
  <2>3. /\ SubSeq(input.cells, a, b) \in Seq(CellsOf(input))
        /\ Len(SubSeq(input.cells, a, b)) = IF a <= b THEN b - a + 1 ELSE 0
        /\ \A x \in 1..b - a + 1 : SubSeq(input.cells, a, b)[x] = input.cells[a + x - 1]
    <3> HIDE DEF a, b
    <3> QED
      BY <2>2, SubSeqProperties
  <2>4. b - a + 1 = n /\ \A x \in Int : a + x - 1 = msfp.handle + x
    BY <1>5, <1>9
  <2>5. (IF a <= b THEN b - a + 1 ELSE 0) = n
    BY <1>5, <1>9
  <2>6. ASSUME NEW x \in 1..n
        PROVE  data[x] = input.cells[msfp.handle + x]
    <3>1. x \in 1..b - a + 1 /\ x \in Int
      BY <2>4
    <3>2. SubSeq(input.cells, a, b)[x] = input.cells[a + x - 1]
      BY <2>3, <3>1
    <3> QED
      BY <2>4, <3>1, <3>2
  <2> QED
    BY <2>3, <2>5, <2>6
<1> HIDE DEF data
<1>12. msfp' = [kept EXCEPT !.buffer = Unread \o data, !.handle = msfp.handle + n,
                            !.eof = n < MaxRecLen - Len(Unread)]
  BY <1>4 DEF Fill, Filled, Stream, Streams, n, there, data
<1> HIDE DEF kept
<1>13. Unread \o data \in Seq(CellsOf(input)) /\ Len(Unread \o data) = BufLen + n
  BY <1>1, <1>11, ConcatProperties
<1>14. msfp' \in Stream
  <2>1. msfp.handle + n \in Nat /\ (n < MaxRecLen - Len(Unread)) \in BOOLEAN
    BY <1>5, <1>9
  <2> QED
    BY <1>4, <1>12, <1>13, <2>1, StreamUpdated DEF Stream
<1>15. /\ msfp'.buffer = Unread \o data /\ msfp'.readoffset = 0
       /\ msfp'.streampos = msfp.streampos /\ msfp'.handle = msfp.handle + n
  BY <1>4, <1>12 DEF Stream, Streams
<1>16. Base' = msfp.streampos
  BY <1>5, <1>15 DEF Base
<1>17. ASSUME NEW x \in 1..BufLen + n
       PROVE  /\ msfp.streampos + x \in DOMAIN input.cells
              /\ (Unread \o data)[x] = input.cells[msfp.streampos + x]
  <2>1. CASE x <= BufLen
    <3>1. x \in 1..BufLen
      BY <1>1, <2>1
    <3>2. (Unread \o data)[x] = Unread[x]
      BY <1>1, <1>11, <3>1, ConcatProperties, <1>9
    <3> QED
      BY <1>1, <3>1, <3>2
  <2>2. CASE x > BufLen
    <3>1. x - BufLen \in 1..n
      BY <1>1, <1>9, <2>2
    <3>2. (Unread \o data)[x] = data[x - BufLen]
      <4>1. x \in 1..Len(Unread) + Len(data) /\ ~(x <= Len(Unread))
        BY <1>1, <1>9, <1>11, <2>2
      <4> QED
        BY <1>1, <1>11, <4>1, ConcatProperties
    <3>3. msfp.handle + (x - BufLen) = msfp.streampos + x
      BY <1>1, <1>5
    <3>4. msfp.streampos + x \in 1..Len(input.cells)
      BY <1>1, <1>5, <1>6, <1>9, <1>10, <3>1, <3>3, SMTT(60)
    <3> QED
      BY <1>6, <1>11, <3>1, <3>2, <3>3, <3>4
  <2>3. x <= BufLen \/ x > BufLen
    BY <1>1, <1>9
  <2> QED
    BY <2>1, <2>2, <2>3, Zenon
<1>18. UNCHANGED input
  BY DEF Fill
<1>19. Buffered'
  BY <1>1, <1>5, <1>9, <1>13, <1>15, <1>16, <1>17, <1>18, SMTT(60) DEF Buffered
<1> QED
  BY <1>14, <1>15, <1>19

\* Going on in the buffer by no more than it holds.
LEMMA AdvanceKeeps ==
    ASSUME IInv, NEW n \in Nat, n <= BufLen, msfp' = Advanced(n), UNCHANGED input
    PROVE  msfp' \in Stream /\ Buffered' /\ msfp'.streampos = msfp.streampos + n
<1>1. /\ msfp \in Stream /\ Len(msfp.buffer) <= MaxRecLen /\ Len(msfp.buffer) \in Nat
      /\ msfp.handle = Base + Len(msfp.buffer) /\ Base >= 0
      /\ msfp.readoffset \in Nat /\ msfp.streampos \in Nat
  BY LenProperties DEF IInv, ReaderTypeOK, Buffered, Stream, Streams
<1>2. msfp' = [msfp EXCEPT !.readoffset = msfp.readoffset + n, !.streampos = msfp.streampos + n]
  BY <1>1 DEF Advanced, Stream, Streams
<1>3. msfp' \in Stream
  <2>1. \A offset \in Nat, place \in Nat :
           [msfp EXCEPT !.readoffset = offset, !.streampos = place] \in Stream
    BY <1>1, StreamUpdated DEF Stream
  <2>2. msfp.readoffset + n \in Nat /\ msfp.streampos + n \in Nat
    BY <1>1
  <2> QED
    BY <1>2, <2>1, <2>2, Zenon
<1>4. /\ msfp'.buffer = msfp.buffer /\ msfp'.handle = msfp.handle
      /\ msfp'.readoffset = msfp.readoffset + n /\ msfp'.streampos = msfp.streampos + n
  BY <1>1, <1>2 DEF Stream, Streams
<1>5. Base' = Base
  BY <1>1, <1>4 DEF Base
<1>6. msfp'.readoffset <= Len(msfp.buffer)
  BY <1>1, <1>4 DEF BufLen
<1>7. Buffered'
  BY <1>1, <1>4, <1>5, <1>6 DEF IInv, Buffered
<1> QED
  BY <1>3, <1>4, <1>7

\* Opening the file at the start of a range.
LEMMA OpenKeeps ==
    ASSUME IInv, OpenFile
    PROVE  IInv'
<1>1. msr = <<>> /\ msr' = <<>> /\ UNCHANGED <<input, list>>
  BY DEF OpenFile, IInv, NoneWaits
<1> DEFINE range == IF input.ranged THEN PathRange(input.path)
                    ELSE [name |-> input.path, from |-> 0, to |-> 0]
<1>2. range.from \in Nat /\ range.to \in Nat
  BY InputsAssumption DEF IInv, ReaderTypeOK
<1>3. CASE UNCHANGED msfp
  BY <1>1, <1>3, StaysPut DEF OpenFile
<1>4. CASE pc' = "loop" /\ msfp' = [msfp EXCEPT !.from = range.from, !.to = range.to,
                                               !.handle = range.from, !.streampos = range.from]
  <2> HIDE DEF range
  <2>1. msfp = Initializer
    BY DEF OpenFile, IInv, NothingRead
  <2>2. msfp' = [from |-> range.from, to |-> range.to, streampos |-> range.from,
                 buffer |-> <<>>, readoffset |-> 0, handle |-> range.from, eof |-> FALSE,
                 recordcount |-> 0]
    BY <1>4, <2>1 DEF Initializer
  <2>3. msfp' \in Stream
    BY <1>2, <2>2 DEF Stream, Streams
  <2>4. Buffered'
    BY <1>2, <2>2, ReaderAssumption DEF Buffered, Base
  <2>5. msfp'.streampos >= msfp.streampos
    BY <1>2, <2>1, <2>2 DEF Initializer
  <2>6. NothingRead'
    BY <1>4 DEF NothingRead
  <2> QED
    BY <1>1, <2>3, <2>4, <2>5, <2>6, MovesOn
<1> QED
  BY <1>3, <1>4 DEF OpenFile

\* A record is returned.
LEMMA ReturnKeeps ==
    ASSUME IInv, Ready, BufLen >= MinRecLen,
           NEW outcome \in Outcomes, ReturnRecord(outcome)
    PROVE  IInv'
<1> DEFINE n     == outcome.reclen
           entry == [rec |-> Unread[1].rec, place |-> msfp.streampos]
<1>1. n \in MinRecLen..BufLen /\ MinRecLen \in Nat \ {0}
  BY ParsedLength, ReaderAssumption DEF IInv, ReturnRecord
<1>2. /\ Unread \in Seq(CellsOf(input)) /\ Len(Unread) = BufLen /\ BufLen \in Nat
      /\ \A x \in 1..BufLen : /\ msfp.streampos + x \in DOMAIN input.cells
                            /\ Unread[x] = input.cells[msfp.streampos + x]
  BY UnreadIs DEF IInv
<1>3. /\ msr = <<>> /\ msr' = <<entry>> /\ UNCHANGED <<input, list>>
      /\ pc' = "returned"
  BY DEF IInv, NoneWaits, Ready, ReturnRecord, Return, Seen
<1>4. /\ msfp \in Stream /\ Len(msfp.buffer) <= MaxRecLen /\ Len(msfp.buffer) \in Nat
      /\ msfp.handle = Base + Len(msfp.buffer) /\ Base >= 0
      /\ msfp.readoffset \in Nat /\ msfp.streampos \in Nat /\ msfp.recordcount \in Nat
  BY LenProperties DEF IInv, ReaderTypeOK, Buffered, Stream, Streams
<1>5. msfp.streampos + 1 \in DOMAIN input.cells /\ Unread[1] = input.cells[msfp.streampos + 1]
  BY <1>1, <1>2
<1>6. entry \in Entries /\ Stands(entry)
  BY <1>4, <1>5 DEF Entries, CellsOf, Stands
<1>7. /\ msfp' \in Stream /\ Buffered'
      /\ msfp'.streampos = msfp.streampos + n
  <2>1. msfp' = [[msfp EXCEPT !.readoffset = msfp.readoffset + n,
                              !.streampos = msfp.streampos + n]
                 EXCEPT !.recordcount = msfp.recordcount + 1]
    BY <1>4 DEF ReturnRecord, Advanced, Stream, Streams
  <2>2. msfp' \in Stream
    <3>1. msfp.readoffset + n \in Nat /\ msfp.streampos + n \in Nat /\ msfp.recordcount + 1 \in Nat
      BY <1>1, <1>4, SMTT(60)
    <3>2. [msfp EXCEPT !.readoffset = msfp.readoffset + n,
                       !.streampos = msfp.streampos + n] \in Streams(Seq(CellsOf(input)))
      BY <1>4, <3>1, StreamUpdated DEF Stream
    <3> QED
      BY <2>1, <3>1, <3>2, StreamUpdated DEF Stream
  <2>3. /\ msfp'.buffer = msfp.buffer /\ msfp'.handle = msfp.handle
        /\ msfp'.readoffset = msfp.readoffset + n /\ msfp'.streampos = msfp.streampos + n
    BY <1>4, <2>1 DEF Stream, Streams
  <2>4. Base' = Base
    BY <1>1, <1>4, <2>3 DEF Base
  <2>5. msfp'.readoffset <= Len(msfp.buffer)
    BY <1>1, <1>4, <2>3 DEF BufLen
  <2> QED
    BY <1>3, <1>4, <2>2, <2>3, <2>4, <2>5 DEF IInv, Buffered
<1>8. /\ Entries' = Entries /\ Stream' = Stream
  BY <1>3 DEF Entries, Stream, Streams, CellsOf
<1>9. ReaderTypeOK'
  BY <1>3, <1>6, <1>7, <1>8 DEF IInv, ReaderTypeOK
<1>10. \A x \in 1..Len(list) :
          list[x].place \in Nat /\ list[x].place < msfp.streampos
  <2>1. \A x \in 1..Len(list) : list[x] \in Entries
    BY ElementOfSeq DEF IInv, ReaderTypeOK
  <2> QED
    BY <2>1 DEF IInv, Rising, Entries
<1>11. \A x \in 1..Len(list) :
          list[x].place < msfp'.streampos /\ list[x].place < entry.place
  BY <1>1, <1>4, <1>7, <1>10
<1>12. entry.place < msfp'.streampos
  BY <1>1, <1>4, <1>7
<1>13. \A other : msr' = <<other>> => other = entry
  BY <1>3
<1> HIDE DEF entry
<1>14. Rising'
  <2>1. \A x, y \in 1..Len(list) : x < y => list[x].place < list[y].place
    BY DEF IInv, Rising
  <2> QED
    BY <1>3, <1>11, <1>12, <1>13, <2>1, Zenon DEF Rising
<1>15. InPlace'
  BY <1>3, <1>6, <1>13 DEF IInv, InPlace, Stands
<1> QED
  BY <1>3, <1>7, <1>9, <1>14, <1>15 DEF IInv, NoneWaits, NothingRead

\* The record is added to the list.
LEMMA AddKeeps ==
    ASSUME IInv, AddRecord
    PROVE  IInv'
<1>1. UNCHANGED <<input, msfp>> /\ list' = list \o msr /\ msr' = <<>> /\ pc' = "loop"
  BY DEF AddRecord
<1>2. CASE msr = <<>>
  <2>1. list' = list
    BY <1>1, <1>2, ConcatEmptySeq DEF IInv, ReaderTypeOK
  <2> QED
    BY <1>1, <1>2, <2>1, StaysPut
<1>3. ASSUME NEW entry \in Entries, msr = <<entry>>
      PROVE  IInv'
  <2>1. list \in Seq(Entries) /\ Len(list) \in Nat /\ <<entry>> \in Seq(Entries) /\ Len(<<entry>>) = 1
    BY LenProperties DEF IInv, ReaderTypeOK
  <2>2. /\ list' \in Seq(Entries) /\ Len(list') = Len(list) + 1
        /\ \A x \in 1..Len(list) + 1 : list'[x] = IF x <= Len(list) THEN list[x] ELSE entry
    <3>1. /\ list \o <<entry>> \in Seq(Entries) /\ Len(list \o <<entry>>) = Len(list) + 1
          /\ \A x \in 1..Len(list) + 1 :
                (list \o <<entry>>)[x] = IF x <= Len(list) THEN list[x] ELSE <<entry>>[x - Len(list)]
      BY <2>1, ConcatProperties
    <3>2. \A x \in 1..Len(list) + 1 : x <= Len(list) \/ x - Len(list) = 1
      BY <2>1
    <3> QED
      BY <1>1, <1>3, <3>1, <3>2
  <2>3. \A x \in 1..Len(list) + 1 : x \in 1..Len(list) \/ (x = Len(list) + 1 /\ ~(x <= Len(list)))
    BY <2>1
  <2>4. \A x \in 1..Len(list) : list'[x] = list[x]
    BY <2>1, <2>2
  <2>5. list'[Len(list) + 1] = entry
    BY <2>1, <2>2
  <2>6. /\ entry.place < msfp.streampos /\ Stands(entry)
        /\ \A x \in 1..Len(list) : list[x].place < entry.place
    BY <1>3 DEF IInv, Rising, InPlace
  <2>7. ReaderTypeOK'
    BY <1>1, <2>2 DEF IInv, ReaderTypeOK, Entries, Stream, Streams, CellsOf
  <2>8. Rising'
    <3>1. ASSUME NEW x \in 1..Len(list'), NEW y \in 1..Len(list'), x < y
          PROVE  list'[x].place < list'[y].place
      <4>1. x \in 1..Len(list)
        BY <2>1, <2>2, <3>1
      <4>2. CASE y \in 1..Len(list)
        BY <2>4, <3>1, <4>1, <4>2 DEF IInv, Rising
      <4>3. CASE y = Len(list) + 1
        BY <2>4, <2>5, <2>6, <4>1, <4>3
      <4> QED
        BY <2>2, <2>3, <4>2, <4>3
    <3>2. ASSUME NEW x \in 1..Len(list')
          PROVE  list'[x].place < msfp.streampos
      <4>1. CASE x \in 1..Len(list)
        BY <2>4, <4>1 DEF IInv, Rising
      <4>2. CASE x = Len(list) + 1
        BY <2>5, <2>6, <4>2
      <4> QED
        BY <2>2, <2>3, <4>1, <4>2
    <3>3. \A other : msr' # <<other>>
      BY <1>1
    <3> QED
      BY <1>1, <3>1, <3>2, <3>3 DEF Rising
  <2>9. InPlace'
    <3>1. ASSUME NEW x \in 1..Len(list')
          PROVE  Stands(list'[x])
      <4>1. CASE x \in 1..Len(list)
        BY <2>4, <4>1 DEF IInv, InPlace
      <4>2. CASE x = Len(list) + 1
        BY <2>5, <2>6, <4>2
      <4> QED
        BY <2>2, <2>3, <4>1, <4>2
    <3> QED
      BY <1>1, <3>1 DEF InPlace, Stands
  <2> QED
    BY <1>1, <2>7, <2>8, <2>9 DEF IInv, Buffered, Base, NothingRead, NoneWaits
<1> QED
  BY <1>2, <1>3 DEF IInv, ReaderTypeOK

\* What a call may do with the bytes before it.
LEMMA ReadKeeps ==
    ASSUME IInv, ReadRecord
    PROVE  IInv'
<1>1. Ready /\ BufLen >= MinRecLen /\ pc \in {"loop", "filled"} /\ msr = <<>>
  BY DEF ReadRecord, Ready, IInv, NoneWaits
<1>2. PICK outcome \in Outcomes :
          \/ ReturnRecord(outcome) \/ SkipUnselected(outcome) \/ DataUnreadable(outcome)
          \/ SkipBytes(outcome) \/ ParseError(outcome) \/ Truncated(outcome)
  BY DEF ReadRecord
<1>3. MinRecLen \in Nat /\ SkipLen \in Nat /\ SkipLen <= MinRecLen /\ BufLen \in Nat
  BY ReaderAssumption, UnreadIs DEF IInv
<1>4. CASE ReturnRecord(outcome)
  BY <1>1, <1>4, ReturnKeeps
<1>5. ASSUME NEW n \in Nat, n <= BufLen, msfp' = Advanced(n), Again(msfp'),
             UNCHANGED <<input, list, msr>>
      PROVE  IInv'
  <2>1. msfp' \in Stream /\ Buffered' /\ msfp'.streampos = msfp.streampos + n
    BY <1>5, AdvanceKeeps
  <2>2. msfp'.streampos >= msfp.streampos
    BY <1>5, <2>1 DEF IInv, ReaderTypeOK, Stream, Streams
  <2>3. NothingRead'
    BY <1>1, <1>5 DEF Again, Return, NothingRead
  <2> QED
    BY <1>1, <1>5, <2>1, <2>2, <2>3, MovesOn
<1>6. CASE SkipUnselected(outcome)
  <2>1. outcome.reclen \in MinRecLen..BufLen
    BY <1>1, <1>6, ParsedLength DEF SkipUnselected, IInv
  <2>2. outcome.reclen \in Nat /\ outcome.reclen <= BufLen
    BY <1>3, <2>1
  <2> QED
    BY <1>5, <1>6, <2>2 DEF SkipUnselected, Seen
<1>7. CASE SkipBytes(outcome)
  <2>1. SkipLen <= BufLen
    BY <1>1, <1>3
  <2> QED
    BY <1>3, <1>5, <1>7, <2>1 DEF SkipBytes, Seen
<1>8. CASE DataUnreadable(outcome) \/ ParseError(outcome) \/ Truncated(outcome)
  <2>1. UNCHANGED <<input, list, msfp, msr>> /\ pc' # "select"
    BY <1>8 DEF DataUnreadable, ParseError, Truncated, Seen, Return
  <2> QED
    BY <1>1, <2>1, StaysPut
<1> QED
  BY <1>2, <1>4, <1>6, <1>7, <1>8

-----------------------------------------------------------------------------
(* The invariant                                                           *)

LEMMA InvHoldsAtFirst ==
    ASSUME NEW in \in Inputs, ReaderInit(in)
    PROVE  IInv
<1>1. /\ input \in Inputs /\ msr = <<>> /\ list = <<>> /\ pc = "select"
      /\ msfp = [from |-> 0, to |-> 0, streampos |-> 0, buffer |-> <<>>, readoffset |-> 0,
                 handle |-> 0, eof |-> FALSE, recordcount |-> 0]
  BY DEF ReaderInit, Initializer
<1>2. ReaderTypeOK
  BY <1>1 DEF ReaderTypeOK, Stream, Streams
<1>3. Buffered
  BY <1>1, ReaderAssumption DEF Buffered, Base
<1>4. Rising /\ InPlace /\ NoneWaits
  BY <1>1 DEF Rising, InPlace, NoneWaits
<1>5. NothingRead
  BY <1>1 DEF NothingRead, Initializer
<1> QED
  BY <1>2, <1>3, <1>4, <1>5 DEF IInv

LEMMA InvIsKept ==
    ASSUME IInv, [ReaderNext]_vars
    PROVE  IInv'
<1>1. CASE SelectLine
  BY <1>1, StaysPut DEF SelectLine, IInv, NoneWaits
<1>2. CASE OpenFile
  BY <1>2, OpenKeeps
<1>3. CASE AtRangeEnd
  BY <1>3, StaysPut DEF AtRangeEnd, Return, IInv, NoneWaits
<1>4. CASE Fill
  <2>1. msfp' \in Stream /\ Buffered' /\ msfp'.streampos = msfp.streampos
    BY <1>4, FillKeeps
  <2>2. /\ msr = <<>> /\ msr' = <<>> /\ UNCHANGED <<input, list>> /\ NothingRead'
        /\ msfp'.streampos >= msfp.streampos
    BY <1>4, <2>1 DEF Fill, IInv, NoneWaits, NothingRead, ReaderTypeOK, Stream, Streams
  <2> QED
    BY <2>1, <2>2, MovesOn
<1>5. CASE ReadFails
  <2>1. msfp' \in Stream /\ Buffered' /\ msfp'.streampos = msfp.streampos
    BY <1>5, ShiftKeeps DEF ReadFails
  <2>2. /\ msr = <<>> /\ msr' = <<>> /\ UNCHANGED <<input, list>> /\ NothingRead'
        /\ msfp'.streampos >= msfp.streampos
    BY <1>5, <2>1 DEF ReadFails, Return, IInv, NoneWaits, NothingRead, ReaderTypeOK, Stream, Streams
  <2> QED
    BY <2>1, <2>2, MovesOn
<1>6. CASE TooLittle
  <2>1. msr = <<>> /\ UNCHANGED <<input, list, msfp, msr>> /\ pc' # "select"
    BY <1>6 DEF TooLittle, Ready, Again, Return, IInv, NoneWaits
  <2> QED
    BY <2>1, StaysPut
<1>7. CASE ReadRecord
  BY <1>7, ReadKeeps
<1>8. CASE AddRecord
  BY <1>8, AddKeeps
<1>9. CASE RefuseRecord \/ Finish \/ UNCHANGED vars
  <2>1. UNCHANGED <<input, msfp, msr, list>> /\ (pc' = pc \/ pc' = "done")
    BY <1>9 DEF RefuseRecord, Finish, vars
  <2>2. UNCHANGED <<Entries, Stream>>
    BY <2>1 DEF Entries, Stream, Streams, CellsOf
  <2>3. ReaderTypeOK' /\ Buffered' /\ Rising'
    BY <2>1, <2>2 DEF IInv, ReaderTypeOK, Buffered, Base, Rising
  <2>4. InPlace' /\ NoneWaits' /\ NothingRead'
    BY <2>1, <2>2 DEF IInv, InPlace, Stands, NoneWaits, NothingRead, Initializer
  <2> QED
    BY <2>3, <2>4 DEF IInv
<1> QED
  BY <1>1, <1>2, <1>3, <1>4, <1>5, <1>6, <1>7, <1>8, <1>9 DEF ReaderNext

-----------------------------------------------------------------------------
(* Theorems                                                                *)

\* Wherever the buffer ends, is shifted and is filled, every record in the list
\* is the one that stands in the file where the list says, and they come in
\* the order of the file, none twice (fileutils.c:368-399, 411-462, 692-729).
THEOREM RecordsStand == ReaderSpec => []RecordsInPlace
<1>1. (\E in \in Inputs : ReaderInit(in)) => IInv
  BY InvHoldsAtFirst
<1>2. IInv /\ [ReaderNext]_vars => IInv'
  BY InvIsKept
<1>3. IInv => RecordsInPlace
  BY DEF IInv, InPlace, Rising, RecordsInPlace
<1> QED
  BY <1>1, <1>2, <1>3, PTL DEF ReaderSpec

\* What is in the buffer is the part of the file that it is taken for.
THEOREM BufferIsFile == ReaderSpec => []Buffered
<1>1. (\E in \in Inputs : ReaderInit(in)) => IInv
  BY InvHoldsAtFirst
<1>2. IInv /\ [ReaderNext]_vars => IInv'
  BY InvIsKept
<1>3. IInv => Buffered
  BY DEF IInv
<1> QED
  BY <1>1, <1>2, <1>3, PTL DEF ReaderSpec

-----------------------------------------------------------------------------
(* Recursions *)

\* What is told of a number by what is told of the number before.
Recurs(f, n, d, h) == f[0] = d /\ \A x \in 1..n : f[x] = h[x][f[x - 1]]

\* A recursion that stays within a set has a function that obeys it.
LEMMA Recursion ==
    ASSUME NEW n \in Nat, NEW D, NEW d \in D, NEW h, \A x \in 1..n : \A e \in D : h[x][e] \in D
    PROVE  \E f \in [0..n -> D] : Recurs(f, n, d, h)
<1> DEFINE F(m, f) == f[0] = d /\ \A x \in 1..m : f[x] = h[x][f[x - 1]]
           Has(m) == \E f \in [0..m -> D] : F(m, f)
           T == {m \in 0..n : ~Has(m)}
<1>1. SUFFICES Has(n)
  BY Zenon DEF Recurs
<1>2. SUFFICES ASSUME T # {} PROVE FALSE
  <2> HIDE DEF Has
  <2> QED
    OBVIOUS
<1>3. PICK m \in T : \A k \in T : m <= k
  <2> HIDE DEF Has
  <2>1. T \subseteq Nat
    OBVIOUS
  <2> QED
    BY <1>2, <2>1, LeastIs
<1>4. ~Has(m) /\ m \in 0..n
  <2> HIDE DEF Has
  <2> QED
    BY <1>3
<1>5. Has(0)
  <2> DEFINE f == [x \in 0..0 |-> d]
  <2>1. f \in [0..0 -> D] /\ F(0, f)
    OBVIOUS
  <2> QED
    BY <2>1
<1>6. m # 0
  <2> HIDE DEF Has
  <2> QED
    BY <1>4, <1>5
<1>7. m - 1 \in 0..n /\ m \in 1..n /\ m \in Nat /\ ~(m <= m - 1)
  BY <1>4, <1>6
<1>8. Has(m - 1)
  <2> HIDE DEF Has
  <2> QED
    BY <1>3, <1>7
<1>9. PICK f \in [0..m-1 -> D] : F(m - 1, f)
  BY <1>8
<1> DEFINE e == h[m][f[m - 1]]
           g == [x \in 0..m |-> IF x = m THEN e ELSE f[x]]
<1>10. f[m - 1] \in D
  BY <1>7, <1>9
<1>11. e \in D
  BY <1>7, <1>10
<1>12. g \in [0..m -> D]
  <2> HIDE DEF e
  <2> QED
    BY <1>7, <1>9, <1>11
<1>13. F(m, g)
  <2>1. g[0] = d
    BY <1>6, <1>7, <1>9
  <2>2. ASSUME NEW x \in 1..m PROVE g[x] = h[x][g[x - 1]]
    <3>1. x - 1 \in 0..m /\ x - 1 # m /\ x \in 0..m
      BY <1>7
    <3>2. g[x - 1] = f[x - 1]
      BY <3>1
    <3>3. CASE x = m
      BY <3>1, <3>2, <3>3
    <3>4. CASE x # m
      <4>1. x \in 1..m - 1 /\ g[x] = f[x]
        BY <1>7, <3>1, <3>4
      <4> HIDE DEF g
      <4> QED
        BY <1>9, <3>2, <4>1
    <3> QED
      BY <3>3, <3>4
  <2> HIDE DEF g
  <2> QED
    BY <2>1, <2>2
<1>14. Has(m)
  <2> HIDE DEF g, F
  <2> QED
    BY <1>12, <1>13
<1> QED
  BY <1>4, <1>14

\* How a pattern matches from a place of it on, at a place of the string.
At(f, s, p) == f[<<s, p>>]

\* How a pattern matches from one place on rests on places further on only.
LEMMA MatchAgrees ==
    ASSUME NEW string, NEW pattern, NEW L \in Nat, L = Len(string), NEW M \in Nat, M = Len(pattern),
           NEW s \in 1..L + 1, NEW p \in 1..M + 1, NEW f, NEW g,
           \A t \in 1..L + 1, q \in 1..M + 1 : q > p => At(f, t, q) = At(g, t, q)
    PROVE  MatchFrom(string, pattern, s, p, f) = MatchFrom(string, pattern, s, p, g)
<1>1. CASE p > Len(pattern)
  BY <1>1, Zenon DEF MatchFrom, At
<1>2. CASE ~(p > Len(pattern)) /\ pattern[p] = Star
  <2>1. p + 1 \in 1..M + 1 /\ p + 1 > p
    BY <1>2
  <2>2. \A x \in s..Len(string) : At(f, x, p + 1) = At(g, x, p + 1)
    <3> TAKE x \in s..Len(string)
    <3>1. x \in 1..L + 1
      OBVIOUS
    <3> QED
      BY <2>1, <3>1
  <2>3. (\E x \in s..Len(string) : At(f, x, p + 1)) = (\E x \in s..Len(string) : At(g, x, p + 1))
    BY <2>2, Zenon
  <2> QED
    BY <1>2, <2>3, Zenon DEF MatchFrom, At
<1>3. CASE ~(p > Len(pattern)) /\ pattern[p] # Star /\ ~(s <= Len(string))
  BY <1>3, Zenon DEF MatchFrom, At
<1>4. CASE ~(p > Len(pattern)) /\ pattern[p] # Star /\ s <= Len(string)
  <2>0. p <= M /\ s + 1 \in 1..L + 1 /\ p + 1 \in 1..M + 1 /\ p + 1 > p /\ p + 2 > p
    BY <1>4
  <2>1. At(f, s + 1, p + 1) = At(g, s + 1, p + 1)
    BY <2>0
  <2>2. p < Len(pattern) => At(f, s + 1, p + 2) = At(g, s + 1, p + 2)
    BY <2>0
  <2>3. MatchSet(string, pattern, s, p, f) = MatchSet(string, pattern, s, p, g)
    <3> DEFINE x == SetFrom(pattern, p)
               S == Closings(pattern, x)
               end == Min(S)
    <3>1. CASE S = {}
      BY <3>1, Zenon DEF MatchSet, At
    <3>2. CASE S # {}
      <4>1. x \in Nat /\ x > p
        BY DEF SetFrom
      <4> HIDE DEF x
      <4>2. S \subseteq Nat /\ \A y \in S : y > x /\ y <= M
        BY <4>1 DEF Closings
      <4>3. end \in S
        <5> HIDE DEF S
        <5>1. PICK y \in S : \A z \in S : y <= z
          BY <3>2, <4>2, LeastIs
        <5> QED
          BY <5>1 DEF Min
      <4>4. end + 1 \in 1..M + 1 /\ end + 1 > p
        <5> HIDE DEF S, end
        <5> QED
          BY <4>1, <4>2, <4>3
      <4>5. At(f, s + 1, end + 1) = At(g, s + 1, end + 1)
        <5> HIDE DEF S, end
        <5> QED
          BY <2>0, <4>4
      <4> QED
        BY <4>5, Zenon DEF MatchSet, At, x
    <3> QED
      BY <3>1, <3>2
  <2>4. MatchOne(string, pattern, s, p, f) = MatchOne(string, pattern, s, p, g)
    BY <2>1, <2>2, <2>3, Zenon DEF MatchOne, Escapes, At
  <2> QED
    BY <1>4, <2>4, Zenon DEF MatchFrom, At
<1> QED
  BY <1>1, <1>2, <1>3, <1>4

\* The function by which a pattern is matched.
Matches(string, pattern, from) ==
    \A s \in 1..Len(string) + 1, p \in 1..Len(pattern) + 1 :
        At(from, s, p) = MatchFrom(string, pattern, s, p, from)

\* There is a function by which a pattern is matched, place by place from the
\* end.
LEMMA MatchExists ==
    ASSUME NEW string, NEW pattern, NEW L \in Nat, L = Len(string), NEW M \in Nat, M = Len(pattern)
    PROVE  \E from : /\ Matches(string, pattern, from)
                     /\ from = [e \in (1..L + 1) \X (1..M + 1) |-> At(from, e[1], e[2])]
<1> DEFINE Sound(k, f) ==
               \A s \in 1..L + 1, p \in 1..M + 1 : p >= M + 2 - k =>
                   At(f, s, p) = MatchFrom(string, pattern, s, p, f)
           Has(k) == \E f : Sound(k, f)
           T == {k \in 0..M + 1 : ~Has(k)}
<1>0. L \in Nat /\ M \in Nat /\ M = Len(pattern) /\ L = Len(string)
  OBVIOUS
<1>1. Has(M + 1)
  <2> SUFFICES ASSUME T # {} PROVE FALSE
    <3> HIDE DEF Has
    <3> QED
      BY <1>0
  <2>1. PICK k \in T : \A j \in T : k <= j
    <3> HIDE DEF Has
    <3>1. T \subseteq Nat
      BY <1>0
    <3> QED
      BY <3>1, LeastIs
  <2>2. ~Has(k) /\ k \in 0..M + 1
    <3> HIDE DEF Has
    <3> QED
      BY <2>1
  <2>3. Has(0)
    <3>1. Sound(0, <<>>)
      BY <1>0
    <3> QED
      BY <3>1
  <2>4. k # 0
    <3> HIDE DEF Has
    <3> QED
      BY <2>2, <2>3
  <2>5. k - 1 \in 0..M + 1 /\ k \in Nat /\ ~(k <= k - 1)
    BY <1>0, <2>2, <2>4
  <2>6. Has(k - 1)
    <3> HIDE DEF Has
    <3> QED
      BY <2>1, <2>5
  <2>7. PICK f : Sound(k - 1, f)
    BY <2>6
  <2> DEFINE q == M + 2 - k
             g == [e \in (1..L + 1) \X (1..M + 1) |->
                     IF e[2] = q THEN MatchFrom(string, pattern, e[1], q, f) ELSE At(f, e[1], e[2])]
  <2>8. q \in 1..M + 1 /\ q \in Nat
    BY <1>0, <2>5
  <2>9. \A s \in 1..L + 1, p \in 1..M + 1 :
           At(g, s, p) = IF p = q THEN MatchFrom(string, pattern, s, q, f) ELSE At(f, s, p)
    BY Zenon DEF At
  <2> HIDE DEF g
  <2>10. ASSUME NEW s \in 1..L + 1, NEW p \in 1..M + 1, p >= q
         PROVE  At(g, s, p) = MatchFrom(string, pattern, s, p, g)
    <3>1. \A t \in 1..L + 1, r \in 1..M + 1 : r > p => At(f, t, r) = At(g, t, r)
      <4> TAKE t \in 1..L + 1, r \in 1..M + 1
      <4> HAVE r > p
      <4>1. r # q
        BY <1>0, <2>8, <2>10
      <4> QED
        BY <2>9, <4>1
    <3>2. MatchFrom(string, pattern, s, p, f) = MatchFrom(string, pattern, s, p, g)
      BY <1>0, <3>1, MatchAgrees, SMTT(60)
    <3>3. CASE p = q
      BY <2>9, <3>2, <3>3, Zenon
    <3>4. CASE p # q
      <4>1. p >= M + 2 - (k - 1)
        BY <1>0, <2>5, <2>8, <2>10, <3>4
      <4>2. At(f, s, p) = MatchFrom(string, pattern, s, p, f)
        BY <2>7, <4>1
      <4> QED
        BY <2>9, <3>2, <3>4, <4>2, Zenon
    <3> QED
      BY <3>3, <3>4
  <2>11. Has(k)
    <3>1. Sound(k, g)
      BY <2>10
    <3> QED
      BY <3>1
  <2> QED
    BY <2>2, <2>11
<1>2. PICK f : Sound(M + 1, f)
  BY <1>1
<1> DEFINE g == [e \in (1..L + 1) \X (1..M + 1) |-> At(f, e[1], e[2])]
<1>3. \A s \in 1..L + 1, p \in 1..M + 1 : At(g, s, p) = At(f, s, p)
  BY Zenon DEF At
<1>4. Matches(string, pattern, g)
  <2> SUFFICES ASSUME NEW s \in 1..L + 1, NEW p \in 1..M + 1
               PROVE  At(g, s, p) = MatchFrom(string, pattern, s, p, g)
    BY <1>0, Zenon DEF Matches
  <2> HIDE DEF g
  <2>1. p >= M + 2 - (M + 1)
    BY <1>0
  <2>2. At(f, s, p) = MatchFrom(string, pattern, s, p, f)
    BY <1>2, <2>1
  <2>3. \A t \in 1..L + 1, r \in 1..M + 1 : r > p => At(f, t, r) = At(g, t, r)
    BY <1>3, Zenon
  <2>4. MatchFrom(string, pattern, s, p, f) = MatchFrom(string, pattern, s, p, g)
    BY <1>0, <2>3, MatchAgrees, SMTT(60)
  <2> QED
    BY <1>3, <2>2, <2>4
<1>5. g = [e \in (1..L + 1) \X (1..M + 1) |-> At(g, e[1], e[2])]
  BY <1>3, Zenon
<1>6. \E from : /\ Matches(string, pattern, from)
                /\ from = [e \in (1..L + 1) \X (1..M + 1) |-> At(from, e[1], e[2])]
  <2> HIDE DEF g
  <2> QED
    BY <1>4, <1>5, Zenon
<1> QED
  BY <1>0, <1>6, Zenon

\* ms_globmatch() is what such a function says of the two beginnings.
LEMMA GlobIs ==
    ASSUME NEW string, NEW pattern, Len(string) \in Nat, Len(pattern) \in Nat
    PROVE  \E from : Matches(string, pattern, from) /\ Glob(string, pattern) = At(from, 1, 1)
<1> DEFINE L == Len(string)  M == Len(pattern)
           R(from) == from = [e \in (1..L + 1) \X (1..M + 1) |-> MatchFrom(string, pattern, e[1], e[2], from)]
           f == CHOOSE from : R(from)
<1>1. \E from : R(from)
  <2>1. PICK from : /\ Matches(string, pattern, from)
                    /\ from = [e \in (1..L + 1) \X (1..M + 1) |-> At(from, e[1], e[2])]
    <3>1. PICK l, m : l = L /\ m = M
      OBVIOUS
    <3>2. l \in Nat /\ m \in Nat /\ l = Len(string) /\ m = Len(pattern)
      BY <3>1
    <3>3. \E from : /\ Matches(string, pattern, from)
                    /\ from = [e \in (1..l + 1) \X (1..m + 1) |-> At(from, e[1], e[2])]
      BY <3>2, MatchExists, SMTT(60)
    <3> QED
      BY <3>1, <3>3, Zenon
  <2>2. \A s \in 1..L + 1, p \in 1..M + 1 : At(from, s, p) = MatchFrom(string, pattern, s, p, from)
    BY <2>1, Zenon DEF Matches
  <2>3. R(from)
    BY <2>1, <2>2, Zenon
  <2> QED
    BY <2>3
<1>2. R(f)
  BY <1>1, Zenon
<1>3. Matches(string, pattern, f)
  <2> SUFFICES ASSUME NEW s \in 1..L + 1, NEW p \in 1..M + 1
               PROVE  At(f, s, p) = MatchFrom(string, pattern, s, p, f)
    BY Zenon DEF Matches
  <2> QED
    BY <1>2, Zenon DEF At
<1>4. Glob(string, pattern) = At(f, 1, 1)
  BY Zenon DEF Glob, At
<1> QED
  BY <1>3, <1>4, Zenon

\* Induction over the numbers of an interval, told by the set they are in.
LEMMA Upwards ==
    ASSUME NEW n \in Nat, NEW T, 0 \in T, \A x \in 1..n : x - 1 \in T => x \in T
    PROVE  \A x \in 0..n : x \in T
<1> DEFINE U == {x \in 0..n : x \notin T}
<1>1. SUFFICES ASSUME U # {} PROVE FALSE
  OBVIOUS
<1>2. U \subseteq Nat
  OBVIOUS
<1>3. PICK x \in U : \A y \in U : x <= y
  BY <1>1, <1>2, LeastIs
<1>4. x \in 1..n /\ x - 1 \in 0..n /\ ~(x <= x - 1)
  BY <1>3
<1> QED
  BY <1>3, <1>4

\* The function by which parts are put together.
Flattens(f, n, parts) ==
    FlattenSeq(parts) = f[n] /\ f[0] = <<>> /\ \A x \in 1..n : f[x] = f[x - 1] \o parts[x]

\* Parts are put together one after the other.
LEMMA FlattenIs ==
    ASSUME NEW S, NEW n \in Nat, NEW parts \in Seq(Seq(S)), n = Len(parts)
    PROVE  \E f \in [0..n -> Seq(S)] : Flattens(f, n, parts)
<1> DEFINE h == [x \in 1..n |-> [e \in Seq(S) |-> e \o parts[x]]]
<1>1. \A x \in 1..n : parts[x] \in Seq(S)
  BY ElementOfSeq
<1>2. \A x \in 1..n : \A e \in Seq(S) : h[x][e] = e \o parts[x] /\ h[x][e] \in Seq(S)
  BY <1>1, ConcatProperties
<1>3. PICK f \in [0..n -> Seq(S)] : f[0] = <<>> /\ \A x \in 1..n : f[x] = h[x][f[x - 1]]
  <2>1. <<>> \in Seq(S)
    OBVIOUS
  <2> HIDE DEF h
  <2>2. \A x \in 1..n : \A e \in Seq(S) : h[x][e] \in Seq(S)
    BY <1>2
  <2>3. PICK D, d : D = Seq(S) /\ d = <<>>
    OBVIOUS
  <2>4. d \in D /\ \A x \in 1..n : \A e \in D : h[x][e] \in D
    BY <2>1, <2>2, <2>3, Zenon
  <2>5. \E f \in [0..n -> D] : Recurs(f, n, d, h)
    BY <2>4, Recursion
  <2> QED
    BY <2>3, <2>5, Zenon DEF Recurs
<1>4. \A x \in 1..n : f[x] = f[x - 1] \o parts[x]
  <2> TAKE x \in 1..n
  <2>1. x - 1 \in 0..n
    OBVIOUS
  <2>2. f[x - 1] \in Seq(S)
    BY <1>3, <2>1
  <2> HIDE DEF h
  <2> QED
    BY <1>2, <1>3, <2>2
<1>5. FlattenSeq(parts) = f[n]
  <2>1. CASE n = 0
    <3>1. FlattenSeq(parts) = parts /\ parts = <<>>
      BY <2>1, EmptySeq DEF FlattenSeq
    <3> QED
      BY <2>1, <3>1, <1>3
  <2>2. CASE n # 0
    <3> DEFINE U(g) == g = [i \in 1..Len(parts) |-> IF i = 1 THEN parts[i] ELSE g[i - 1] \o parts[i]]
               r == [i \in 1..n |-> f[i]]
               g == CHOOSE g : U(g)
    <3>1. ASSUME NEW i \in 1..n PROVE r[i] = IF i = 1 THEN parts[i] ELSE r[i - 1] \o parts[i]
      <4>1. CASE i = 1
        <5>1. f[1] = parts[1]
          <6>1. 1 \in 1..n /\ f[1] = f[1 - 1] \o parts[1] /\ 1 - 1 = 0
            <7>1. 1 \in 1..n
              BY <2>2
            <7>2. f[1] = f[1 - 1] \o parts[1]
              BY <1>4, <7>1, Zenon
            <7> QED
              BY <7>1, <7>2
          <6>2. parts[1] \in Seq(S) /\ f[1] = <<>> \o parts[1]
            BY <1>1, <1>3, <6>1, Zenon
          <6>3. <<>> \o parts[1] = parts[1]
            BY <6>2, EmptySeq, ConcatEmptySeq
          <6> QED
            BY <6>2, <6>3
        <5> QED
          BY <5>1, <4>1
      <4>2. CASE i # 1
        <5>1. i - 1 \in 1..n
          BY <4>2
        <5>2. r[i - 1] = f[i - 1] /\ r[i] = f[i]
          BY <5>1
        <5> HIDE DEF r
        <5> QED
          BY <1>4, <4>2, <5>2
      <4> QED
        BY <4>1, <4>2
    <3>2. U(r)
      <4>1. r = [i \in 1..n |-> r[i]]
        BY Zenon
      <4>2. [i \in 1..n |-> r[i]] = [i \in 1..n |-> IF i = 1 THEN parts[i] ELSE r[i - 1] \o parts[i]]
        <5> HIDE DEF r
        <5> QED
          BY <3>1, Zenon
      <4> QED
        BY <4>1, <4>2, Zenon
    <3>3. U(g)
      BY <3>2, Zenon
    <3>4. FlattenSeq(parts) = g[n]
      BY <2>2, Zenon DEF FlattenSeq
    <3>5. \A i \in 1..n : g[i] = IF i = 1 THEN parts[i] ELSE g[i - 1] \o parts[i]
      BY <3>3, Zenon
    <3> DEFINE T == {i \in 0..n : i = 0 \/ g[i] = r[i]}
    <3> HIDE DEF g, r
    <3>6. \A i \in 0..n : i \in T
      <4>1. ASSUME NEW i \in 1..n, i - 1 \in T PROVE i \in T
        <5>1. CASE i = 1
          BY <3>1, <3>5, <5>1
        <5>2. CASE i # 1
          <6>1. g[i - 1] = r[i - 1]
            BY <4>1, <5>2
          <6>2. g[i] = g[i - 1] \o parts[i] /\ r[i] = r[i - 1] \o parts[i]
            BY <3>1, <3>5, <5>2
          <6>3. g[i] = r[i]
            BY <6>1, <6>2, Zenon
          <6> QED
            BY <6>3
        <5> QED
          BY <5>1, <5>2
      <4>2. 0 \in T
        OBVIOUS
      <4> HIDE DEF T
      <4> QED
        BY <4>1, <4>2, Upwards
    <3>7. g[n] = r[n]
      BY <3>6, <2>2
    <3>8. r[n] = f[n]
      BY <2>2 DEF r
    <3> QED
      BY <3>4, <3>7, <3>8
  <2> QED
    BY <2>1, <2>2
<1> QED
  BY <1>3, <1>4, <1>5, Zenon DEF Flattens

\* Where the parts of a sequence stand that is made of them.
PartsAt(whole, parts, o) ==
    /\ o \in [0..Len(parts) -> Nat] /\ o[0] = 0 /\ Len(whole) = o[Len(parts)]
    /\ \A k \in 1..Len(parts) :
          /\ o[k] = o[k - 1] + Len(parts[k]) /\ o[k] <= o[Len(parts)]
          /\ \A j \in 1..Len(parts[k]) : whole[o[k - 1] + j] = parts[k][j]

\* What is made of parts has each of them at its place.
LEMMA FlattenPlaces ==
    ASSUME NEW S, NEW parts \in Seq(Seq(S))
    PROVE  FlattenSeq(parts) \in Seq(S) /\ \E o : PartsAt(FlattenSeq(parts), parts, o)
<1>0. PICK n \in Nat : n = Len(parts)
  BY LenProperties
<1>1. PICK f \in [0..n -> Seq(S)] : Flattens(f, n, parts)
  BY <1>0, FlattenIs
<1>a. FlattenSeq(parts) = f[n] /\ f[0] = <<>> /\ \A x \in 1..n : f[x] = f[x - 1] \o parts[x]
  BY <1>1, Zenon DEF Flattens
<1> DEFINE o == [k \in 0..n |-> Len(f[k])]
<1>2. o \in [0..n -> Nat] /\ o[0] = 0
  BY <1>0, <1>1, <1>a
<1>3. \A k \in 1..n : k - 1 \in 0..n /\ k \in 0..n /\ parts[k] \in Seq(S) /\ Len(parts[k]) \in Nat
  BY <1>0, ElementOfSeq, LenProperties
<1>4. \A k \in 0..n : o[k] = Len(f[k]) /\ o[k] \in Nat /\ f[k] \in Seq(S)
  BY <1>0, <1>1, SMTT(60)
<1> HIDE DEF o
<1>5. ASSUME NEW k \in 1..n
      PROVE  /\ o[k] = o[k - 1] + Len(parts[k])
             /\ \A j \in 1..o[k - 1] : f[k][j] = f[k - 1][j]
             /\ \A j \in 1..Len(parts[k]) : f[k][o[k - 1] + j] = parts[k][j]
  <2>1. f[k] = f[k - 1] \o parts[k] /\ f[k - 1] \in Seq(S) /\ parts[k] \in Seq(S)
    BY <1>a, <1>3, <1>4
  <2>2. Len(f[k]) = Len(f[k - 1]) + Len(parts[k])
    BY <2>1, ConcatProperties
  <2>3. o[k] = Len(f[k]) /\ o[k - 1] = Len(f[k - 1]) /\ Len(f[k - 1]) \in Nat /\ Len(parts[k]) \in Nat
    BY <1>3, <1>4, <2>1, LenProperties
  <2>4. PICK e, q, g : e = f[k - 1] /\ q = parts[k] /\ g = f[k]
    OBVIOUS
  <2>5. e \in Seq(S) /\ q \in Seq(S) /\ g = e \o q
    BY <2>1, <2>4, Zenon
  <2>6. /\ Len(e) \in Nat /\ Len(q) \in Nat
        /\ \A j \in 1..Len(e) + Len(q) : g[j] = IF j <= Len(e) THEN e[j] ELSE q[j - Len(e)]
    BY <2>5, ConcatProperties, LenProperties
  <2>7. (\A j \in 1..Len(e) : g[j] = e[j]) /\ \A j \in 1..Len(q) : g[Len(e) + j] = q[j]
    <3>1. PICK a, b \in Nat : a = Len(e) /\ b = Len(q)
      BY <2>6
    <3>2. \A j \in 1..a + b : g[j] = IF j <= a THEN e[j] ELSE q[j - a]
      BY <2>6, <3>1, Zenon
    <3>3. \A j \in 1..a : j \in 1..a + b /\ j <= a
      BY <3>1
    <3>4. \A j \in 1..a : g[j] = e[j]
      BY <3>2, <3>3
    <3>5. \A j \in 1..b : a + j \in 1..a + b /\ ~(a + j <= a) /\ (a + j) - a = j
      BY <3>1
    <3>6. \A j \in 1..b : g[a + j] = q[j]
      BY <3>2, <3>5, Zenon
    <3> QED
      BY <3>1, <3>4, <3>6, Zenon
  <2>8. o[k - 1] = Len(e) /\ Len(parts[k]) = Len(q)
    BY <2>3, <2>4, Zenon
  <2>9. /\ (\A j \in 1..o[k - 1] : f[k][j] = f[k - 1][j])
        /\ \A j \in 1..Len(parts[k]) : f[k][o[k - 1] + j] = parts[k][j]
    BY <2>4, <2>7, <2>8, Zenon
  <2> QED
    BY <2>2, <2>3, <2>9
<1> DEFINE Grown(m) == \A k \in 0..m : o[k] <= o[m] /\ \A j \in 1..o[k] : f[m][j] = f[k][j]
           T == {m \in 0..n : Grown(m)}
<1>6. \A m \in 0..n : m \in T
  <2>1. 0 \in T
    BY <1>2
  <2>2. ASSUME NEW m \in 1..n, m - 1 \in T PROVE m \in T
    <3>1. Grown(m - 1)
      BY <2>2
    <3>2. SUFFICES ASSUME NEW k \in 0..m PROVE o[k] <= o[m] /\ \A j \in 1..o[k] : f[m][j] = f[k][j]
      OBVIOUS
    <3>3. CASE k = m
      BY <3>3, <1>4
    <3>4. CASE k # m
      <4>1. k \in 0..m - 1 /\ m - 1 \in 0..n /\ m \in 0..n /\ k \in 0..n
        BY <3>4
      <4>2. o[k] <= o[m - 1] /\ \A j \in 1..o[k] : f[m - 1][j] = f[k][j]
        BY <3>1, <4>1
      <4>3. o[m] = o[m - 1] + Len(parts[m]) /\ \A j \in 1..o[m - 1] : f[m][j] = f[m - 1][j]
        BY <1>5
      <4>4. o[k] \in Nat /\ o[m - 1] \in Nat /\ o[m] \in Nat /\ Len(parts[m]) \in Nat
        BY <1>2, <1>3, <4>1
      <4>5. o[m - 1] <= o[m]
        BY <4>3, <4>4, SMTT(60)
      <4>6. ASSUME NEW j \in 1..o[k] PROVE f[m][j] = f[k][j]
        <5>1. j \in 1..o[m - 1]
          BY <4>2, <4>4, SMTT(60)
        <5> QED
          BY <4>2, <4>3, <5>1
      <4> QED
        BY <4>2, <4>4, <4>5, <4>6, SMTT(60)
    <3> QED
      BY <3>3, <3>4
  <2> HIDE DEF T
  <2> QED
    BY <1>0, <2>1, <2>2, Upwards
<1>7. n \in 0..n /\ Grown(n)
  BY <1>6
<1>8. ASSUME NEW k \in 1..n, NEW j \in 1..Len(parts[k]) PROVE f[n][o[k - 1] + j] = parts[k][j]
  <2>1. o[k] = o[k - 1] + Len(parts[k]) /\ f[k][o[k - 1] + j] = parts[k][j]
    BY <1>5
  <2>2. k \in 0..n /\ o[k - 1] \in Nat /\ o[k] \in Nat /\ Len(parts[k]) \in Nat
    BY <1>2, <1>3
  <2>a. PICK a, b, c : a = o[k - 1] /\ b = Len(parts[k]) /\ c = o[k]
    OBVIOUS
  <2>b. a \in Nat /\ b \in Nat /\ c = a + b /\ j \in 1..b
    BY <2>1, <2>2, <2>a, Zenon
  <2>c. a + j \in 1..c
    BY <2>b
  <2>3. o[k - 1] + j \in 1..o[k]
    BY <2>a, <2>c, Zenon
  <2>4. f[n][o[k - 1] + j] = f[k][o[k - 1] + j]
    BY <1>7, <2>2, <2>3
  <2> QED
    BY <2>1, <2>4
<1>9. /\ o \in [0..n -> Nat] /\ o[0] = 0 /\ Len(f[n]) = o[n]
      /\ \A k \in 1..n :
          /\ o[k] = o[k - 1] + Len(parts[k]) /\ o[k] <= o[n]
          /\ \A j \in 1..Len(parts[k]) : f[n][o[k - 1] + j] = parts[k][j]
  BY <1>2, <1>3, <1>4, <1>5, <1>7, <1>8
<1>10. PartsAt(f[n], parts, o)
  BY <1>0, <1>9, Zenon DEF PartsAt
<1>11. f[n] \in Seq(S) /\ FlattenSeq(parts) = f[n]
  BY <1>0, <1>1, <1>a
<1> QED
  BY <1>10, <1>11, Zenon

-----------------------------------------------------------------------------
(* Sets of a pattern *)

\* A byte stands at its rank in the order of bytes.
LEMMA RankIs ==
    ASSUME NEW a \in Bytes
    PROVE  Rank(a) \in Nat /\ Rank(a) \in DOMAIN Ascending /\ Ascending[Rank(a)] = a
<1>1. \E x \in DOMAIN Ascending : Ascending[x] = a
  BY DEF Bytes
<1>2. Rank(a) \in DOMAIN Ascending /\ Ascending[Rank(a)] = a
  BY <1>1, Zenon DEF Rank
<1>3. DOMAIN Ascending = 1..Len(Ascending) /\ Len(Ascending) \in Nat
  BY BytesAssumption, LenProperties
<1> QED
  BY <1>2, <1>3

\* No two bytes have the same rank.
LEMMA RankTells ==
    ASSUME NEW a \in Bytes, NEW b \in Bytes, Rank(a) = Rank(b)
    PROVE  a = b
BY RankIs, Zenon

\* Where a byte or a range begins is told by where others before it begin.
LEMMA BeginsIs ==
    ASSUME NEW set, NEW n \in Nat, n = Len(set)
    PROVE  /\ Begins(set) \subseteq 1..n
           /\ \A x \in 1..n : x \in Begins(set) <=> BeginsAt(set, x, Begins(set))
<1> DEFINE D == SUBSET (1..n)
           h == [x \in 1..n |-> [e \in D |-> e \union {y \in {x} : BeginsAt(set, y, e)}]]
           U(g) == g = [x \in 0..n |-> IF x = 0 THEN {} ELSE g[x - 1] \union {y \in {x} : BeginsAt(set, y, g[x - 1])}]
           g == CHOOSE g : U(g)
<1>1. \A x \in 1..n : \A e \in D : h[x][e] = e \union {y \in {x} : BeginsAt(set, y, e)} /\ h[x][e] \in D
  OBVIOUS
<1>2. PICK f \in [0..n -> D] : Recurs(f, n, {}, h)
  <2> HIDE DEF h, D
  <2>1. {} \in D
    BY DEF D
  <2>2. PICK d : d = {}
    OBVIOUS
  <2>3. d \in D /\ \A x \in 1..n : \A e \in D : h[x][e] \in D
    BY <1>1, <2>1, <2>2
  <2>4. \E f \in [0..n -> D] : Recurs(f, n, d, h)
    BY <2>3, Recursion
  <2> QED
    BY <2>2, <2>4
<1>3. f[0] = {} /\ \A x \in 1..n : f[x] = h[x][f[x - 1]]
  BY <1>2, Zenon DEF Recurs
<1>4. \A x \in 1..n : f[x] = f[x - 1] \union {y \in {x} : BeginsAt(set, y, f[x - 1])}
  <2> TAKE x \in 1..n
  <2>1. x - 1 \in 0..n
    OBVIOUS
  <2> HIDE DEF h, D
  <2>2. f[x - 1] \in D
    BY <1>2, <2>1
  <2> QED
    BY <1>1, <1>3, <2>2, Zenon
<1>5. U(f)
  <2>1. f = [x \in 0..n |-> f[x]]
    <3> HIDE DEF D
    <3> QED
      BY <1>2, Zenon
  <2>2. ASSUME NEW x \in 0..n
        PROVE  f[x] = IF x = 0 THEN {} ELSE f[x - 1] \union {y \in {x} : BeginsAt(set, y, f[x - 1])}
    <3>1. CASE x = 0
      BY <1>3, <3>1
    <3>2. CASE x # 0
      <4>1. x \in 1..n
        BY <3>2
      <4> QED
        BY <1>4, <3>2, <4>1, Zenon
    <3> QED
      BY <3>1, <3>2
  <2> QED
    BY <2>1, <2>2, Zenon
<1>6. U(g)
  BY <1>5, ZenonT(60)
<1>7. Begins(set) = g[n]
  BY Zenon DEF Begins
<1> HIDE DEF g
<1>8. g[0] = {} /\ \A x \in 1..n : g[x] = g[x - 1] \union {y \in {x} : BeginsAt(set, y, g[x - 1])}
  <2>1. \A x \in 0..n : g[x] = IF x = 0 THEN {} ELSE g[x - 1] \union {y \in {x} : BeginsAt(set, y, g[x - 1])}
    BY <1>6, Zenon
  <2>2. 0 \in 0..n /\ \A x \in 1..n : x \in 0..n /\ x # 0
    OBVIOUS
  <2> QED
    BY <2>1, <2>2, Zenon
<1> DEFINE T == {m \in 0..n : g[m] \subseteq 1..m}
           R == {m \in 0..n : \A k \in 0..m : \A y \in 1..k : y \in g[m] <=> y \in g[k]}
<1>9. \A m \in 0..n : m \in T
  <2>1. 0 \in T
    BY <1>8
  <2>2. \A m \in 1..n : m - 1 \in T => m \in T
    <3> TAKE m \in 1..n
    <3> HAVE m - 1 \in T
    <3>1. g[m - 1] \subseteq 1..m - 1 /\ g[m] \subseteq g[m - 1] \union {m}
      BY <1>8
    <3>2. g[m] \subseteq 1..m
      BY <3>1
    <3> QED
      BY <3>2
  <2> HIDE DEF T
  <2> QED
    BY <2>1, <2>2, Upwards
<1>10. \A m \in 0..n : m \in R
  <2>1. 0 \in R
    OBVIOUS
  <2>2. \A m \in 1..n : m - 1 \in R => m \in R
    <3> TAKE m \in 1..n
    <3> HAVE m - 1 \in R
    <3>1. ASSUME NEW k \in 0..m, NEW y \in 1..k PROVE y \in g[m] <=> y \in g[k]
      <4>1. CASE k = m
        BY <4>1
      <4>2. CASE k # m
        <5>1. k \in 0..m - 1 /\ y # m
          BY <4>2
        <5>2. y \in g[m - 1] <=> y \in g[k]
          BY <5>1
        <5>3. g[m] = g[m - 1] \union {z \in {m} : BeginsAt(set, z, g[m - 1])}
          BY <1>8
        <5> QED
          BY <5>1, <5>2, <5>3
      <4> QED
        BY <4>1, <4>2
    <3> QED
      BY <3>1
  <2> HIDE DEF R
  <2> QED
    BY <2>1, <2>2, Upwards
<1>11. n \in T /\ n \in R
  <2> HIDE DEF T, R
  <2> QED
    BY <1>9, <1>10
<1>12. ASSUME NEW x \in 1..n PROVE x \in g[n] <=> BeginsAt(set, x, g[n])
  <2>1. x \in g[n] <=> x \in g[x]
    BY <1>11
  <2>2. x - 1 \in 0..n
    OBVIOUS
  <2>3. g[x - 1] \subseteq 1..x - 1
    BY <1>9, <2>2
  <2>4. x \in g[x] <=> BeginsAt(set, x, g[x - 1])
    BY <1>8, <2>3
  <2>5. \A y \in 1..x - 1 : y \in g[x - 1] <=> y \in g[n]
    BY <1>11, <2>2
  <2>6. g[n] \subseteq 1..n
    BY <1>11
  <2>7. x - 1 \in g[x - 1] <=> x - 1 \in g[n]
    <3>1. CASE x = 1
      BY <2>3, <2>6, <3>1
    <3>2. CASE x # 1
      BY <2>5, <3>2
    <3> QED
      BY <3>1, <3>2
  <2>8. x - 2 \in g[x - 1] <=> x - 2 \in g[n]
    <3>1. CASE x \in {1, 2}
      BY <2>3, <2>6, <3>1
    <3>2. CASE x \notin {1, 2}
      BY <2>5, <3>2
    <3> QED
      BY <3>1, <3>2
  <2>9. BeginsAt(set, x, g[x - 1]) <=> BeginsAt(set, x, g[n])
    BY <2>7, <2>8, Zenon DEF BeginsAt
  <2> QED
    BY <2>1, <2>4, <2>9
<1> QED
  BY <1>7, <1>11, <1>12

\* What patterns are written with.
Symbols == Bytes \union {Star, Query, Opening, Closing, Caret, Hyphen, Escape}

\* A range is written as one byte, or as two with a hyphen between.
LEMMA WrittenRangeIs ==
    ASSUME NEW r \in Bytes \X Bytes
    PROVE  /\ WrittenRange(r) \in Seq(Symbols)
           /\ r[1] = r[2] => Len(WrittenRange(r)) = 1
           /\ r[1] # r[2] => Len(WrittenRange(r)) = 3 /\ WrittenRange(r)[2] = Hyphen
           /\ WrittenRange(r)[1] = r[1] /\ WrittenRange(r)[Len(WrittenRange(r))] = r[2]
<1>1. r[1] \in Symbols /\ r[2] \in Symbols /\ Hyphen \in Symbols
  BY DEF Symbols
<1>2. CASE r[1] = r[2]
  BY <1>1, <1>2 DEF WrittenRange
<1>3. CASE r[1] # r[2]
  <2>1. WrittenRange(r) = <<r[1], Hyphen, r[2]>>
    BY <1>3 DEF WrittenRange
  <2> QED
    BY <1>1, <1>3, <2>1
<1> QED
  BY <1>2, <1>3

\* Every place of a whole is in one of its parts.
LEMMA Located ==
    ASSUME NEW whole, NEW parts, NEW o, PartsAt(whole, parts, o), NEW m \in Nat, m = Len(parts),
           NEW x \in Nat, x > 0, x <= o[m]
    PROVE  \E k \in 1..m : o[k - 1] < x /\ x <= o[k]
<1>1. o \in [0..m -> Nat] /\ o[0] = 0
  BY Zenon DEF PartsAt
<1> DEFINE T == {k \in 0..m : x <= o[k]}
<1>2. m \in T /\ T \subseteq Nat
  OBVIOUS
<1>3. PICK k \in T : \A j \in T : k <= j
  <2>1. T # {}
    BY <1>2
  <2> HIDE DEF T
  <2> QED
    BY <1>2, <2>1, LeastIs
<1>4. k # 0
  BY <1>1, <1>3
<1>5. k - 1 \in 0..m /\ k \in 1..m /\ ~(k <= k - 1) /\ x <= o[k]
  BY <1>3, <1>4
<1>6. ~(x <= o[k - 1])
  BY <1>3, <1>5
<1>7. o[k - 1] \in Nat
  BY <1>1, <1>5
<1> QED
  BY <1>5, <1>6, <1>7

\* The ranges of a set as they are written, one behind the other.
SetOf(ranges) == FlattenSeq([x \in DOMAIN ranges |-> WrittenRange(ranges[x])])

\* Where the ranges of a set stand in what is written.
RangesAt(set, ranges, m, o) ==
    /\ o \in [0..m -> Nat] /\ o[0] = 0 /\ Len(set) = o[m]
    /\ \A k \in 1..m : /\ o[k] <= o[m] /\ set[o[k - 1] + 1] = ranges[k][1]
                       /\ set[o[k]] = ranges[k][2]
                       /\ ranges[k][1] = ranges[k][2] => o[k] = o[k - 1] + 1
                       /\ ranges[k][1] # ranges[k][2] =>
                             o[k] = o[k - 1] + 3 /\ set[o[k - 1] + 2] = Hyphen

\* What is written of some ranges, and where each of them stands.
LEMMA SetIs ==
    ASSUME NEW ranges, RangesOK(ranges), NEW m, m = Len(ranges)
    PROVE  /\ SetOf(ranges) \in Seq(Symbols) /\ m \in Nat /\ m > 0
           /\ \E o : /\ PartsAt(SetOf(ranges), [x \in DOMAIN ranges |-> WrittenRange(ranges[x])], o)
                     /\ RangesAt(SetOf(ranges), ranges, m, o)
<1> DEFINE w == [x \in DOMAIN ranges |-> WrittenRange(ranges[x])]
<1>1. ranges \in Seq(Bytes \X Bytes) /\ ranges # <<>>
  BY DEF RangesOK
<1>2. m \in Nat /\ DOMAIN ranges = 1..m /\ \A x \in 1..m : ranges[x] \in Bytes \X Bytes
  BY <1>1, LenProperties, ElementOfSeq
<1>3. m > 0
  BY <1>1, <1>2, EmptySeq
<1>4. w \in Seq(Seq(Symbols)) /\ Len(w) = m /\ \A x \in 1..m : w[x] = WrittenRange(ranges[x])
  <2>1. \A x \in 1..m : WrittenRange(ranges[x]) \in Seq(Symbols)
    BY <1>2, WrittenRangeIs
  <2> QED
    BY <1>2, <2>1
<1> HIDE DEF w
<1>5. SetOf(ranges) = FlattenSeq(w)
  BY Zenon DEF SetOf, w
<1>6. SetOf(ranges) \in Seq(Symbols) /\ \E o : PartsAt(SetOf(ranges), w, o)
  BY <1>4, <1>5, FlattenPlaces
<1>7. PICK o : PartsAt(SetOf(ranges), w, o)
  BY <1>6
<1>8. PICK whole : whole = SetOf(ranges)
  OBVIOUS
<1>9. /\ o \in [0..m -> Nat] /\ o[0] = 0 /\ Len(whole) = o[m]
      /\ \A k \in 1..m :
          /\ o[k] = o[k - 1] + Len(w[k]) /\ o[k] <= o[m]
          /\ \A j \in 1..Len(w[k]) : whole[o[k - 1] + j] = w[k][j]
  BY <1>4, <1>7, <1>8, Zenon DEF PartsAt
<1>10. ASSUME NEW k \in 1..m
       PROVE  /\ o[k] <= o[m] /\ whole[o[k - 1] + 1] = ranges[k][1]
              /\ whole[o[k]] = ranges[k][2]
              /\ ranges[k][1] = ranges[k][2] => o[k] = o[k - 1] + 1
              /\ ranges[k][1] # ranges[k][2] =>
                    o[k] = o[k - 1] + 3 /\ whole[o[k - 1] + 2] = Hyphen
  <2>1. ranges[k] \in Bytes \X Bytes /\ w[k] = WrittenRange(ranges[k])
    BY <1>2, <1>4
  <2>2. /\ w[k] \in Seq(Symbols)
        /\ ranges[k][1] = ranges[k][2] => Len(w[k]) = 1
        /\ ranges[k][1] # ranges[k][2] => Len(w[k]) = 3 /\ w[k][2] = Hyphen
        /\ w[k][1] = ranges[k][1] /\ w[k][Len(w[k])] = ranges[k][2]
    BY <2>1, WrittenRangeIs
  <2>3. PICK l : l = Len(w[k])
    OBVIOUS
  <2>4. l \in 1..l /\ 1 \in 1..l /\ (l = 3 => 2 \in 1..l) /\ l \in {1, 3}
    <3>1. l = 1 \/ l = 3
      BY <2>2, <2>3, Zenon
    <3> QED
      BY <3>1
  <2>5. o[k] = o[k - 1] + l /\ \A j \in 1..l : whole[o[k - 1] + j] = w[k][j]
    BY <1>9, <2>3
  <2>6. whole[o[k]] = w[k][l] /\ whole[o[k - 1] + 1] = w[k][1] /\ (l = 3 => whole[o[k - 1] + 2] = w[k][2])
    BY <2>4, <2>5, Zenon
  <2>7. o[k] <= o[m]
    BY <1>9
  <2> QED
    BY <2>2, <2>3, <2>5, <2>6, <2>7
<1>11. PartsAt(SetOf(ranges), [x \in DOMAIN ranges |-> WrittenRange(ranges[x])], o)
  BY <1>7 DEF w
<1> QED
  BY <1>2, <1>3, <1>6, <1>8, <1>9, <1>10, <1>11, ZenonT(60) DEF RangesAt

\* A byte is in a set as it is written if it is in one of the ranges that are
\* meant (selection.c:861-897).
LEMMA InSetIs ==
    ASSUME NEW ranges, RangesOK(ranges), NEW byte \in Bytes
    PROVE  InSet(byte, SetOf(ranges)) <=> InRanges(byte, ranges)
<1>0. PICK m, set : m = Len(ranges) /\ set = SetOf(ranges)
  OBVIOUS
<1>1. m \in Nat /\ m > 0 /\ ranges \in Seq(Bytes \X Bytes)
  BY <1>0, SetIs DEF RangesOK
<1>2a. PICK o :
            /\ PartsAt(set, [x \in DOMAIN ranges |-> WrittenRange(ranges[x])], o)
            /\ RangesAt(set, ranges, m, o)
  BY <1>0, SetIs, Zenon
<1>2. /\ PartsAt(set, [x \in DOMAIN ranges |-> WrittenRange(ranges[x])], o)
       /\ o \in [0..m -> Nat] /\ o[0] = 0 /\ Len(set) = o[m]
       /\ \A k \in 1..m :
                   /\ o[k] <= o[m] /\ set[o[k - 1] + 1] = ranges[k][1]
                   /\ set[o[k]] = ranges[k][2]
                   /\ ranges[k][1] = ranges[k][2] => o[k] = o[k - 1] + 1
                   /\ ranges[k][1] # ranges[k][2] =>
                         o[k] = o[k - 1] + 3 /\ set[o[k - 1] + 2] = Hyphen
  BY <1>2a, Zenon DEF RangesAt
<1>3. DOMAIN ranges = 1..m /\ \A k \in 1..m : ranges[k][1] \in Bytes /\ ranges[k][2] \in Bytes
  BY <1>0, <1>1, ElementOfSeq
<1>4. /\ \A k \in 1..m : ranges[k][1] = Hyphen => k = 1
      /\ \A k \in 1..m : ranges[k][2] = Hyphen => ranges[k][1] = Hyphen
  BY <1>3 DEF RangesOK
<1>5. PICK n \in Nat : n = o[m]
  BY <1>1, <1>2
<1>6. n = Len(set)
  BY <1>2, <1>5
<1>7. PICK B : B = Begins(set)
  OBVIOUS
<1>8. B \subseteq 1..n /\ \A x \in 1..n : x \in B <=> BeginsAt(set, x, B)
  BY <1>6, <1>7, BeginsIs, Zenon
<1>10. \A k \in 1..m : k - 1 \in 0..m /\ o[k] \in Nat /\ o[k - 1] \in Nat
  <2> TAKE k \in 1..m
  <2>1. k \in 0..m /\ k - 1 \in 0..m
    BY <1>1
  <2> QED
    BY <1>2, <2>1, Zenon
<1> DEFINE Known(k) == /\ o[k - 1] + 1 \in B /\ o[k] \in B
                       /\ ranges[k][1] # ranges[k][2] => o[k - 1] + 2 \notin B
           T == {k \in 0..m : k = 0 \/ Known(k)}
<1>11. \A k \in 0..m : k \in T
  <2>1. 0 \in T
    BY <1>1
  <2>2. ASSUME NEW k \in 1..m, k - 1 \in T PROVE Known(k)
    <3>1. PICK a, b, low, high : a = o[k - 1] /\ b = o[k] /\ low = ranges[k][1] /\ high = ranges[k][2]
      OBVIOUS
    <3>2. /\ a \in Nat /\ b \in Nat /\ b <= n /\ set[a + 1] = low /\ set[b] = high
          /\ low = high => b = a + 1
          /\ low # high => b = a + 3 /\ set[a + 2] = Hyphen
      BY <1>2, <1>5, <1>10, <3>1, Zenon
    <3>3. IF k = 1 THEN a = 0 ELSE a \in B /\ low # Hyphen
      <4>1. CASE k = 1
        BY <1>2, <3>1, <4>1
      <4>2. CASE k # 1
        <5>1. k - 1 # 0
          BY <4>2
        <5>2. Known(k - 1)
          BY <2>2, <5>1
        <5> QED
          BY <1>4, <3>1, <4>2, <5>2
      <4> QED
        BY <4>1, <4>2
    <3> HIDE DEF T
    <3>4. a + 1 \in 1..n /\ (low # high => a + 2 \in 1..n /\ a + 3 \in 1..n)
      BY <3>2
    <3>5. a + 1 \in B
      <4>1. a + 1 \in B <=> a + 1 = 1 \/ ((a + 1) - 1 \in B /\ set[a + 1] # Hyphen)
                                      \/ ((a + 1) - 2 \in B /\ set[(a + 1) - 1] = Hyphen)
        <5>1. a + 1 \in B <=> BeginsAt(set, a + 1, B)
          BY <1>8, <3>4
        <5> QED
          BY <5>1, Zenon DEF BeginsAt
      <4>2. (a + 1) - 1 = a /\ (a = 0 => a + 1 = 1)
        BY <3>2
      <4> QED
        BY <3>2, <3>3, <4>1, <4>2, Zenon
    <3>6. ASSUME low # high PROVE a + 2 \notin B /\ a + 3 \in B
      <4>1. /\ a + 2 \in B <=> a + 2 = 1 \/ ((a + 2) - 1 \in B /\ set[a + 2] # Hyphen)
                                      \/ ((a + 2) - 2 \in B /\ set[(a + 2) - 1] = Hyphen)
            /\ a + 3 \in B <=> a + 3 = 1 \/ ((a + 3) - 1 \in B /\ set[a + 3] # Hyphen)
                                      \/ ((a + 3) - 2 \in B /\ set[(a + 3) - 1] = Hyphen)
        <5>1. (a + 2 \in B <=> BeginsAt(set, a + 2, B)) /\ (a + 3 \in B <=> BeginsAt(set, a + 3, B))
          BY <1>8, <3>4, <3>6
        <5> QED
          BY <5>1, Zenon DEF BeginsAt
      <4>2. /\ (a + 2) - 2 = a /\ (a + 2) - 1 = a + 1 /\ a + 2 # 1
            /\ (a + 3) - 2 = a + 1 /\ (a + 3) - 1 = a + 2
        BY <3>2
      <4>3. a \in B => low # Hyphen
        BY <1>8, <3>3
      <4> QED
        BY <3>2, <3>5, <3>6, <4>1, <4>2, <4>3, Zenon
    <3>7. b \in B
      BY <3>2, <3>5, <3>6, Zenon
    <3> QED
      BY <3>1, <3>5, <3>6, <3>7, Zenon
  <2>3. \A k \in 1..m : k - 1 \in T => k \in T
    <3> HIDE DEF Known
    <3>1. \A k \in 1..m : k \in 0..m
      BY <1>1
    <3> TAKE k \in 1..m
    <3> HAVE k - 1 \in T
    <3>2. Known(k)
      BY <2>2
    <3> QED
      BY <3>1, <3>2
  <2> HIDE DEF T
  <2> QED
    BY <1>1, <2>1, <2>3, Upwards
<1>12. \A k \in 1..m : Known(k)
  <2> HIDE DEF Known
  <2>1. \A k \in 1..m : k \in 0..m /\ k # 0
    BY <1>1
  <2> QED
    BY <1>11, <2>1
<1> DEFINE Has(x) == \/ byte = set[x]
                     \/ /\ x < n /\ set[x + 1] = Hyphen
                        /\ IF x + 1 = n THEN AtLeast(byte, set[x]) ELSE Within(byte, set[x], set[x + 2])
<1>13. InSet(byte, set) <=> \E x \in B : Has(x)
  BY <1>6, <1>7, Zenon DEF InSet
<1>14. \A k \in 1..m : /\ Rank(ranges[k][1]) \in Nat /\ Rank(ranges[k][2]) \in Nat /\ Rank(byte) \in Nat
                       /\ Rank(byte) = Rank(ranges[k][1]) => byte = ranges[k][1]
                       /\ Rank(byte) = Rank(ranges[k][2]) => byte = ranges[k][2]
  BY <1>3, RankIs, RankTells
<1> DEFINE Meant(k) == byte \in {ranges[k][1], ranges[k][2]} \/ Rank(byte) \in Rank(ranges[k][1])..Rank(ranges[k][2])
<1>15. InRanges(byte, ranges) <=> \E k \in 1..m : Meant(k)
  BY <1>3, Zenon DEF InRanges
<1>16. ASSUME NEW k \in 1..m, Meant(k) PROVE \E x \in B : Has(x)
  <2>1. PICK a, b, low, high : a = o[k - 1] /\ b = o[k] /\ low = ranges[k][1] /\ high = ranges[k][2]
    OBVIOUS
  <2>2. /\ a \in Nat /\ b \in Nat /\ b <= n /\ set[a + 1] = low /\ set[b] = high
        /\ low = high => b = a + 1
        /\ low # high => b = a + 3 /\ set[a + 2] = Hyphen
    BY <1>2, <1>5, <1>10, <2>1, Zenon
  <2>3. a + 1 \in B /\ b \in B
    BY <1>12, <2>1
  <2>4. CASE byte = low
    BY <2>2, <2>3, <2>4, Zenon
  <2>5. CASE byte = high
    BY <2>2, <2>3, <2>5, Zenon
  <2>6. CASE byte # low /\ byte # high
    <3>1. Rank(byte) \in Rank(low)..Rank(high)
      BY <1>16, <2>1, <2>6
    <3>2. Rank(low) < Rank(byte) /\ Rank(byte) < Rank(high)
      BY <1>14, <2>1, <2>6, <3>1
    <3>3. low # high
      BY <1>14, <2>1, <3>2
    <3>4. Within(byte, low, high)
      BY <3>2, Zenon DEF Within
    <3>5. a + 1 < n /\ (a + 1) + 1 # n /\ (a + 1) + 1 = a + 2 /\ (a + 1) + 2 = b
      BY <2>2, <3>3
    <3>6. Has(a + 1)
      BY <2>2, <3>3, <3>4, <3>5, Zenon
    <3> QED
      BY <2>3, <3>6, Zenon
  <2> QED
    BY <2>4, <2>5, <2>6
<1>17. ASSUME NEW x \in B, Has(x) PROVE \E k \in 1..m : Meant(k)
  <2>0. x \in Nat /\ x > 0 /\ x <= n
    BY <1>8
  <2>1. PICK k \in 1..m : o[k - 1] < x /\ x <= o[k]
    <3> DEFINE q == [y \in DOMAIN ranges |-> WrittenRange(ranges[y])]
    <3>1. PartsAt(set, q, o)
      BY <1>2
    <3>2. m = Len(q)
      BY <1>1, <1>3
    <3> HIDE DEF q
    <3> QED
      BY <1>1, <1>5, <2>0, <3>1, <3>2, Located
  <2>2. PICK a, b, low, high : a = o[k - 1] /\ b = o[k] /\ low = ranges[k][1] /\ high = ranges[k][2]
    OBVIOUS
  <2>3. /\ a \in Nat /\ b \in Nat /\ b <= n /\ set[a + 1] = low /\ set[b] = high
        /\ low = high => b = a + 1
        /\ low # high => b = a + 3 /\ set[a + 2] = Hyphen /\ a + 2 \notin B
    BY <1>2, <1>5, <1>10, <1>12, <2>2, Zenon
  <2>4. a < x /\ x <= b
    BY <2>1, <2>2
  <2>5. b < n => set[b + 1] # Hyphen
    <3> HAVE b < n
    <3>1. k # m
      BY <1>5, <2>2
    <3>2. k + 1 \in 1..m /\ (k + 1) - 1 = k /\ k + 1 # 1
      BY <1>1, <3>1
    <3>3. set[o[(k + 1) - 1] + 1] = ranges[k + 1][1]
      BY <1>2, <3>2
    <3> QED
      BY <1>4, <2>2, <3>2, <3>3
  <2>6. CASE x = b
    <3>1. byte = high
      BY <1>17, <2>3, <2>5, <2>6, Zenon
    <3> QED
      BY <2>2, <3>1
  <2>7. CASE x # b
    <3>1. low # high /\ x = a + 1
      <4>1. low # high
        BY <2>0, <2>3, <2>4, <2>7
      <4>2. x \in {a + 1, a + 2}
        BY <2>0, <2>3, <2>4, <2>7, <4>1
      <4> QED
        BY <2>3, <4>1, <4>2
    <3>2. x + 1 # n /\ x + 2 = b
      BY <2>3, <3>1
    <3>3. byte = low \/ Within(byte, low, high)
      BY <1>17, <2>3, <3>1, <3>2, Zenon
    <3>4. byte \in {low, high} \/ (Rank(low) < Rank(byte) /\ Rank(byte) < Rank(high))
      BY <3>3, Zenon DEF Within
    <3>5. byte \in {low, high} \/ Rank(byte) \in Rank(low)..Rank(high)
      BY <1>14, <2>2, <3>4
    <3> QED
      BY <2>2, <3>5
  <2> QED
    BY <2>6, <2>7
<1> QED
  <2> HIDE DEF Has, Meant
  <2> QED
    BY <1>0, <1>13, <1>15, <1>16, <1>17

\* The bytes that mean something in a pattern are not the same.
LEMMA Distinct ==
    /\ Star # Query /\ Star # Opening /\ Star # Escape
    /\ Query # Opening /\ Query # Escape /\ Opening # Escape
    /\ Closing # Hyphen /\ Caret # Closing
BY Zenon DEF Star, Query, Opening, Closing, Caret, Hyphen, Escape

-----------------------------------------------------------------------------
(* Items as they are written and what they stand for *)

\* An item is told by its kind, and has what it was made of.
LEMMA Kinds ==
    /\ AnyByte.is = "any" /\ AnyBytes.is = "all"
    /\ \A b : Byte(b).is = "byte" /\ Byte(b).byte = b
    /\ \A r : In(r).is = "in" /\ In(r).ranges = r /\ NotIn(r).is = "notin" /\ NotIn(r).ranges = r
BY Zenon DEF AnyByte, AnyBytes, Byte, In, NotIn

\* How each kind of item is written.
LEMMA WrittenIs ==
    /\ WrittenItem(AnyByte) = <<Query>> /\ WrittenItem(AnyBytes) = <<Star>>
    /\ \A b : WrittenItem(Byte(b)) = IF b \in {Star, Query, Opening, Escape} THEN <<Escape, b>> ELSE <<b>>
    /\ \A r : WrittenItem(In(r)) = Bracketed(<<Opening>>, r)
    /\ \A r : WrittenItem(NotIn(r)) = Bracketed(<<Opening, Caret>>, r)
<1>1. ASSUME NEW item, item.is = "any" PROVE WrittenItem(item) = <<Query>>
  BY <1>1 DEF WrittenItem
<1>2. ASSUME NEW item, item.is = "all" PROVE WrittenItem(item) = <<Star>>
  BY <1>2 DEF WrittenItem
<1>3. ASSUME NEW item, item.is = "byte"
      PROVE  WrittenItem(item) = IF item.byte \in {Star, Query, Opening, Escape} THEN <<Escape, item.byte>> ELSE <<item.byte>>
  BY <1>3 DEF WrittenItem
<1>4. ASSUME NEW item, item.is = "in" PROVE WrittenItem(item) = Bracketed(<<Opening>>, item.ranges)
  BY <1>4 DEF WrittenItem
<1>5. ASSUME NEW item, item.is = "notin" PROVE WrittenItem(item) = Bracketed(<<Opening, Caret>>, item.ranges)
  BY <1>5 DEF WrittenItem
<1>6. WrittenItem(AnyByte) = <<Query>> /\ WrittenItem(AnyBytes) = <<Star>>
  BY <1>1, <1>2, Kinds, Zenon
<1>7. ASSUME NEW b PROVE WrittenItem(Byte(b)) = IF b \in {Star, Query, Opening, Escape} THEN <<Escape, b>> ELSE <<b>>
  <2>1. PICK item : item = Byte(b)
    OBVIOUS
  <2>2. item.is = "byte" /\ item.byte = b
    BY <2>1, Kinds, Zenon
  <2> QED
    BY <1>3, <2>1, <2>2, Zenon
<1>8. ASSUME NEW r PROVE WrittenItem(In(r)) = Bracketed(<<Opening>>, r) /\ WrittenItem(NotIn(r)) = Bracketed(<<Opening, Caret>>, r)
  <2>1. PICK item, other : item = In(r) /\ other = NotIn(r)
    OBVIOUS
  <2>2. item.is = "in" /\ item.ranges = r /\ other.is = "notin" /\ other.ranges = r
    BY <2>1, Kinds, Zenon
  <2>3. /\ WrittenItem(item) = Bracketed(<<Opening>>, item.ranges)
        /\ WrittenItem(other) = Bracketed(<<Opening, Caret>>, other.ranges)
    BY <1>4, <1>5, <2>2, Zenon
  <2> QED
    BY <2>1, <2>2, <2>3, Zenon
<1> QED
  BY <1>6, <1>7, <1>8, Zenon

\* What each kind of item stands for.
LEMMA StandsForIs ==
    ASSUME NEW bytes
    PROVE  /\ StandsFor(AnyByte, bytes) <=> Len(bytes) = 1
           /\ StandsFor(AnyBytes, bytes)
           /\ \A b : StandsFor(Byte(b), bytes) <=> bytes = <<b>>
           /\ \A r : StandsFor(In(r), bytes) <=> Len(bytes) = 1 /\ InRanges(bytes[1], r)
           /\ \A r : StandsFor(NotIn(r), bytes) <=> Len(bytes) = 1 /\ ~InRanges(bytes[1], r)
<1>1. ASSUME NEW item, item.is = "any" PROVE StandsFor(item, bytes) <=> Len(bytes) = 1
  BY <1>1 DEF StandsFor
<1>2. ASSUME NEW item, item.is = "all" PROVE StandsFor(item, bytes)
  BY <1>2 DEF StandsFor
<1>3. ASSUME NEW item, item.is = "byte" PROVE StandsFor(item, bytes) <=> bytes = <<item.byte>>
  BY <1>3 DEF StandsFor
<1>4. ASSUME NEW item, item.is = "in" PROVE StandsFor(item, bytes) <=> Len(bytes) = 1 /\ InRanges(bytes[1], item.ranges)
  BY <1>4 DEF StandsFor
<1>5. ASSUME NEW item, item.is = "notin" PROVE StandsFor(item, bytes) <=> Len(bytes) = 1 /\ ~InRanges(bytes[1], item.ranges)
  BY <1>5 DEF StandsFor
<1> QED
  <2>1. (StandsFor(AnyByte, bytes) <=> Len(bytes) = 1) /\ StandsFor(AnyBytes, bytes)
    BY <1>1, <1>2, Kinds, Zenon
  <2>2. ASSUME NEW b PROVE StandsFor(Byte(b), bytes) <=> bytes = <<b>>
    <3>1. PICK item : item = Byte(b)
      OBVIOUS
    <3>2. item.is = "byte" /\ item.byte = b
      BY <3>1, Kinds, Zenon
    <3> QED
      BY <1>3, <3>1, <3>2, Zenon
  <2>3. ASSUME NEW r PROVE StandsFor(In(r), bytes) <=> Len(bytes) = 1 /\ InRanges(bytes[1], r)
    <3>1. PICK item : item = In(r)
      OBVIOUS
    <3>2. item.is = "in" /\ item.ranges = r
      BY <3>1, Kinds, Zenon
    <3>3. StandsFor(item, bytes) <=> Len(bytes) = 1 /\ InRanges(bytes[1], item.ranges)
      BY <1>4, <3>2, Zenon
    <3> QED
      BY <3>1, <3>2, <3>3, Zenon
  <2>4. ASSUME NEW r PROVE StandsFor(NotIn(r), bytes) <=> Len(bytes) = 1 /\ ~InRanges(bytes[1], r)
    <3>1. PICK item : item = NotIn(r)
      OBVIOUS
    <3>2. item.is = "notin" /\ item.ranges = r
      BY <3>1, Kinds, Zenon
    <3>3. StandsFor(item, bytes) <=> Len(bytes) = 1 /\ ~InRanges(bytes[1], item.ranges)
      BY <1>5, <3>2, Zenon
    <3> QED
      BY <3>1, <3>2, <3>3, Zenon
  <2> QED
    BY <2>1, <2>2, <2>3, <2>4, Zenon

\* A set in brackets and where its parts stand.
BracketAt(w, head, set, h, n) ==
    /\ w \in Seq(Symbols) /\ n \in Nat /\ h \in Nat /\ Len(w) = h + n + 1
    /\ \A x \in 1..h : w[x] = head[x]
    /\ \A x \in 1..n : w[h + x] = set[x]
    /\ w[h + n + 1] = Closing

\* A set in brackets: the head, the set, and the bracket that closes it.
LEMMA BracketedIs ==
    ASSUME NEW head \in Seq(Symbols), NEW ranges, RangesOK(ranges), NEW n, n = Len(SetOf(ranges)),
           NEW h, h = Len(head), NEW w, w = Bracketed(head, ranges)
    PROVE  BracketAt(w, head, SetOf(ranges), h, n)
<1>1. PICK set : set = SetOf(ranges)
  OBVIOUS
<1>2. set \in Seq(Symbols) /\ n = Len(set)
  BY <1>1, SetIs
<1>4. w = head \o set \o <<Closing>>
  BY <1>1, Zenon DEF Bracketed, SetOf
<1>5. <<Closing>> \in Seq(Symbols)
  BY DEF Symbols
<1>6. PICK e : e = head \o set
  OBVIOUS
<1>7. n \in Nat /\ h \in Nat
  BY <1>2, LenProperties
<1>8. /\ e \in Seq(Symbols) /\ Len(e) = h + n
      /\ \A x \in 1..h + n : e[x] = IF x <= h THEN head[x] ELSE set[x - h]
  BY <1>2, <1>6, ConcatProperties
<1>9. Len(<<Closing>>) = 1 /\ <<Closing>>[1] = Closing
  OBVIOUS
<1>10. PICK z : z = <<Closing>>
  OBVIOUS
<1>11. w = e \o z /\ z \in Seq(Symbols) /\ Len(z) = 1 /\ z[1] = Closing
  BY <1>4, <1>5, <1>6, <1>9, <1>10, Zenon
<1>12. w \in Seq(Symbols) /\ Len(w) = Len(e) + Len(z)
       /\ \A x \in 1..Len(e) + Len(z) : w[x] = IF x <= Len(e) THEN e[x] ELSE z[x - Len(e)]
  <2>1. e \in Seq(Symbols) /\ z \in Seq(Symbols)
    BY <1>8, <1>11, Zenon
  <2>2. PICK f : f = e \o z
    OBVIOUS
  <2>3. f \in Seq(Symbols) /\ Len(f) = Len(e) + Len(z)
        /\ \A x \in 1..Len(e) + Len(z) : f[x] = IF x <= Len(e) THEN e[x] ELSE z[x - Len(e)]
    BY <2>1, <2>2, ConcatProperties
  <2> QED
    BY <1>11, <2>2, <2>3, Zenon
<1>13. PICK l : l = h + n
  OBVIOUS
<1>19. \A x \in 1..l : e[x] = IF x <= h THEN head[x] ELSE set[x - h]
  BY <1>8, <1>13, Zenon
<1>14. Len(w) = l + 1 /\ \A x \in 1..l + 1 : w[x] = IF x <= l THEN e[x] ELSE z[x - l]
  BY <1>8, <1>11, <1>12, <1>13, Zenon
<1>15. /\ \A x \in 1..h : x \in 1..l + 1 /\ x \in 1..l /\ x <= l /\ x <= h
       /\ \A x \in 1..n : h + x \in 1..l + 1 /\ h + x \in 1..l /\ h + x <= l /\ ~(h + x <= h) /\ (h + x) - h = x
       /\ l + 1 \in 1..l + 1 /\ ~(l + 1 <= l) /\ (l + 1) - l = 1
  BY <1>7, <1>13
<1>16. \A x \in 1..h : w[x] = head[x]
  BY <1>14, <1>15, <1>19, ZenonT(60)
<1>17. ASSUME NEW x \in 1..n PROVE w[h + x] = set[x]
  <2>1. PICK y : y = h + x
    OBVIOUS
  <2>2. y \in 1..l + 1 /\ y \in 1..l /\ y <= l /\ ~(y <= h) /\ y - h = x
    BY <1>15, <2>1, Zenon
  <2>3. w[y] = e[y] /\ e[y] = set[y - h]
    BY <1>14, <1>19, <2>2, Zenon
  <2> QED
    BY <2>1, <2>2, <2>3, Zenon
<1>18. w[l + 1] = Closing
  BY <1>11, <1>14, <1>15, ZenonT(60)
<1> QED
  BY <1>1, <1>7, <1>12, <1>13, <1>14, <1>16, <1>17, <1>18, Zenon DEF BracketAt

\* An item is written with one symbol or more.
LEMMA WrittenItemIs ==
    ASSUME NEW item, ItemOK(item)
    PROVE  WrittenItem(item) \in Seq(Symbols) /\ Len(WrittenItem(item)) \in Nat /\ Len(WrittenItem(item)) > 0
<1>1. /\ <<Query>> \in Seq(Symbols) /\ <<Star>> \in Seq(Symbols) /\ <<Opening>> \in Seq(Symbols)
      /\ <<Opening, Caret>> \in Seq(Symbols)
      /\ \A b \in Bytes : <<b>> \in Seq(Symbols) /\ <<Escape, b>> \in Seq(Symbols)
  BY DEF Symbols
<1>a. \A a, b : Len(<<a>>) = 1 /\ Len(<<a, b>>) = 2
  OBVIOUS
<1>b. 1 \in Nat /\ 1 > 0 /\ 2 \in Nat /\ 2 > 0
  OBVIOUS
<1>2. CASE item \in {AnyByte, AnyBytes}
  <2>1. WrittenItem(item) = <<Query>> \/ WrittenItem(item) = <<Star>>
    BY <1>2, WrittenIs, Zenon
  <2> QED
    BY <1>1, <1>a, <1>b, <2>1, Zenon
<1>3. CASE item.byte \in Bytes /\ item = Byte(item.byte)
  <2>1. WrittenItem(item) = <<item.byte>> \/ WrittenItem(item) = <<Escape, item.byte>>
    BY <1>3, WrittenIs, Zenon
  <2> QED
    BY <1>1, <1>3, <1>a, <1>b, <2>1, Zenon
<1>4. ASSUME NEW r, RangesOK(r), item = In(r) \/ item = NotIn(r)
      PROVE  WrittenItem(item) \in Seq(Symbols) /\ Len(WrittenItem(item)) \in Nat /\ Len(WrittenItem(item)) > 0
  <2>1. PICK head :
             /\ (head = <<Opening>> \/ head = <<Opening, Caret>>)
             /\ WrittenItem(item) = Bracketed(head, r)
    BY <1>4, WrittenIs, Zenon
  <2>2. head \in Seq(Symbols)
    BY <1>1, <2>1, Zenon
  <2>3. PICK n, h, w : n = Len(SetOf(r)) /\ h = Len(head) /\ w = WrittenItem(item)
    OBVIOUS
  <2>4. w \in Seq(Symbols) /\ n \in Nat /\ h \in Nat /\ Len(w) = h + n + 1
    <3>1. RangesOK(r) /\ w = Bracketed(head, r)
      BY <1>4, <2>1, <2>3, Zenon
    <3>2. BracketAt(w, head, SetOf(r), h, n)
      BY <2>2, <2>3, <3>1, BracketedIs
    <3> QED
      BY <3>2, Zenon DEF BracketAt
  <2>5. Len(w) \in Nat /\ Len(w) > 0
    BY <2>4
  <2> QED
    BY <2>3, <2>4, <2>5, Zenon
<1> QED
  BY <1>2, <1>3, <1>4, Zenon DEF ItemOK

\* A set is not closed before its end, and begins with its first range.
LEMMA SetOpen ==
    ASSUME NEW ranges, RangesOK(ranges), NEW set, set = SetOf(ranges)
    PROVE  /\ Len(set) \in Nat /\ Len(set) > 0 /\ set[1] = ranges[1][1]
           /\ \A x \in 1..Len(set) : set[x] # Closing
<1>0. PICK m : m = Len(ranges)
  OBVIOUS
<1>1. m \in Nat /\ m > 0 /\ ranges \in Seq(Bytes \X Bytes) /\ set \in Seq(Symbols)
  BY <1>0, SetIs DEF RangesOK
<1>2. PICK o :
           /\ PartsAt(set, [x \in DOMAIN ranges |-> WrittenRange(ranges[x])], o)
           /\ RangesAt(set, ranges, m, o)
  BY <1>0, SetIs, Zenon
<1>3. /\ o \in [0..m -> Nat] /\ o[0] = 0 /\ Len(set) = o[m]
      /\ \A k \in 1..m : /\ o[k] <= o[m] /\ set[o[k - 1] + 1] = ranges[k][1]
                         /\ set[o[k]] = ranges[k][2]
                         /\ ranges[k][1] = ranges[k][2] => o[k] = o[k - 1] + 1
                         /\ ranges[k][1] # ranges[k][2] =>
                               o[k] = o[k - 1] + 3 /\ set[o[k - 1] + 2] = Hyphen
  BY <1>2, Zenon DEF RangesAt
<1>4. DOMAIN ranges = 1..m
  BY <1>0, <1>1
<1>5. \A k \in 1..m : ranges[k][1] # Closing /\ ranges[k][2] # Closing
  BY <1>4 DEF RangesOK
<1>6. o[m] \in Nat /\ 1 \in 1..m
  BY <1>1, <1>3
<1>7. PICK b : b = o[1]
  OBVIOUS
<1>8. b <= o[m] /\ set[0 + 1] = ranges[1][1] /\ (b = 0 + 1 \/ b = 0 + 3)
  <2>1. 1 - 1 = 0
    OBVIOUS
  <2>2. /\ o[1] <= o[m] /\ set[o[1 - 1] + 1] = ranges[1][1]
        /\ ranges[1][1] = ranges[1][2] => o[1] = o[1 - 1] + 1
        /\ ranges[1][1] # ranges[1][2] => o[1] = o[1 - 1] + 3
    BY <1>3, <1>6, Zenon
  <2> QED
    BY <1>3, <1>7, <2>1, <2>2, Zenon
<1>9. o[m] > 0 /\ set[1] = ranges[1][1]
  BY <1>6, <1>8
<1>10. ASSUME NEW x \in 1..o[m] PROVE set[x] # Closing
  <2>0. x \in Nat /\ x > 0 /\ x <= o[m]
    BY <1>6
  <2>1. PICK k \in 1..m : o[k - 1] < x /\ x <= o[k]
    <3> DEFINE q == [y \in DOMAIN ranges |-> WrittenRange(ranges[y])]
    <3>1. PartsAt(set, q, o)
      BY <1>2
    <3>2. m = Len(q)
      BY <1>1, <1>4
    <3> HIDE DEF q
    <3> QED
      BY <1>1, <2>0, <3>1, <3>2, Located
  <2>2. PICK a, c, low, high : a = o[k - 1] /\ c = o[k] /\ low = ranges[k][1] /\ high = ranges[k][2]
    OBVIOUS
  <2>3. k - 1 \in 0..m /\ k \in 0..m
    BY <1>1
  <2>4. /\ a \in Nat /\ c \in Nat /\ set[a + 1] = low /\ set[c] = high
        /\ low = high => c = a + 1
        /\ low # high => c = a + 3 /\ set[a + 2] = Hyphen
    BY <1>3, <2>2, <2>3, Zenon
  <2>5. a < x /\ x <= c
    BY <2>1, <2>2
  <2>6. x = c \/ (x \in {a + 1, a + 2} /\ low # high)
    <3>1. CASE low = high
      BY <2>0, <2>4, <2>5, <3>1
    <3>2. CASE low # high
      BY <2>0, <2>4, <2>5, <3>2
    <3> QED
      BY <3>1, <3>2
  <2>7. set[x] \in {low, high, Hyphen}
    BY <2>4, <2>6, Zenon
  <2> QED
    BY <1>5, <2>2, <2>7, Distinct, Zenon
<1> QED
  BY <1>3, <1>6, <1>9, <1>10, Zenon

-----------------------------------------------------------------------------
(* One item of a pattern *)

\* A part stands in a pattern behind its first a symbols.
Behind(pattern, a, w, l) == \A j \in 1..l : pattern[a + j] = w[j]

\* The set of a pattern from x on is closed at e.
SetEnds(pattern, x, e, set) ==
    Closings(pattern, x) # {} /\ Min(Closings(pattern, x)) = e /\ SubSeq(pattern, x, e - 1) = set

\* A set of ranges as it stands in a pattern, h symbols long before the set
\* and n in it, from x on behind the first a symbols and up to e.
SetStands(pattern, M, ranges, set, h, n, head, w, a, l, x, e) ==
    /\ pattern \in Seq(Symbols) /\ M = Len(pattern) /\ RangesOK(ranges) /\ set = SetOf(ranges)
    /\ h \in {1, 2} /\ n = Len(set) /\ BracketAt(w, head, set, h, n) /\ a \in Nat /\ l = Len(w)
    /\ e = a + l /\ e <= M /\ Behind(pattern, a, w, l) /\ x = a + h + 1

\* The first bracket that closes is that of the set, and what is between is the
\* set.
LEMMA SetFound ==
    ASSUME NEW pattern, NEW M, NEW ranges, NEW set, NEW h, NEW n, NEW head, NEW w, NEW a, NEW l, NEW x, NEW e,
           SetStands(pattern, M, ranges, set, h, n, head, w, a, l, x, e)
    PROVE  l = h + n + 1 /\ SetEnds(pattern, x, e, set)
<1>a. /\ pattern \in Seq(Symbols) /\ M = Len(pattern) /\ RangesOK(ranges) /\ set = SetOf(ranges)
      /\ h \in {1, 2} /\ n = Len(set) /\ BracketAt(w, head, set, h, n) /\ a \in Nat /\ l = Len(w)
      /\ e = a + l /\ e <= M /\ Behind(pattern, a, w, l) /\ x = a + h + 1
  BY Zenon DEF SetStands
<1>0. /\ w \in Seq(Symbols) /\ n \in Nat /\ h \in Nat /\ l = h + n + 1
      /\ \A y \in 1..n : w[h + y] = set[y]
      /\ w[h + n + 1] = Closing
  BY <1>a, Zenon DEF BracketAt
<1>1. n > 0 /\ \A y \in 1..n : set[y] # Closing
  BY <1>a, SetOpen
<1>2. M \in Nat
  BY <1>a, LenProperties
<1>3. \A y \in 1..n : pattern[a + h + y] = set[y]
  <2> TAKE y \in 1..n
  <2>1. h + y \in 1..l /\ a + (h + y) = a + h + y
    BY <1>a, <1>0
  <2>2. pattern[a + (h + y)] = w[h + y]
    BY <1>a, <2>1, Zenon DEF Behind
  <2> QED
    BY <1>a, <1>0, <2>1, <2>2
<1>4. pattern[a + l] = Closing
  <2>1. l \in 1..l /\ w[l] = Closing
    BY <1>a, <1>0, SMTT(60)
  <2> QED
    BY <1>a, <2>1, Zenon DEF Behind
<1>6. e \in x + 1..M /\ e \in Nat /\ x \in Nat /\ e - 1 = a + h + n /\ e - 1 \in Nat
  <2>1. n \in Nat /\ h \in Nat /\ l = h + n + 1 /\ n > 0 /\ a \in Nat /\ M \in Nat /\ e <= M
    BY <1>a, <1>0, <1>1, <1>2, Zenon
  <2>2. e = a + l /\ x = a + h + 1
    BY <1>a
  <2> QED
    BY <1>a, <2>1, <2>2
<1>7. e \in Closings(pattern, x)
  BY <1>a, <1>4, <1>6 DEF Closings
<1>8. ASSUME NEW y \in Closings(pattern, x) PROVE e <= y
  <2>1. y \in x + 1..M /\ pattern[y] = Closing /\ y \in Int
    BY <1>a, <1>6 DEF Closings
  <2>2. SUFFICES ASSUME y < e PROVE FALSE
    BY <1>a, <1>6, <2>1
  <2>3. PICK z : z = y - a - h
    OBVIOUS
  <2>4. z \in 1..n /\ a + h + z = y
    BY <1>a, <1>0, <1>6, <2>1, <2>2, <2>3
  <2>5. pattern[a + h + z] = set[z] /\ set[z] # Closing
    BY <1>a, <1>1, <1>3, <2>4
  <2> QED
    BY <1>a, <2>1, <2>4, <2>5, Zenon
<1>9. Min(Closings(pattern, x)) = e
  <2> DEFINE S == Closings(pattern, x)
  <2>1. e \in S /\ S \subseteq Int /\ \A y \in S : e <= y
    BY <1>a, <1>6, <1>7, <1>8 DEF Closings
  <2> HIDE DEF S
  <2>2. \A z \in S : (\A y \in S : z <= y) => z = e
    BY <1>a, <1>6, <2>1
  <2>3. Min(S) = e
    BY <1>a, <2>1, <2>2, Zenon DEF Min
  <2> QED
    BY <1>a, <2>3 DEF S
<1>10. SubSeq(pattern, x, e - 1) = set
  <2>1. PICK q, b : q = SubSeq(pattern, x, b) /\ b = e - 1
    OBVIOUS
  <2>2. x \in Int /\ b \in Int /\ x >= 1 /\ b <= M /\ x <= b + 1
    <3>1. /\ n \in Nat /\ n > 0 /\ h \in Nat /\ a \in Nat /\ x = a + h + 1
          /\ b = a + h + n /\ b + 1 = e /\ e <= M /\ M \in Nat
      <4>1. b + 1 = e
        BY <1>a, <1>6, <2>1
      <4> QED
        BY <1>a, <1>0, <1>1, <1>2, <1>6, <2>1, <4>1, Zenon
    <3> QED
      BY <1>a, <3>1
  <2>3. q \in Seq(Symbols) /\ Len(q) = b - x + 1 /\ \A y \in 1..b - x + 1 : q[y] = pattern[x + y - 1]
    BY <1>a, <1>2, <2>1, <2>2, SubSeqProperties, SMTT(60)
  <2>4. b - x + 1 = n /\ \A y \in 1..n : x + y - 1 = a + h + y
    <3>1. n \in Nat /\ h \in Nat /\ a \in Nat /\ x = a + h + 1 /\ b = a + h + n
      BY <1>a, <1>0, <1>6, <2>1, Zenon
    <3> QED
      BY <1>a, <3>1
  <2>5. Len(q) = n /\ \A y \in 1..n : q[y] = set[y]
    BY <1>a, <1>3, <2>3, <2>4
  <2>6. set \in Seq(Symbols)
    BY <1>a, SetIs
  <2> QED
    BY <1>a, <2>1, <2>3, <2>5, <2>6, SeqEqual
<1> QED
  <2>1. l = h + n + 1 /\ Closings(pattern, x) # {}
    BY <1>a, <1>0, <1>7, Zenon
  <2>2. SetEnds(pattern, x, e, set)
    BY <1>a, <1>9, <1>10, <2>1, Zenon DEF SetEnds
  <2> QED
    BY <1>a, <2>1, <2>2

\* A place of a string and one of a pattern, and how they match from there.
LEMMA AtIs ==
    ASSUME NEW string, NEW pattern, NEW L \in Nat, L = Len(string), NEW M \in Nat, M = Len(pattern),
           NEW from, Matches(string, pattern, from), NEW s \in 1..L + 1, NEW p \in 1..M, pattern[p] # Star
    PROVE  At(from, s, p) <=> s <= L /\ MatchOne(string, pattern, s, p, from)
<1>1. p \in 1..M + 1 /\ ~(p > M)
  OBVIOUS
<1>2. At(from, s, p) = MatchFrom(string, pattern, s, p, from)
  BY <1>1, Zenon DEF Matches
<1>3. MatchFrom(string, pattern, s, p, from) = (s <= L /\ MatchOne(string, pattern, s, p, from))
  BY <1>1, Zenon DEF MatchFrom
<1> QED
  BY <1>2, <1>3, Zenon

\* A star is the end of the pattern, but for stars, or the rest is matched
\* somewhere further on.
StarFrom(pattern, M, L, from, s, p) ==
    (\A x \in p..M : pattern[x] = Star) \/ (\E x \in s..L : At(from, x, p + 1))

\* What a star matches.
LEMMA StarAt ==
    ASSUME NEW string, NEW pattern, NEW L \in Nat, L = Len(string), NEW M \in Nat, M = Len(pattern),
           NEW from, Matches(string, pattern, from), NEW s \in 1..L + 1, NEW p \in 1..M, pattern[p] = Star
    PROVE  At(from, s, p) <=> StarFrom(pattern, M, L, from, s, p)
<1>1. p \in 1..M + 1 /\ ~(p > M)
  OBVIOUS
<1>2. At(from, s, p) = MatchFrom(string, pattern, s, p, from)
  BY <1>1, Zenon DEF Matches
<1>3. MatchFrom(string, pattern, s, p, from) = StarFrom(pattern, M, L, from, s, p)
  BY <1>1, Zenon DEF MatchFrom, StarFrom, At
<1> QED
  BY <1>2, <1>3, Zenon

\* At the end of the pattern, and at the end of the string.
LEMMA AtEnd ==
    ASSUME NEW string, NEW pattern, NEW L \in Nat, L = Len(string), NEW M \in Nat, M = Len(pattern),
           NEW from, Matches(string, pattern, from)
    PROVE  /\ \A s \in 1..L + 1 : At(from, s, M + 1) <=> s = L + 1
           /\ \A p \in 1..M + 1 : At(from, L + 1, p) <=> \A x \in p..M : pattern[x] = Star
<1>1. ASSUME NEW s \in 1..L + 1 PROVE At(from, s, M + 1) <=> s = L + 1
  <2>1. M + 1 \in 1..M + 1 /\ M + 1 > M
    OBVIOUS
  <2>2. At(from, s, M + 1) = MatchFrom(string, pattern, s, M + 1, from)
    BY <2>1, Zenon DEF Matches
  <2>3. MatchFrom(string, pattern, s, M + 1, from) = (s > L)
    BY <2>1, Zenon DEF MatchFrom
  <2>4. s > L <=> s = L + 1
    OBVIOUS
  <2> QED
    BY <2>2, <2>3, <2>4, Zenon
<1>2. ASSUME NEW p \in 1..M + 1 PROVE At(from, L + 1, p) <=> \A x \in p..M : pattern[x] = Star
  <2>1. L + 1 \in 1..L + 1
    OBVIOUS
  <2>2. CASE p = M + 1
    <3>1. At(from, L + 1, p)
      BY <1>1, <2>1, <2>2
    <3>2. p..M = {}
      BY <2>2
    <3> QED
      BY <3>1, <3>2
  <2>3. CASE p # M + 1
    <3>1. p \in 1..M /\ p \in p..M
      BY <2>3
    <3>2. CASE pattern[p] = Star
      <4>1. At(from, L + 1, p) <=> StarFrom(pattern, M, L, from, L + 1, p)
        BY <2>1, <3>1, <3>2, StarAt
      <4>2. L + 1..L = {}
        OBVIOUS
      <4> QED
        BY <4>1, <4>2, Zenon DEF StarFrom
    <3>3. CASE pattern[p] # Star
      <4>1. At(from, L + 1, p) <=> L + 1 <= L /\ MatchOne(string, pattern, L + 1, p, from)
        BY <2>1, <3>1, <3>3, AtIs
      <4>2. ~(L + 1 <= L)
        OBVIOUS
      <4> QED
        BY <3>1, <3>3, <4>1, <4>2, Zenon
    <3> QED
      BY <3>2, <3>3
  <2> QED
    BY <2>2, <2>3
<1> QED
  BY <1>1, <1>2

\* What one item that stands for a byte comes to.
LEMMA ItemMatches ==
    ASSUME NEW string, NEW L \in Nat, L = Len(string), NEW pattern \in Seq(Symbols),
           NEW M \in Nat, M = Len(pattern), NEW from, Matches(string, pattern, from),
           NEW item, ItemOK(item), item # AnyBytes, NEW w, w = WrittenItem(item),
           NEW l, l = Len(w), NEW a \in Nat, a + l <= M, Behind(pattern, a, w, l),
           NEW s \in 1..L, string[s] \in Bytes
    PROVE  At(from, s, a + 1) <=> StandsFor(item, <<string[s]>>) /\ At(from, s + 1, a + l + 1)
<1>0. l \in Nat /\ l > 0 /\ w \in Seq(Symbols)
  BY WrittenItemIs
<1>1. PICK p : p = a + 1
  OBVIOUS
<1>2. /\ p \in 1..M /\ p \in Nat /\ s \in 1..L + 1 /\ s <= L /\ p + 1 = a + 2 /\ p + 2 = a + 3
      /\ l = 2 => p < M
  BY <1>0, <1>1
<1>3. pattern[p] # Star => (At(from, s, p) <=> MatchOne(string, pattern, s, p, from))
  BY <1>2, AtIs, Zenon
<1>4. pattern[p] = w[1] /\ (l >= 2 => pattern[p + 1] = w[2])
  <2>1. 1 \in 1..l /\ (l >= 2 => 2 \in 1..l)
    BY <1>0
  <2> QED
    BY <1>1, <1>2, <2>1, Zenon DEF Behind
<1>5. PICK b : b = string[s]
  OBVIOUS
<1>6. CASE item = AnyByte
  <2>1. w = <<Query>>
    BY <1>6, WrittenIs, Zenon
  <2>2. l = 1 /\ w[1] = Query
    BY <2>1
  <2>3. pattern[p] = Query
    BY <1>4, <2>2, Zenon
  <2>4. MatchOne(string, pattern, s, p, from) <=> At(from, s + 1, p + 1)
    BY <2>3, Distinct, Zenon DEF MatchOne, Escapes, At
  <2>5. StandsFor(item, <<b>>)
    <3>1. Len(<<b>>) = 1
      OBVIOUS
    <3> QED
      BY <1>6, <3>1, StandsForIs, Zenon
  <2>6. a + l + 1 = p + 1
    BY <1>1, <2>2
  <2> QED
    BY <1>1, <1>3, <1>5, <2>3, <2>4, <2>5, <2>6, Distinct, Zenon
<1>7. CASE item.byte \in Bytes /\ item = Byte(item.byte)
  <2>1. PICK c : c = item.byte
    OBVIOUS
  <2>2. item = Byte(c) /\ w = IF c \in {Star, Query, Opening, Escape} THEN <<Escape, c>> ELSE <<c>>
    BY <1>7, <2>1, WrittenIs, Zenon
  <2>3. StandsFor(item, <<b>>) <=> b = c
    <3>1. <<b>> = <<c>> <=> b = c
      OBVIOUS
    <3> QED
      BY <2>2, <3>1, StandsForIs, Zenon
  <2>4. CASE c \in {Star, Query, Opening, Escape}
    <3>1. w = <<Escape, c>>
      BY <2>2, <2>4, Zenon
    <3>2. l = 2 /\ w[1] = Escape /\ w[2] = c /\ l >= 2
      BY <3>1
    <3>3. pattern[p] = Escape /\ pattern[p + 1] = c /\ p < M
      BY <1>2, <1>4, <3>2, Zenon
    <3>4. MatchOne(string, pattern, s, p, from) <=> c = b /\ At(from, s + 1, p + 2)
      BY <1>5, <3>3, Distinct, Zenon DEF MatchOne, Escapes, At
    <3>5. a + l + 1 = p + 2
      BY <1>1, <3>2
    <3> QED
      BY <1>1, <1>3, <1>5, <2>3, <3>3, <3>4, <3>5, Distinct, Zenon
  <2>5. CASE c \notin {Star, Query, Opening, Escape}
    <3>1. w = <<c>>
      BY <2>2, <2>5, Zenon
    <3>2. l = 1 /\ w[1] = c
      BY <3>1
    <3>3. pattern[p] = c
      BY <1>4, <3>2, Zenon
    <3>4. MatchOne(string, pattern, s, p, from) <=> c = b /\ At(from, s + 1, p + 1)
      BY <1>5, <2>5, <3>3, Zenon DEF MatchOne, Escapes, At
    <3>5. a + l + 1 = p + 1
      BY <1>1, <3>2
    <3> QED
      BY <1>1, <1>3, <1>5, <2>3, <2>5, <3>3, <3>4, <3>5, Zenon
  <2> QED
    BY <2>4, <2>5
<1>8. ASSUME NEW r, RangesOK(r), (item = In(r) /\ r[1][1] # Caret) \/ item = NotIn(r)
      PROVE  At(from, s, a + 1) <=> StandsFor(item, <<string[s]>>) /\ At(from, s + 1, a + l + 1)
  <2>1. PICK h, head : /\ \/ item = In(r) /\ r[1][1] # Caret /\ h = 1 /\ head = <<Opening>>
                          \/ item = NotIn(r) /\ h = 2 /\ head = <<Opening, Caret>>
                       /\ w = Bracketed(head, r)
    BY <1>8, WrittenIs, Zenon
  <2>2. PICK set, n : set = SetOf(r) /\ n = Len(set)
    OBVIOUS
  <2>3. /\ head \in Seq(Symbols) /\ h = Len(head) /\ h \in {1, 2}
        /\ head[1] = Opening /\ (h = 2 => head[2] = Caret)
    <3>1. /\ <<Opening>> \in Seq(Symbols) /\ <<Opening, Caret>> \in Seq(Symbols)
          /\ Len(<<Opening>>) = 1 /\ Len(<<Opening, Caret>>) = 2
          /\ <<Opening>>[1] = Opening /\ <<Opening, Caret>>[1] = Opening /\ <<Opening, Caret>>[2] = Caret
      BY DEF Symbols
    <3>2. 1 # 2
      OBVIOUS
    <3> QED
      BY <2>1, <3>1, <3>2, Zenon
  <2>4. BracketAt(w, head, set, h, n)
    BY <1>8, <2>1, <2>2, <2>3, BracketedIs
  <2>5. PICK x : x = a + h + 1
    OBVIOUS
  <2>11. PICK e : e = a + l
    OBVIOUS
  <2>6. l = h + n + 1 /\ SetEnds(pattern, x, e, set)
    <3>1. e <= M
      BY <2>11
    <3> QED
      <4>1. SetStands(pattern, M, r, set, h, n, head, w, a, l, x, e)
        BY <1>8, <2>2, <2>3, <2>4, <2>5, <2>11, <3>1, Zenon DEF SetStands
      <4> QED
        BY <4>1, SetFound
  <2>7. /\ n \in Nat /\ h \in Nat /\ \A y \in 1..h : w[y] = head[y]
        /\ \A y \in 1..n : w[h + y] = set[y]
    BY <2>4, Zenon DEF BracketAt
  <2>8. n > 0 /\ set[1] = r[1][1]
    BY <1>8, <2>2, SetOpen
  <2>9. pattern[p] = Opening
    <3>1. 1 \in 1..h
      BY <2>3
    <3> QED
      BY <1>4, <2>3, <2>7, <3>1, Zenon
  <2>10. SetFrom(pattern, p) = x /\ (x = p + 1 <=> h = 1)
    <3>1. p < M /\ l >= 2 /\ (h = 2 => 2 \in 1..h) /\ (h = 1 => h + 1 = 2) /\ 1 \in 1..n
          /\ (h = 1 => x = p + 1) /\ (h = 2 => x = p + 2) /\ p + 1 # p + 2
      <4>1. n \in Nat /\ h \in {1, 2} /\ n > 0 /\ l = h + n + 1 /\ x = a + h + 1 /\ p = a + 1 /\ a + l <= M
        BY <1>1, <2>3, <2>5, <2>6, <2>7, <2>8, Zenon
      <4> QED
        BY <4>1
    <3>2. CASE h = 2
      <4>1. pattern[p + 1] = Caret
        BY <1>4, <2>3, <2>7, <3>1, <3>2, Zenon
      <4>2. h # 1
        BY <3>2
      <4> QED
        BY <3>1, <3>2, <4>1, <4>2, Zenon DEF SetFrom
    <3>3. CASE h = 1
      <4>1. pattern[p + 1] = r[1][1]
        BY <1>4, <2>7, <2>8, <3>1, <3>3, Zenon
      <4>2. r[1][1] # Caret
        BY <2>1, <3>3
      <4> QED
        BY <3>1, <3>3, <4>1, <4>2, Zenon DEF SetFrom
    <3> QED
      BY <2>3, <3>2, <3>3
  <2>12. MatchSet(string, pattern, s, p, from) <=> (InSet(b, set) <=> h = 1) /\ At(from, s + 1, e + 1)
    <3>1. SetEnds(pattern, x, e, set)
      BY <2>6, <2>11
    <3> QED
      BY <1>5, <2>10, <3>1, Zenon DEF MatchSet, At, SetEnds
  <2>13. MatchOne(string, pattern, s, p, from) <=> MatchSet(string, pattern, s, p, from)
    BY <2>9, Distinct, Zenon DEF MatchOne, Escapes
  <2>14. InSet(b, set) <=> InRanges(b, r)
    BY <1>5, <1>8, <2>2, InSetIs
  <2>15. Len(<<b>>) = 1 /\ <<b>>[1] = b /\ 1 # 2
    OBVIOUS
  <2>16. StandsFor(item, <<b>>) <=> (InSet(b, set) <=> h = 1)
    <3>1. StandsFor(In(r), <<b>>) <=> InRanges(b, r)
      BY <2>15, StandsForIs, Zenon
    <3>2. StandsFor(NotIn(r), <<b>>) <=> ~InRanges(b, r)
      BY <2>15, StandsForIs, Zenon
    <3> QED
      BY <2>1, <2>14, <2>15, <3>1, <3>2, Zenon
  <2> QED
    BY <1>1, <1>3, <1>5, <2>9, <2>11, <2>12, <2>13, <2>16, Distinct, Zenon
<1> QED
  BY <1>6, <1>7, <1>8, Zenon DEF ItemOK

\* An item other than the star stands for one byte.
LEMMA StandsForOne ==
    ASSUME NEW item, ItemOK(item), item # AnyBytes, NEW bytes, StandsFor(item, bytes)
    PROVE  Len(bytes) = 1
<1>1. \A b : Len(<<b>>) = 1
  OBVIOUS
<1>2. CASE item = AnyByte
  BY <1>2, StandsForIs, Zenon
<1>3. CASE item = Byte(item.byte)
  <2>0. PICK c : c = item.byte
    OBVIOUS
  <2>a. item = Byte(c)
    BY <1>3, <2>0, Zenon
  <2>1. bytes = <<c>>
    BY <2>a, StandsForIs, Zenon
  <2> QED
    BY <1>1, <2>1, Zenon
<1>4. CASE item = In(item.ranges) \/ item = NotIn(item.ranges)
  <2>0. PICK r : item = In(r) \/ item = NotIn(r)
    BY <1>4, Zenon
  <2> QED
    <3>1. CASE item = In(r)
      BY <3>1, StandsForIs, Zenon
    <3>2. CASE item = NotIn(r)
      BY <3>2, StandsForIs, Zenon
    <3> QED
      BY <2>0, <3>1, <3>2
<1> QED
  BY <1>2, <1>3, <1>4, Zenon DEF ItemOK

\* No other item begins like a star.
LEMMA FirstSymbol ==
    ASSUME NEW item, ItemOK(item), item # AnyBytes, NEW w, w = WrittenItem(item)
    PROVE  w[1] # Star
<1>1. /\ \A b : <<b>>[1] = b /\ <<Escape, b>>[1] = Escape
      /\ <<Opening>> \in Seq(Symbols) /\ <<Opening, Caret>> \in Seq(Symbols)
      /\ <<Opening, Caret>>[1] = Opening /\ Len(<<Opening>>) = 1 /\ Len(<<Opening, Caret>>) = 2
      /\ 1 \in 1..1 /\ 1 \in 1..2
  BY DEF Symbols
<1>2. CASE item = AnyByte
  BY <1>1, <1>2, WrittenIs, Distinct, Zenon
<1>3. CASE item = Byte(item.byte)
  <2>1. PICK c : c = item.byte
    OBVIOUS
  <2>2. w = IF c \in {Star, Query, Opening, Escape} THEN <<Escape, c>> ELSE <<c>>
    BY <1>3, <2>1, WrittenIs, Zenon
  <2> QED
    BY <1>1, <2>2, Distinct, Zenon
<1>4. ASSUME NEW r, RangesOK(r), item = In(r) \/ item = NotIn(r) PROVE w[1] # Star
  <2>1. PICK h, head : /\ (h = 1 /\ head = <<Opening>>) \/ (h = 2 /\ head = <<Opening, Caret>>)
                       /\ w = Bracketed(head, r)
    BY <1>4, WrittenIs, Zenon
  <2>2. head \in Seq(Symbols) /\ h = Len(head) /\ head[1] = Opening /\ 1 \in 1..h
    BY <1>1, <2>1, Zenon
  <2>3. PICK n : n = Len(SetOf(r))
    OBVIOUS
  <2>4. BracketAt(w, head, SetOf(r), h, n)
    BY <1>4, <2>1, <2>2, <2>3, BracketedIs
  <2> QED
    BY <2>2, <2>4, Distinct, Zenon DEF BracketAt
<1> QED
  BY <1>2, <1>3, <1>4, Zenon DEF ItemOK

\* An item stands for what is between two places of a string.
Spans(item, string, a, b) == StandsFor(item, SubSeq(string, a + 1, b))

\* An item as it stands in a pattern behind the first q symbols.
PartStands(string, L, pattern, M, from, item, w, l, q) ==
    /\ string \in Seq(Bytes) /\ L \in Nat /\ L = Len(string)
    /\ pattern \in Seq(Symbols) /\ M \in Nat /\ M = Len(pattern) /\ Matches(string, pattern, from)
    /\ ItemOK(item) /\ w = WrittenItem(item) /\ l = Len(w)
    /\ q \in Nat /\ q + l <= M /\ Behind(pattern, q, w, l)

\* A pattern matches from an item on if the item stands for a part of the
\* string and the rest of the pattern matches from there.
LEMMA ItemStep ==
    ASSUME NEW string, NEW L, NEW pattern, NEW M, NEW from, NEW item, NEW w, NEW l, NEW q,
           PartStands(string, L, pattern, M, from, item, w, l, q), NEW a \in 0..L
    PROVE  At(from, a + 1, q + 1) <=>
               \E b \in a..L : Spans(item, string, a, b) /\ At(from, b + 1, q + l + 1)
<1>a. /\ string \in Seq(Bytes) /\ L \in Nat /\ L = Len(string)
      /\ pattern \in Seq(Symbols) /\ M \in Nat /\ M = Len(pattern) /\ Matches(string, pattern, from)
      /\ ItemOK(item) /\ w = WrittenItem(item) /\ l = Len(w)
      /\ q \in Nat /\ q + l <= M /\ Behind(pattern, q, w, l)
  BY Zenon DEF PartStands
<1>0. l \in Nat /\ l > 0
  BY <1>a, WrittenItemIs
<1>1. q + 1 \in 1..M /\ q + 1 \in 1..M + 1 /\ a + 1 \in 1..L + 1
  BY <1>a, <1>0
<1>2. \A b \in a..L : \/ b = a /\ Len(SubSeq(string, a + 1, b)) = 0
                      \/ b = a + 1 /\ a < L /\ SubSeq(string, a + 1, b) = <<string[a + 1]>>
                      \/ b > a + 1 /\ Len(SubSeq(string, a + 1, b)) > 1
  <2> TAKE b \in a..L
  <2>0. b \in Int /\ a + 1 \in Int /\ a \in Int
    BY <1>a
  <2>1. \A i \in a + 1..b : string[i] \in Bytes
    <3>1. \A i \in a + 1..b : i \in 1..L
      BY <1>a
    <3> QED
      BY <1>a, <3>1, ElementOfSeq
  <2>2. PICK u, c : u = SubSeq(string, c, b) /\ c = a + 1
    BY <1>a
  <2>3. c \in Int /\ \A i \in c..b : string[i] \in Bytes
    BY <1>a, <2>0, <2>1, <2>2, Zenon
  <2>4. u \in Seq(Bytes) /\ (Len(u) = IF c <= b THEN b - c + 1 ELSE 0) /\ \A i \in 1..b - c + 1 : u[i] = string[c + i - 1]
    BY <1>a, <2>0, <2>2, <2>3, SubSeqProperties
  <2>5. CASE b = a
    BY <1>a, <2>2, <2>4, <2>5
  <2>6. CASE b = a + 1
    <3>1. Len(u) = 1 /\ 1 \in 1..b - c + 1 /\ c + 1 - 1 = a + 1
      BY <1>a, <2>0, <2>2, <2>4, <2>6
    <3>2. u[1] = string[c + 1 - 1]
      BY <1>a, <2>4, <3>1, Zenon
    <3>3. u = <<string[a + 1]>>
      BY <1>a, <2>4, <3>1, <3>2
    <3>4. a < L
      BY <1>a, <2>6
    <3> QED
      BY <1>a, <2>2, <2>6, <3>3, <3>4, Zenon
  <2>7. CASE b > a + 1
    <3>1. Len(u) > 1
      BY <1>a, <2>0, <2>2, <2>4, <2>7
    <3> QED
      BY <1>a, <2>2, <2>7, <3>1, Zenon
  <2> QED
    BY <1>a, <2>0, <2>5, <2>6, <2>7
<1>3. CASE item # AnyBytes
  <2>1. \A b \in a..L : Spans(item, string, a, b) <=>
                           b = a + 1 /\ a < L /\ StandsFor(item, <<string[a + 1]>>)
    <3> TAKE b \in a..L
    <3>1. StandsFor(item, SubSeq(string, a + 1, b)) => Len(SubSeq(string, a + 1, b)) = 1
      BY <1>a, <1>3, StandsForOne, Zenon
    <3>2. \/ b = a /\ Len(SubSeq(string, a + 1, b)) = 0
          \/ b = a + 1 /\ a < L /\ SubSeq(string, a + 1, b) = <<string[a + 1]>>
          \/ b > a + 1 /\ Len(SubSeq(string, a + 1, b)) > 1
      BY <1>a, <1>2
    <3>3. CASE b = a + 1
      <4>1. a < L /\ SubSeq(string, a + 1, b) = <<string[a + 1]>>
        BY <1>a, <3>2, <3>3
      <4> QED
        BY <1>a, <3>3, <4>1, Zenon DEF Spans
    <3>4. CASE b # a + 1
      <4>1. PICK z : z = Len(SubSeq(string, a + 1, b))
        BY <1>a
      <4>2. z = 0 \/ z > 1
        BY <1>a, <3>2, <3>4, <4>1, Zenon
      <4>3. z # 1
        BY <1>a, <4>2
      <4> QED
        BY <1>a, <3>1, <3>4, <4>1, <4>3, Zenon DEF Spans
    <3> QED
      BY <1>a, <3>3, <3>4
  <2>2. CASE a < L
    <3>1. PICK s, t : s = a + 1 /\ t = q + l + 1
      BY <1>a
    <3>2. s \in 1..L /\ s \in a..L
      BY <1>a, <2>2, <3>1
    <3>3. string[s] \in Bytes
      BY <1>a, <3>2, ElementOfSeq
    <3>4. At(from, s, q + 1) <=> StandsFor(item, <<string[s]>>) /\ At(from, s + 1, q + l + 1)
      BY <1>a, <1>3, <3>2, <3>3, ItemMatches, Zenon
    <3> QED
      BY <1>a, <2>1, <2>2, <3>1, <3>2, <3>4, Zenon
  <2>3. CASE ~(a < L)
    <3>1. a = L /\ q + 1 \in q + 1..M
      BY <1>a, <1>1, <2>3
    <3>2. pattern[q + 1] = w[1] /\ w[1] # Star
      <4>1. 1 \in 1..l
        BY <1>a, <1>0
      <4> QED
        BY <1>a, <1>3, <4>1, FirstSymbol, Zenon DEF Behind
    <3>3. ~At(from, L + 1, q + 1)
      <4>1. At(from, L + 1, q + 1) <=> \A x \in q + 1..M : pattern[x] = Star
        BY <1>a, <1>1, AtEnd
      <4> QED
        BY <1>a, <3>1, <3>2, <4>1, Zenon
    <3> QED
      BY <1>a, <2>1, <2>3, <3>1, <3>3, Zenon
  <2> QED
    BY <1>a, <2>2, <2>3
<1>4. CASE item = AnyBytes
  <2>1. w = <<Star>> /\ \A b : Spans(item, string, a, b)
    BY <1>a, <1>4, WrittenIs, StandsForIs, Zenon DEF Spans
  <2>2. l = 1 /\ w[1] = Star /\ 1 \in 1..l
    BY <1>a, <2>1
  <2>3. pattern[q + 1] = Star
    BY <1>a, <2>2, Zenon DEF Behind
  <2>4. PICK p, t : p = q + 1 /\ t = p + 1
    BY <1>a
  <2>5. p \in 1..M /\ t \in 1..M + 1 /\ q + l + 1 = t
    BY <1>a, <1>1, <2>2, <2>4
  <2>a. PICK s : s = a + 1
    BY <1>a
  <2>b. s \in 1..L + 1 /\ pattern[p] = Star
    BY <1>a, <1>1, <2>3, <2>4, <2>a, Zenon
  <2>c. At(from, s, p) <=> \/ \A x \in p..M : pattern[x] = Star
                          \/ \E x \in s..L : At(from, x, p + 1)
    <3>1. p \in 1..M
      BY <1>a, <2>5
    <3> QED
      <4>1. At(from, s, p) <=> StarFrom(pattern, M, L, from, s, p)
        BY <1>a, <2>b, <3>1, StarAt
      <4> QED
        BY <4>1, Zenon DEF StarFrom
  <2>6. At(from, a + 1, p) <=> \/ \A x \in p..M : pattern[x] = Star
                               \/ \E x \in a + 1..L : At(from, x, p + 1)
    BY <1>a, <2>a, <2>c, Zenon
  <2>7. At(from, L + 1, t) <=> \A x \in t..M : pattern[x] = Star
    BY <1>a, <2>5, AtEnd, SMTT(60)
  <2>8. (\A x \in p..M : pattern[x] = Star) <=> \A x \in t..M : pattern[x] = Star
    <3>1. \A x \in p..M : x = p \/ x \in t..M
      BY <1>a, <2>4, <2>5
    <3>2. \A x \in t..M : x \in p..M
      BY <1>a, <2>4, <2>5
    <3> QED
      BY <1>a, <2>3, <2>4, <3>1, <3>2, Zenon
  <2>9. (\E x \in a + 1..L : At(from, x, t)) \/ At(from, L + 1, t) <=> \E b \in a..L : At(from, b + 1, t)
    <3>1. ASSUME NEW x \in a + 1..L, At(from, x, t) PROVE \E b \in a..L : At(from, b + 1, t)
      <4>1. x - 1 \in a..L /\ (x - 1) + 1 = x
        BY <1>a
      <4> QED
        BY <1>a, <3>1, <4>1, Zenon
    <3>2. L \in a..L
      BY <1>a
    <3>3. ASSUME NEW b \in a..L, At(from, b + 1, t), b # L PROVE \E x \in a + 1..L : At(from, x, t)
      <4>1. b + 1 \in a + 1..L
        BY <1>a, <3>3
      <4> QED
        BY <1>a, <3>3, <4>1, Zenon
    <3> QED
      BY <1>a, <3>1, <3>2, <3>3, Zenon
  <2> QED
    BY <1>a, <2>1, <2>4, <2>5, <2>6, <2>7, <2>8, <2>9, Zenon
<1> QED
  BY <1>a, <1>3, <1>4

\* How the items of a pattern reach from place to place of a string.
Reaches(items, string, n, L, reached) ==
    /\ reached \in [0..n -> SUBSET (0..L)] /\ reached[0] = {0}
    /\ \A k \in 1..n : \A b \in 0..L :
          b \in reached[k] <=> \E a \in reached[k - 1] : b \in a..L /\ Spans(items[k], string, a, b)

\* The function by which Fits is told.
ReachedBy(items, string, n, L, g) ==
    g = [x \in 0..n |-> IF x = 0 THEN {0}
                        ELSE UNION {{b \in a..L : StandsFor(items[x], SubSeq(string, a + 1, b))} :
                                       a \in g[x - 1]}]

\* There is such a function, and it says how far the items reach.
LEMMA ReachesIs ==
    ASSUME NEW items, NEW n \in Nat, NEW string, NEW L \in Nat
    PROVE  /\ \E g : ReachedBy(items, string, n, L, g)
           /\ \A g : ReachedBy(items, string, n, L, g) => Reaches(items, string, n, L, g)
<1> DEFINE D == SUBSET (0..L)
           Step(x, e) == UNION {{b \in a..L : StandsFor(items[x], SubSeq(string, a + 1, b))} : a \in e}
           h == [x \in 1..n |-> [e \in D |-> Step(x, e)]]
           U(g) == g = [x \in 0..n |-> IF x = 0 THEN {0} ELSE Step(x, g[x - 1])]
<1>a. ASSUME NEW x, NEW e \in D PROVE Step(x, e) \in D
  <2>1. ASSUME NEW b, b \in Step(x, e) PROVE b \in 0..L
    <3>1. PICK a \in e : b \in a..L
      BY <2>1
    <3>2. a \in 0..L
      OBVIOUS
    <3> QED
      BY <3>1, <3>2
  <2> HIDE DEF Step
  <2> QED
    BY <2>1
<1>1. \A x \in 1..n : \A e \in D : h[x][e] = Step(x, e) /\ h[x][e] \in D
  <2> HIDE DEF Step, D
  <2> QED
    BY <1>a
<1>2. PICK f \in [0..n -> D] : Recurs(f, n, {0}, h)
  <2> HIDE DEF h, D
  <2>1. {0} \in D
    BY DEF D
  <2>2. PICK d : d = {0}
    OBVIOUS
  <2>3. d \in D /\ \A x \in 1..n : \A e \in D : h[x][e] \in D
    BY <1>1, <2>1, <2>2
  <2>4. \E f \in [0..n -> D] : Recurs(f, n, d, h)
    BY <2>3, Recursion
  <2> QED
    BY <2>2, <2>4
<1>3. f[0] = {0} /\ \A x \in 1..n : f[x] = h[x][f[x - 1]]
  BY <1>2, Zenon DEF Recurs
<1>4. \A x \in 1..n : f[x] = Step(x, f[x - 1])
  <2> TAKE x \in 1..n
  <2>1. x - 1 \in 0..n
    OBVIOUS
  <2> HIDE DEF h, D
  <2>2. f[x - 1] \in D
    BY <1>2, <2>1
  <2> QED
    BY <1>1, <1>3, <2>2, Zenon
<1>5. U(f)
  <2>1. f = [x \in 0..n |-> f[x]]
    <3> HIDE DEF D
    <3> QED
      BY <1>2, Zenon
  <2>2. ASSUME NEW x \in 0..n PROVE f[x] = IF x = 0 THEN {0} ELSE Step(x, f[x - 1])
    <3> HIDE DEF Step
    <3>1. CASE x = 0
      BY <1>3, <3>1
    <3>2. CASE x # 0
      <4>1. x \in 1..n
        BY <3>2
      <4> QED
        BY <1>4, <3>2, <4>1, Zenon
    <3> QED
      BY <3>1, <3>2
  <2> HIDE DEF Step
  <2> QED
    BY <2>1, <2>2, Zenon
<1>6. ReachedBy(items, string, n, L, f)
  BY <1>5, Zenon DEF ReachedBy
<1>7. ASSUME NEW g, ReachedBy(items, string, n, L, g) PROVE Reaches(items, string, n, L, g)
  <2>6. U(g)
    BY <1>7, Zenon DEF ReachedBy
  <2>8. g[0] = {0} /\ \A x \in 1..n : g[x] = Step(x, g[x - 1])
    <3> HIDE DEF Step
    <3>1. \A x \in 0..n : g[x] = IF x = 0 THEN {0} ELSE Step(x, g[x - 1])
      BY <2>6, Zenon
    <3>2. 0 \in 0..n /\ \A x \in 1..n : x \in 0..n /\ x # 0
      OBVIOUS
    <3> QED
      BY <3>1, <3>2, Zenon
  <2> DEFINE T == {m \in 0..n : g[m] \in D}
  <2>9. \A m \in 0..n : m \in T
    <3>1. 0 \in T
      BY <2>8
    <3>2. \A m \in 1..n : m - 1 \in T => m \in T
      <4> TAKE m \in 1..n
      <4> HAVE m - 1 \in T
      <4>1. g[m] \in D /\ m \in 0..n
        <5> HIDE DEF Step, D
        <5> QED
          BY <2>8, <1>a
      <4> QED
        BY <4>1
    <3> HIDE DEF T
    <3> QED
      BY <3>1, <3>2, Upwards
  <2>10. g \in [0..n -> D]
    <3>1. g = [x \in 0..n |-> g[x]]
      BY <2>6, Zenon
    <3>2. \A x \in 0..n : g[x] \in D
      BY <2>9
    <3> HIDE DEF D
    <3> QED
      BY <3>1, <3>2
  <2>11. ASSUME NEW k \in 1..n, NEW b
         PROVE  b \in g[k] <=> \E a \in g[k - 1] : b \in a..L /\ Spans(items[k], string, a, b)
    <3>1. g[k] = Step(k, g[k - 1])
      BY <2>8
    <3>2. ASSUME b \in Step(k, g[k - 1]) PROVE \E a \in g[k - 1] : b \in a..L /\ Spans(items[k], string, a, b)
      <4>1. PICK a \in g[k - 1] : b \in {c \in a..L : StandsFor(items[k], SubSeq(string, a + 1, c))}
        BY <3>2, Zenon
      <4> QED
        BY <4>1, Zenon DEF Spans
    <3>3. ASSUME NEW a \in g[k - 1], b \in a..L, Spans(items[k], string, a, b) PROVE b \in Step(k, g[k - 1])
      <4>1. b \in {c \in a..L : StandsFor(items[k], SubSeq(string, a + 1, c))}
        BY <3>3, Zenon DEF Spans
      <4> QED
        BY <4>1, Zenon
    <3> HIDE DEF Step
    <3> QED
      BY <3>1, <3>2, <3>3, Zenon
  <2>12. Reaches(items, string, n, L, g)
    BY <2>8, <2>10, <2>11, Zenon DEF Reaches
  <2> QED
    BY <2>12
<1> QED
  BY <1>6, <1>7

\* Items fit a string if they reach its end.
LEMMA FitsIs ==
    ASSUME NEW items, NEW n \in Nat, n = Len(items), NEW string, NEW L \in Nat, L = Len(string)
    PROVE  \E reached : Reaches(items, string, n, L, reached) /\ (Fits(items, string) <=> L \in reached[n])
<1> DEFINE g == CHOOSE g : ReachedBy(items, string, Len(items), Len(string), g)
<1>1. Fits(items, string) <=> Len(string) \in g[Len(items)]
  BY Zenon DEF Fits, ReachedBy
<1>2. ReachedBy(items, string, n, L, g)
  <2>1. \E f : ReachedBy(items, string, n, L, f)
    BY ReachesIs
  <2>2. \E f : ReachedBy(items, string, Len(items), Len(string), f)
    BY <2>1, Zenon
  <2>3. ReachedBy(items, string, Len(items), Len(string), g)
    BY <2>2, Zenon
  <2> QED
    BY <2>3, Zenon
<1> HIDE DEF g
<1>3. Reaches(items, string, n, L, g)
  BY <1>2, ReachesIs
<1>4. Fits(items, string) <=> L \in g[n]
  BY <1>1, Zenon
<1> QED
  BY <1>3, <1>4, Zenon

\* ms_globmatch() (selection.c:811-924) finds a string to match a pattern, as it
\* is written, just if the string is one that the items of the pattern stand
\* for one behind the other, whatever bytes there are, and for every string.
THEOREM GlobIsRight ==
    ASSUME NEW S, NEW items \in Seq(S), PatternOK(items), NEW string \in Seq(Bytes)
    PROVE  Glob(string, Written(items)) <=> Fits(items, string)
<1>0. PICK n, L, pattern, M :
           /\ n = Len(items) /\ L = Len(string)
           /\ pattern = Written(items) /\ M = Len(pattern)
  OBVIOUS
<1> DEFINE w == [x \in DOMAIN items |-> WrittenItem(items[x])]
<1>1. n \in Nat /\ L \in Nat /\ DOMAIN items = 1..n
  BY <1>0, LenProperties
<1>2. \A k \in 1..n : /\ ItemOK(items[k]) /\ WrittenItem(items[k]) \in Seq(Symbols)
                      /\ Len(WrittenItem(items[k])) \in Nat
  BY <1>1, WrittenItemIs, Zenon DEF PatternOK
<1>3. w \in Seq(Seq(Symbols)) /\ Len(w) = n /\ \A k \in 1..n : w[k] = WrittenItem(items[k])
  BY <1>1, <1>2
<1>4. pattern = FlattenSeq(w)
  BY <1>0, Zenon DEF Written
<1> HIDE DEF w
<1>5. pattern \in Seq(Symbols) /\ \E o : PartsAt(pattern, w, o)
  BY <1>3, <1>4, FlattenPlaces
<1>6. PICK o : PartsAt(pattern, w, o)
  BY <1>5
<1>7. /\ o \in [0..n -> Nat] /\ o[0] = 0 /\ M = o[n]
      /\ \A k \in 1..n :
          /\ o[k] = o[k - 1] + Len(w[k]) /\ o[k] <= o[n]
          /\ \A j \in 1..Len(w[k]) : pattern[o[k - 1] + j] = w[k][j]
  BY <1>0, <1>3, <1>6, Zenon DEF PartsAt
<1>8. M \in Nat
  BY <1>0, <1>5, LenProperties
<1>9. PICK from : Matches(string, pattern, from) /\ Glob(string, pattern) = At(from, 1, 1)
  BY <1>0, <1>1, <1>8, GlobIs
<1>10. PICK reached : Reaches(items, string, n, L, reached) /\ (Fits(items, string) <=> L \in reached[n])
  BY <1>0, <1>1, FitsIs
<1>11. /\ reached \in [0..n -> SUBSET (0..L)] /\ reached[0] = {0}
       /\ \A k \in 1..n : \A b \in 0..L :
             b \in reached[k] <=> \E a \in reached[k - 1] : b \in a..L /\ Spans(items[k], string, a, b)
  BY <1>10, Zenon DEF Reaches
<1>12. ASSUME NEW k \in 1..n, NEW a \in 0..L
       PROVE  At(from, a + 1, o[k - 1] + 1) <=>
                 \E b \in a..L : Spans(items[k], string, a, b) /\ At(from, b + 1, o[k] + 1)
  <2>1. PICK q, l, item, v : q = o[k - 1] /\ l = Len(w[k]) /\ item = items[k] /\ v = w[k]
    OBVIOUS
  <2>2. k - 1 \in 0..n /\ q \in Nat
    <3>1. k - 1 \in 0..n
      BY <1>1
    <3> QED
      BY <1>7, <2>1, <3>1, Zenon
  <2>3. /\ ItemOK(item) /\ v = WrittenItem(item) /\ l = Len(v) /\ o[k] = q + l
        /\ q + l <= M /\ Behind(pattern, q, v, l)
    BY <1>2, <1>3, <1>7, <2>1, Zenon DEF Behind
  <2>4. At(from, a + 1, q + 1) <=>
               \E b \in a..L : Spans(item, string, a, b) /\ At(from, b + 1, q + l + 1)
    <3>1. PartStands(string, L, pattern, M, from, item, v, l, q)
      BY <1>0, <1>1, <1>5, <1>8, <1>9, <2>2, <2>3, Zenon DEF PartStands
    <3> QED
      BY <3>1, ItemStep
  <2> QED
    BY <2>1, <2>3, <2>4, Zenon
<1> DEFINE Holds(k) == At(from, 1, 1) <=> \E a \in reached[k] : At(from, a + 1, o[k] + 1)
           T == {k \in 0..n : Holds(k)}
<1>13. \A k \in 0..n : k \in T
  <2>1. 0 \in T
    <3>1. 0 + 1 = 1 /\ 0 \in 0..n
      BY <1>1
    <3>2. Holds(0)
      BY <1>7, <1>11, <3>1, Zenon
    <3> QED
      BY <3>1, <3>2
  <2>2. ASSUME NEW k \in 1..n, k - 1 \in T PROVE k \in T
    <3>1. Holds(k - 1)
      BY <2>2
    <3>2. k \in 0..n /\ k - 1 \in 0..n
      BY <1>1
    <3>3. reached[k - 1] \subseteq 0..L /\ reached[k] \subseteq 0..L
      BY <1>11, <3>2
    <3>4. ASSUME NEW a \in reached[k - 1], At(from, a + 1, o[k - 1] + 1)
          PROVE  \E b \in reached[k] : At(from, b + 1, o[k] + 1)
      <4>1. a \in 0..L
        BY <3>3
      <4>2. PICK b \in a..L : Spans(items[k], string, a, b) /\ At(from, b + 1, o[k] + 1)
        BY <1>12, <3>4, <4>1
      <4>3. b \in 0..L
        BY <4>1
      <4>4. b \in reached[k]
        BY <1>11, <4>2, <4>3, Zenon
      <4> QED
        BY <4>2, <4>4
    <3>5. ASSUME NEW b \in reached[k], At(from, b + 1, o[k] + 1)
          PROVE  \E a \in reached[k - 1] : At(from, a + 1, o[k - 1] + 1)
      <4>1. b \in 0..L
        BY <3>3
      <4>2. PICK a \in reached[k - 1] : b \in a..L /\ Spans(items[k], string, a, b)
        BY <1>11, <4>1, Zenon
      <4>3. a \in 0..L
        BY <3>3
      <4>4. At(from, a + 1, o[k - 1] + 1)
        BY <1>12, <3>5, <4>2, <4>3, Zenon
      <4> QED
        BY <4>4
    <3>6. Holds(k)
      BY <3>1, <3>4, <3>5, Zenon
    <3> HIDE DEF Holds
    <3> QED
      BY <3>2, <3>6
  <2> HIDE DEF T
  <2> QED
    BY <1>1, <2>1, <2>2, Upwards
<1>14. n \in 0..n /\ Holds(n)
  <2>1. n \in 0..n
    BY <1>1
  <2> QED
    BY <1>13, <2>1
<1>15. \A a \in reached[n] : At(from, a + 1, o[n] + 1) <=> a = L
  <2> TAKE a \in reached[n]
  <2>1. a \in 0..L
    BY <1>11, <1>14
  <2>2. PICK s : s = a + 1
    OBVIOUS
  <2>3. s \in 1..L + 1 /\ (s = L + 1 <=> a = L)
    BY <1>1, <2>1, <2>2
  <2>4. At(from, s, M + 1) <=> s = L + 1
    BY <1>0, <1>1, <1>8, <1>9, <2>3, AtEnd
  <2> QED
    BY <1>7, <2>2, <2>3, <2>4, Zenon
<1>16. At(from, 1, 1) <=> L \in reached[n]
  BY <1>14, <1>15, Zenon
<1> QED
  BY <1>0, <1>9, <1>10, <1>16, Zenon

\* Places of a string at which it is cut so that the items stand for the pieces.
CutsTo(items, string, L, k, b, cut) ==
    /\ cut \in [0..k -> 0..L] /\ cut[0] = 0 /\ cut[k] = b
    /\ \A j \in 1..k : cut[j - 1] <= cut[j] /\ Spans(items[j], string, cut[j - 1], cut[j])

\* Items fit a string if it can be cut into pieces that they stand for.
LEMMA FitsCuts ==
    ASSUME NEW items, NEW n \in Nat, n = Len(items), NEW string, NEW L \in Nat, L = Len(string)
    PROVE  Fits(items, string) <=> \E cut : CutsTo(items, string, L, n, L, cut)
<1>1. PICK reached : Reaches(items, string, n, L, reached) /\ (Fits(items, string) <=> L \in reached[n])
  BY FitsIs
<1>2. /\ reached \in [0..n -> SUBSET (0..L)] /\ reached[0] = {0}
      /\ \A k \in 1..n : \A b \in 0..L :
            b \in reached[k] <=> \E a \in reached[k - 1] : b \in a..L /\ Spans(items[k], string, a, b)
  BY <1>1, Zenon DEF Reaches
<1> DEFINE Cut(k) == \A b \in reached[k] : \E cut : CutsTo(items, string, L, k, b, cut)
           T == {k \in 0..n : Cut(k)}
<1>3. \A k \in 0..n : k \in T
  <2>1. 0 \in T
    <3> DEFINE cut == [x \in 0..0 |-> 0]
    <3>1. CutsTo(items, string, L, 0, 0, cut)
      BY DEF CutsTo
    <3> HIDE DEF cut
    <3>2. Cut(0)
      BY <1>2, <3>1
    <3> QED
      BY <3>2
  <2>2. ASSUME NEW k \in 1..n, k - 1 \in T PROVE k \in T
    <3>0. k \in 0..n /\ k - 1 \in 0..n /\ k \in Nat /\ k - 1 \in Nat
      OBVIOUS
    <3>1. ASSUME NEW b \in reached[k] PROVE \E cut : CutsTo(items, string, L, k, b, cut)
      <4>1. b \in 0..L
        BY <1>2, <3>0
      <4>2. PICK a \in reached[k - 1] : b \in a..L /\ Spans(items[k], string, a, b)
        BY <1>2, <4>1
      <4>3. PICK c : CutsTo(items, string, L, k - 1, a, c)
        BY <2>2
      <4>4. /\ c \in [0..k - 1 -> 0..L] /\ c[0] = 0 /\ c[k - 1] = a
            /\ \A j \in 1..k - 1 : c[j - 1] <= c[j] /\ Spans(items[j], string, c[j - 1], c[j])
        BY <4>3, Zenon DEF CutsTo
      <4> DEFINE cut == [x \in 0..k |-> IF x = k THEN b ELSE c[x]]
      <4>5. cut \in [0..k -> 0..L] /\ cut[0] = 0 /\ cut[k] = b
        BY <3>0, <4>1, <4>4
      <4>6. \A j \in 0..k - 1 : cut[j] = c[j]
        BY <3>0
      <4> HIDE DEF cut
      <4>7. ASSUME NEW j \in 1..k PROVE cut[j - 1] <= cut[j] /\ Spans(items[j], string, cut[j - 1], cut[j])
        <5>1. j - 1 \in 0..k - 1
          OBVIOUS
        <5>2. CASE j = k
          <6>1. cut[j - 1] = a /\ cut[j] = b
            BY <4>4, <4>5, <4>6, <5>1, <5>2
          <6>2. a <= b
            BY <4>2
          <6> QED
            BY <4>2, <5>2, <6>1, <6>2, Zenon
        <5>3. CASE j # k
          <6>1. j \in 1..k - 1 /\ j \in 0..k - 1
            BY <5>3
          <6> QED
            BY <4>4, <4>6, <5>1, <6>1, Zenon
        <5> QED
          BY <5>2, <5>3
      <4> QED
        BY <4>5, <4>7, Zenon DEF CutsTo
    <3> QED
      BY <3>0, <3>1
  <2> HIDE DEF T
  <2> QED
    BY <2>1, <2>2, Upwards
<1>4. ASSUME NEW cut, CutsTo(items, string, L, n, L, cut) PROVE L \in reached[n]
  <2>1. /\ cut \in [0..n -> 0..L] /\ cut[0] = 0 /\ cut[n] = L
        /\ \A j \in 1..n : cut[j - 1] <= cut[j] /\ Spans(items[j], string, cut[j - 1], cut[j])
    BY <1>4, Zenon DEF CutsTo
  <2> DEFINE R == {k \in 0..n : cut[k] \in reached[k]}
  <2>2. \A k \in 0..n : k \in R
    <3>1. 0 \in R
      BY <1>2, <2>1
    <3>2. ASSUME NEW k \in 1..n, k - 1 \in R PROVE k \in R
      <4>1. PICK a, b : a = cut[k - 1] /\ b = cut[k]
        OBVIOUS
      <4>2. k - 1 \in 0..n /\ k \in 0..n
        OBVIOUS
      <4>3. a \in 0..L /\ b \in 0..L /\ a <= b /\ Spans(items[k], string, a, b) /\ a \in reached[k - 1]
        BY <2>1, <3>2, <4>1, <4>2
      <4>4. b \in a..L
        BY <4>3
      <4>5. b \in reached[k]
        BY <1>2, <4>3, <4>4, Zenon
      <4> QED
        BY <4>1, <4>2, <4>5
    <3> HIDE DEF R
    <3> QED
      BY <3>1, <3>2, Upwards
  <2>3. n \in 0..n
    OBVIOUS
  <2> QED
    BY <2>1, <2>2, <2>3
<1>5. n \in 0..n
  OBVIOUS
<1>6. n \in T
  <2> HIDE DEF T
  <2> QED
    BY <1>3, <1>5
<1> QED
  BY <1>1, <1>4, <1>6, Zenon

\* A part of one of two sequences is a part of both put together.
LEMMA PartOfFirst ==
    ASSUME NEW s \in Seq(Bytes), NEW t \in Seq(Bytes), NEW a \in Nat, NEW b \in Nat, a <= b, b <= Len(s)
    PROVE  SubSeq(s \o t, a + 1, b) = SubSeq(s, a + 1, b)
<1>1. PICK m, u, c : m = Len(s) /\ u = s \o t /\ c = a + 1
  OBVIOUS
<1>2. m \in Nat /\ \A i \in 1..m : u[i] = s[i] /\ s[i] \in Bytes
  <2>1. m \in Nat /\ Len(t) \in Nat /\ \A i \in 1..m + Len(t) : u[i] = IF i <= m THEN s[i] ELSE t[i - m]
    BY <1>1, ConcatProperties, LenProperties
  <2>2. \A i \in 1..m : i \in 1..m + Len(t) /\ i <= m
    BY <2>1
  <2>3. \A i \in 1..m : u[i] = s[i]
    BY <2>1, <2>2, Zenon
  <2> QED
    BY <1>1, <2>1, <2>3, ElementOfSeq
<1>3. c \in Int /\ \A i \in c..b : i \in 1..m
  BY <1>1, <1>2
<1>4. /\ \A i \in c..b : u[i] = s[i]
      /\ \A i \in c..b : u[i] \in Bytes
      /\ \A i \in c..b : s[i] \in Bytes
  BY <1>2, <1>3
<1>5. PICK v, w : v = SubSeq(u, c, b) /\ w = SubSeq(s, c, b)
  OBVIOUS
<1>6. v \in Seq(Bytes) /\ (Len(v) = IF c <= b THEN b - c + 1 ELSE 0) /\ \A i \in 1..b - c + 1 : v[i] = u[c + i - 1]
  <2>1. \A i \in c..b : u[i] \in Bytes
    BY <1>4
  <2> QED
    BY <1>3, <2>1, <1>5, SubSeqProperties
<1>7. w \in Seq(Bytes) /\ (Len(w) = IF c <= b THEN b - c + 1 ELSE 0) /\ \A i \in 1..b - c + 1 : w[i] = s[c + i - 1]
  <2>1. \A i \in c..b : s[i] \in Bytes
    BY <1>4
  <2> QED
    BY <1>3, <2>1, <1>5, SubSeqProperties
<1>8. Len(v) = Len(w) /\ \A i \in 1..Len(v) : i \in 1..b - c + 1 /\ c + i - 1 \in c..b
  BY <1>3, <1>6, <1>7
<1>9. \A i \in 1..Len(v) : v[i] = w[i]
  BY <1>4, <1>6, <1>7, <1>8, Zenon
<1>10. v = w
  BY <1>6, <1>7, <1>8, <1>9, SeqEqual
<1> QED
  BY <1>1, <1>5, <1>10, Zenon

\* Likewise of the second, whose places are further on.
LEMMA PartOfSecond ==
    ASSUME NEW s \in Seq(Bytes), NEW t \in Seq(Bytes), NEW a \in Nat, NEW b \in Nat, a <= b, b <= Len(t),
           NEW m, m = Len(s)
    PROVE  SubSeq(s \o t, m + a + 1, m + b) = SubSeq(t, a + 1, b)
<1>1. PICK n, u, c, d, e : n = Len(t) /\ u = s \o t /\ c = a + 1 /\ d = m + a + 1 /\ e = m + b
  OBVIOUS
<1>2. m \in Nat /\ n \in Nat /\ \A i \in 1..n : u[m + i] = t[i] /\ t[i] \in Bytes
  <2>1. m \in Nat /\ n \in Nat /\ \A i \in 1..m + n : u[i] = IF i <= m THEN s[i] ELSE t[i - m]
    BY <1>1, ConcatProperties, LenProperties
  <2>2. \A i \in 1..n : m + i \in 1..m + n /\ ~(m + i <= m) /\ (m + i) - m = i
    BY <2>1
  <2>3. \A i \in 1..n : u[m + i] = t[i]
    BY <2>1, <2>2, Zenon
  <2> QED
    BY <1>1, <2>1, <2>3, ElementOfSeq
<1>3. c \in Int /\ d \in Int /\ e \in Int /\ e - d + 1 = b - c + 1 /\ (d <= e <=> c <= b)
  BY <1>1, <1>2
<1>4. \A i \in d..e : u[i] \in Bytes
  <2> TAKE i \in d..e
  <2>1. PICK j : j = i - m
    OBVIOUS
  <2>2. j \in 1..n /\ m + j = i
    BY <1>1, <1>2, <1>3, <2>1
  <2> QED
    BY <1>2, <2>2, Zenon
<1>5. \A i \in c..b : t[i] \in Bytes
  <2>1. \A i \in c..b : i \in 1..n
    BY <1>1, <1>2
  <2> QED
    BY <1>2, <2>1
<1>6. PICK v, w : v = SubSeq(u, d, e) /\ w = SubSeq(t, c, b)
  OBVIOUS
<1>7. v \in Seq(Bytes) /\ (Len(v) = IF d <= e THEN e - d + 1 ELSE 0) /\ \A i \in 1..e - d + 1 : v[i] = u[d + i - 1]
  BY <1>3, <1>4, <1>6, SubSeqProperties
<1>8. w \in Seq(Bytes) /\ (Len(w) = IF c <= b THEN b - c + 1 ELSE 0) /\ \A i \in 1..b - c + 1 : w[i] = t[c + i - 1]
  BY <1>3, <1>5, <1>6, SubSeqProperties
<1>9. Len(v) = Len(w) /\ \A i \in 1..Len(v) : /\ i \in 1..b - c + 1 /\ i \in 1..e - d + 1
                                             /\ c + i - 1 \in 1..n /\ d + i - 1 = m + (c + i - 1)
  BY <1>1, <1>2, <1>3, <1>7, <1>8
<1>10. \A i \in 1..Len(v) : v[i] = w[i]
  <2> TAKE i \in 1..Len(v)
  <2>1. PICK j : j = c + i - 1
    OBVIOUS
  <2>2. v[i] = u[m + j] /\ w[i] = t[j] /\ j \in 1..n
    BY <1>7, <1>8, <1>9, <2>1, Zenon
  <2> QED
    BY <1>2, <2>2
<1>11. v = w
  BY <1>7, <1>8, <1>9, <1>10, SeqEqual
<1> QED
  BY <1>1, <1>6, <1>11, Zenon

\* Three sequences put together.
Associate(p, q, r) == (p \o q) \o r = p \o (q \o r)

\* It does not matter which two of three sequences are put together first.
LEMMA Associates ==
    ASSUME NEW S, NEW p \in Seq(S), NEW q \in Seq(S), NEW r \in Seq(S)
    PROVE  Associate(p, q, r)
BY ConcatAssociative, SMTT(60) DEF Associate

\* A function on the first numbers is a sequence.
LEMMA AsSeq ==
    ASSUME NEW n \in Nat, NEW S, NEW f \in [1..n -> S]
    PROVE  f \in Seq(S) /\ Len(f) = n
<1>1. f \in Seq(S)
  OBVIOUS
<1>2. DOMAIN f = 1..n /\ DOMAIN f = 1..Len(f) /\ Len(f) \in Nat
  BY <1>1, LenProperties
<1> QED
  BY <1>1, <1>2

\* Items of patterns.
Items ==
    {AnyByte, AnyBytes} \union {Byte(b) : b \in Bytes}
        \union {In(r) : r \in Seq(Bytes \X Bytes)} \union {NotIn(r) : r \in Seq(Bytes \X Bytes)}

\* A pattern that can be written is a sequence of items.
LEMMA ItemsIs ==
    /\ \A item : ItemOK(item) => item \in Items
    /\ \A items : PatternOK(items) => items \in Seq(Items) /\ \A x \in 1..Len(items) : ItemOK(items[x])
<1>1. ASSUME NEW item, ItemOK(item) PROVE item \in Items
  BY <1>1, Zenon DEF ItemOK, RangesOK, Items
<1>2. ASSUME NEW items, PatternOK(items)
      PROVE  items \in Seq(Items) /\ \A x \in 1..Len(items) : ItemOK(items[x])
  <2>1. items \in Seq({items[x] : x \in DOMAIN items}) /\ \A x \in DOMAIN items : ItemOK(items[x])
    BY <1>2, Zenon DEF PatternOK
  <2>2. DOMAIN items = 1..Len(items)
    BY <2>1, LenProperties
  <2>3. {items[x] : x \in DOMAIN items} \subseteq Items
    BY <1>1, <2>1
  <2>4. items \in Seq(Items)
    BY <2>1, <2>3, SeqMonotonic
  <2> QED
    BY <2>1, <2>2, <2>4
<1> QED
  BY <1>1, <1>2

\* A sequence of items that can be written is a pattern.
LEMMA PatternIs ==
    ASSUME NEW items \in Seq(Items), \A x \in 1..Len(items) : ItemOK(items[x])
    PROVE  PatternOK(items)
<1>1. DOMAIN items = 1..Len(items) /\ Len(items) \in Nat
  BY LenProperties
<1> DEFINE T == {items[x] : x \in DOMAIN items}
<1>2. items = [x \in 1..Len(items) |-> items[x]] /\ \A x \in 1..Len(items) : items[x] \in T
  BY <1>1, LenProperties
<1>3. items \in Seq(T)
  <2> HIDE DEF T
  <2>1. PICK n \in Nat : n = Len(items)
    BY <1>1
  <2>2. items \in [1..n -> T]
    BY <1>2, <2>1
  <2> QED
    BY <2>1, <2>2, SMTT(60)
<1> QED
  BY <1>1, <1>3, Zenon DEF PatternOK

-----------------------------------------------------------------------------
(* What is put together is written so, and fits what is put together *)

\* Parts and more parts are put together as both would be alone.
LEMMA FlattenConcat ==
    ASSUME NEW S, NEW parts \in Seq(Seq(S)), NEW more \in Seq(Seq(S))
    PROVE  /\ FlattenSeq(parts) \in Seq(S) /\ FlattenSeq(more) \in Seq(S)
           /\ FlattenSeq(parts \o more) = FlattenSeq(parts) \o FlattenSeq(more)
<1>1. PICK m, n, all, k :
           /\ m \in Nat /\ n \in Nat /\ m = Len(parts) /\ n = Len(more)
           /\ all = parts \o more /\ k = m + n
  BY LenProperties
<1>2. /\ k \in Nat /\ all \in Seq(Seq(S)) /\ k = Len(all)
      /\ \A x \in 1..k : all[x] = IF x <= m THEN parts[x] ELSE more[x - m]
  BY <1>1, ConcatProperties
<1>3. PICK f \in [0..m -> Seq(S)] : Flattens(f, m, parts)
  BY <1>1, FlattenIs
<1>4. PICK g \in [0..n -> Seq(S)] : Flattens(g, n, more)
  BY <1>1, FlattenIs
<1>5. PICK h \in [0..k -> Seq(S)] : Flattens(h, k, all)
  BY <1>2, FlattenIs
<1>6. /\ FlattenSeq(parts) = f[m] /\ f[0] = <<>> /\ \A x \in 1..m : f[x] = f[x - 1] \o parts[x]
      /\ FlattenSeq(more) = g[n] /\ g[0] = <<>> /\ \A x \in 1..n : g[x] = g[x - 1] \o more[x]
      /\ FlattenSeq(all) = h[k] /\ h[0] = <<>> /\ \A x \in 1..k : h[x] = h[x - 1] \o all[x]
  BY <1>3, <1>4, <1>5, Zenon DEF Flattens
<1>7. m \in 0..m /\ n \in 0..n /\ \A x \in 0..m : x \in 0..k
  BY <1>1
<1> DEFINE T == {x \in 0..m : h[x] = f[x]}
<1>8. \A x \in 0..m : x \in T
  <2>1. 0 \in T
    BY <1>1, <1>6
  <2>2. ASSUME NEW x \in 1..m, x - 1 \in T PROVE x \in T
    <3>1. x \in 1..k /\ x \in 0..m /\ all[x] = parts[x]
      BY <1>1, <1>2
    <3> QED
      BY <1>6, <2>2, <3>1, Zenon
  <2> HIDE DEF T
  <2> QED
    BY <1>1, <2>1, <2>2, Upwards
<1>9. h[m] = f[m]
  BY <1>7, <1>8
<1> DEFINE U == {x \in 0..n : h[m + x] = f[m] \o g[x]}
<1>10. f[m] \in Seq(S)
  BY <1>3, <1>7
<1>11. \A x \in 0..n : x \in U
  <2>1. 0 \in U
    <3>1. f[m] \o <<>> = f[m]
      BY <1>10, ConcatEmptySeq
    <3>2. m + 0 = m /\ 0 \in 0..n
      BY <1>1
    <3>3. h[m + 0] = f[m] \o g[0]
      BY <1>6, <1>9, <3>1, <3>2, Zenon
    <3> QED
      BY <3>2, <3>3
  <2>2. ASSUME NEW x \in 1..n, x - 1 \in U PROVE x \in U
    <3>1. PICK y, z : y = m + x /\ z = x - 1
      OBVIOUS
    <3>2. y \in 1..k /\ ~(y <= m) /\ y - m = x /\ y - 1 = m + z /\ z \in 0..n /\ x \in 0..n
      BY <1>1, <3>1
    <3>3. all[y] = more[x] /\ h[y] = h[m + z] \o all[y] /\ g[x] = g[z] \o more[x]
      BY <1>2, <1>6, <3>1, <3>2, Zenon
    <3>4. h[m + z] = f[m] \o g[z]
      BY <2>2, <3>1
    <3>5. g[z] \in Seq(S) /\ more[x] \in Seq(S)
      BY <1>1, <1>4, <3>2, ElementOfSeq
    <3>6. (f[m] \o g[z]) \o more[x] = f[m] \o (g[z] \o more[x])
      <4>1. PICK p, q, r : p = f[m] /\ q = g[z] /\ r = more[x]
        OBVIOUS
      <4>2. p \in Seq(S) /\ q \in Seq(S) /\ r \in Seq(S)
        BY <1>10, <3>5, <4>1, Zenon
      <4>3. Associate(p, q, r)
        BY <4>2, Associates
      <4> QED
        BY <4>1, <4>3 DEF Associate
    <3>7. h[y] = f[m] \o g[x]
      BY <3>3, <3>4, <3>6, Zenon
    <3> QED
      BY <3>1, <3>2, <3>7
  <2> HIDE DEF U
  <2> QED
    BY <1>1, <2>1, <2>2, Upwards
<1>12. h[k] = f[m] \o g[n] /\ g[n] \in Seq(S)
  BY <1>1, <1>4, <1>7, <1>11
<1> QED
  BY <1>1, <1>6, <1>10, <1>12, Zenon

\* One part is left as it is.
LEMMA FlattenOne ==
    ASSUME NEW S, NEW part \in Seq(S)
    PROVE  FlattenSeq(<<part>>) = part
<1>1. PICK parts : parts = <<part>>
  OBVIOUS
<1>2. parts \in Seq(Seq(S)) /\ Len(parts) = 1 /\ parts[1] = part /\ 1 \in Nat
  BY <1>1
<1>3. PICK f \in [0..1 -> Seq(S)] : Flattens(f, 1, parts)
  BY <1>2, FlattenIs
<1>4. FlattenSeq(parts) = f[1] /\ f[0] = <<>> /\ \A x \in 1..1 : f[x] = f[x - 1] \o parts[x]
  BY <1>3, Zenon DEF Flattens
<1>5. f[1] = <<>> \o part
  <2>1. 1 \in 1..1 /\ 1 - 1 = 0
    OBVIOUS
  <2> QED
    BY <1>2, <1>4, <2>1, Zenon
<1> QED
  BY <1>1, <1>4, <1>5, ConcatEmptySeq

\* Of no parts nothing is made.
LEMMA FlattenNone == FlattenSeq(<<>>) = <<>>
<1>1. PICK parts : parts = <<>>
  OBVIOUS
<1>2. parts \in Seq(Seq({})) /\ Len(parts) = 0 /\ 0 \in Nat
  BY <1>1
<1>3. PICK f \in [0..0 -> Seq({})] : Flattens(f, 0, parts)
  BY <1>2, FlattenIs
<1> QED
  BY <1>1, <1>3, Zenon DEF Flattens

\* No items are written as nothing.
LEMMA WrittenNone == Written(<<>>) = <<>>
<1>1. [x \in DOMAIN <<>> |-> WrittenItem(<<>>[x])] = <<>>
  OBVIOUS
<1> QED
  BY <1>1, FlattenNone, Zenon DEF Written

\* Items and more items are written one behind the other.
LEMMA WrittenConcat ==
    ASSUME NEW a, PatternOK(a), NEW b, PatternOK(b)
    PROVE  /\ PatternOK(a \o b)
           /\ Written(a \o b) = Written(a) \o Written(b)
           /\ Written(a) \in Seq(Symbols) /\ Written(b) \in Seq(Symbols)
<1>1. /\ a \in Seq(Items) /\ \A x \in 1..Len(a) : ItemOK(a[x])
      /\ b \in Seq(Items) /\ \A x \in 1..Len(b) : ItemOK(b[x])
  BY ItemsIs
<1>2. PICK m, n, c : m \in Nat /\ n \in Nat /\ m = Len(a) /\ n = Len(b) /\ c = a \o b
  BY <1>1, LenProperties
<1>3. /\ c \in Seq(Items) /\ Len(c) = m + n /\ DOMAIN c = 1..m + n /\ DOMAIN a = 1..m /\ DOMAIN b = 1..n
      /\ \A x \in 1..m + n : c[x] = IF x <= m THEN a[x] ELSE b[x - m]
  <2>1. /\ c \in Seq(Items) /\ Len(c) = m + n
        /\ \A x \in 1..m + n : c[x] = IF x <= m THEN a[x] ELSE b[x - m]
    BY <1>1, <1>2, ConcatProperties
  <2> QED
    BY <1>1, <1>2, <2>1, LenProperties
<1>4. \A x \in 1..m + n : x \in 1..m \/ (~(x <= m) /\ x - m \in 1..n)
  BY <1>2
<1>5. \A x \in 1..m : x <= m
  OBVIOUS
<1>6. PatternOK(c)
  <2>1. \A x \in 1..Len(c) : ItemOK(c[x])
    BY <1>1, <1>2, <1>3, <1>4, <1>5, Zenon
  <2> QED
    BY <1>3, <2>1, PatternIs
<1> DEFINE u == [x \in DOMAIN a |-> WrittenItem(a[x])]
           v == [x \in DOMAIN b |-> WrittenItem(b[x])]
           w == [x \in DOMAIN c |-> WrittenItem(c[x])]
<1>7. /\ \A x \in 1..m : u[x] = WrittenItem(a[x]) /\ u[x] \in Seq(Symbols)
      /\ \A x \in 1..n : v[x] = WrittenItem(b[x]) /\ v[x] \in Seq(Symbols)
      /\ \A x \in 1..m + n : w[x] = WrittenItem(c[x])
  BY <1>1, <1>2, <1>3, WrittenItemIs, Zenon
<1>8. u \in Seq(Seq(Symbols)) /\ v \in Seq(Seq(Symbols)) /\ Len(u) = m /\ Len(v) = n
  <2>1. /\ u = [x \in 1..m |-> u[x]] /\ v = [x \in 1..n |-> v[x]]
    BY <1>3
  <2> HIDE DEF u, v
  <2>2. u \in [1..m -> Seq(Symbols)] /\ v \in [1..n -> Seq(Symbols)]
    BY <1>7, <2>1
  <2>3. PICK D : D = Seq(Symbols)
    OBVIOUS
  <2>4. u \in [1..m -> D] /\ v \in [1..n -> D]
    BY <2>2, <2>3
  <2>5. u \in Seq(D) /\ v \in Seq(D) /\ Len(u) = m /\ Len(v) = n
    BY <1>2, <2>4, AsSeq
  <2> QED
    BY <2>3, <2>5
<1>9. w = u \o v
  <2>1. w = [x \in 1..m + n |-> w[x]]
    BY <1>3
  <2> HIDE DEF u, v, w
  <2>2. PICK z : z = u \o v
    OBVIOUS
  <2>3. /\ z \in Seq(Seq(Symbols)) /\ Len(z) = m + n
        /\ \A x \in 1..m + n : z[x] = IF x <= m THEN u[x] ELSE v[x - m]
    BY <1>8, <2>2, ConcatProperties
  <2>4. z = [x \in 1..m + n |-> z[x]]
    BY <2>3, LenProperties
  <2>5. \A x \in 1..m + n : z[x] = w[x]
    <3> TAKE x \in 1..m + n
    <3>1. CASE x \in 1..m
      BY <1>3, <1>5, <1>7, <2>3, <3>1, Zenon
    <3>2. CASE ~(x <= m) /\ x - m \in 1..n
      BY <1>3, <1>7, <2>3, <3>2, Zenon
    <3> QED
      BY <1>4, <3>1, <3>2
  <2> QED
    BY <2>1, <2>2, <2>4, <2>5
<1>10. Written(a) = FlattenSeq(u) /\ Written(b) = FlattenSeq(v) /\ Written(c) = FlattenSeq(w)
  BY Zenon DEF Written
<1> HIDE DEF u, v, w
<1>11. /\ FlattenSeq(u \o v) = FlattenSeq(u) \o FlattenSeq(v)
       /\ FlattenSeq(u) \in Seq(Symbols) /\ FlattenSeq(v) \in Seq(Symbols)
  BY <1>8, FlattenConcat
<1> QED
  BY <1>2, <1>6, <1>9, <1>10, <1>11, Zenon

\* One item is written as it is alone.
LEMMA WrittenOne ==
    ASSUME NEW item, ItemOK(item)
    PROVE  PatternOK(<<item>>) /\ Written(<<item>>) = WrittenItem(item)
<1>1. PICK items : items = <<item>>
  OBVIOUS
<1>2. /\ items \in Seq(Items) /\ DOMAIN items = 1..1 /\ Len(items) = 1 /\ items[1] = item
  BY <1>1, ItemsIs
<1>3. PatternOK(items)
  BY <1>2, PatternIs
<1>4. [x \in DOMAIN items |-> WrittenItem(items[x])] = <<WrittenItem(item)>>
  BY <1>2
<1>5. FlattenSeq(<<WrittenItem(item)>>) = WrittenItem(item)
  BY WrittenItemIs, FlattenOne
<1> QED
  BY <1>1, <1>3, <1>4, <1>5, Zenon DEF Written

\* Items fit a string and more items more of it: together they fit both.
LEMMA FitsConcat ==
    ASSUME NEW a \in Seq(Items), NEW b \in Seq(Items), NEW s \in Seq(Bytes), NEW t \in Seq(Bytes),
           Fits(a, s), Fits(b, t)
    PROVE  Fits(a \o b, s \o t)
<1>1. PICK m, n, K, L, c, u, p, M :
         /\ m \in Nat /\ n \in Nat /\ K \in Nat /\ L \in Nat
         /\ m = Len(a) /\ n = Len(b) /\ K = Len(s) /\ L = Len(t) /\ c = a \o b /\ u = s \o t
         /\ p = m + n /\ M = K + L
  <2>1. Len(a) \in Nat /\ Len(b) \in Nat /\ Len(s) \in Nat /\ Len(t) \in Nat
    BY LenProperties
  <2> QED
    BY <2>1
<1>2. /\ p \in Nat /\ M \in Nat /\ p = Len(c) /\ M = Len(u)
      /\ \A x \in 1..p : c[x] = IF x <= m THEN a[x] ELSE b[x - m]
  <2>1. /\ Len(c) = Len(a) + Len(b)
        /\ \A x \in 1..Len(a) + Len(b) : c[x] = IF x <= Len(a) THEN a[x] ELSE b[x - Len(a)]
    BY <1>1, ConcatProperties
  <2>2. Len(u) = Len(s) + Len(t)
    BY <1>1, ConcatProperties
  <2> QED
    BY <1>1, <2>1, <2>2
<1>3. PICK d : CutsTo(a, s, K, m, K, d)
  BY <1>1, FitsCuts
<1>4. PICK e : CutsTo(b, t, L, n, L, e)
  BY <1>1, FitsCuts
<1>5. /\ d \in [0..m -> 0..K] /\ d[0] = 0 /\ d[m] = K
      /\ \A j \in 1..m : d[j - 1] <= d[j] /\ Spans(a[j], s, d[j - 1], d[j])
      /\ e \in [0..n -> 0..L] /\ e[0] = 0 /\ e[n] = L
      /\ \A j \in 1..n : e[j - 1] <= e[j] /\ Spans(b[j], t, e[j - 1], e[j])
  BY <1>3, <1>4, Zenon DEF CutsTo
<1> DEFINE cut == [x \in 0..p |-> IF x <= m THEN d[x] ELSE K + e[x - m]]
<1>6. /\ \A x \in 0..m : cut[x] = d[x] /\ d[x] \in 0..K /\ x \in 0..p
      /\ \A x \in 0..n : cut[m + x] = K + e[x] /\ e[x] \in 0..L /\ m + x \in 0..p
  <2>1. \A x \in 0..m : x \in 0..p /\ x <= m
    BY <1>1
  <2>2. \A x \in 0..n : m + x \in 0..p /\ (m + x <= m <=> x = 0) /\ m + x - m = x
    BY <1>1
  <2>3. \A x \in 0..n : cut[m + x] = K + e[x]
    <3> TAKE x \in 0..n
    <3>1. CASE x = 0
      <4>1. m + 0 = m /\ m <= m /\ m \in 0..p /\ K + 0 = K
        BY <1>1
      <4> QED
        BY <1>5, <3>1, <4>1
    <3>2. CASE x # 0
      <4>1. PICK y : y = m + x
        OBVIOUS
      <4>2. y \in 0..p /\ ~(y <= m) /\ y - m = x
        BY <1>1, <2>2, <3>2, <4>1
      <4>3. cut[y] = K + e[y - m]
        BY <4>2, Zenon
      <4> QED
        BY <4>1, <4>2, <4>3, Zenon
    <3> QED
      BY <3>1, <3>2
  <2> HIDE DEF cut
  <2>4. \A x \in 0..n : e[x] \in 0..L
    BY <1>5
  <2>5. \A x \in 0..m : d[x] \in 0..K
    BY <1>5
  <2>6. \A x \in 0..m : cut[x] = d[x]
    BY <2>1, Zenon DEF cut
  <2> QED
    BY <2>1, <2>2, <2>3, <2>4, <2>5, <2>6, Zenon
<1>7. \A x \in 0..p : x \in 0..m \/ (x - m \in 0..n /\ m + (x - m) = x)
  BY <1>1
<1>8. cut = [x \in 0..p |-> cut[x]]
  OBVIOUS
<1> HIDE DEF cut
<1>9. cut \in [0..p -> 0..M]
  <2>1. \A x \in 0..p : cut[x] \in 0..M
    <3> TAKE x \in 0..p
    <3>1. CASE x \in 0..m
      <4>1. cut[x] \in 0..K
        BY <1>6, <3>1, Zenon
      <4> QED
        BY <1>1, <4>1
    <3>2. CASE x - m \in 0..n /\ m + (x - m) = x
      <4>1. PICK y : y = x - m
        OBVIOUS
      <4>2. cut[x] = K + e[y] /\ e[y] \in 0..L
        BY <1>6, <3>2, <4>1
      <4> QED
        BY <1>1, <4>2, SMTT(60)
    <3> QED
      BY <1>7, <3>1, <3>2
  <2> QED
    BY <1>8, <2>1
<1>10. cut[0] = 0 /\ cut[p] = M
  <2>1. 0 \in 0..m /\ n \in 0..n /\ p = m + n
    BY <1>1
  <2> QED
    BY <1>1, <1>5, <1>6, <2>1
<1>11. ASSUME NEW j \in 1..p PROVE cut[j - 1] <= cut[j] /\ Spans(c[j], u, cut[j - 1], cut[j])
  <2>1. CASE j <= m
    <3>1. j \in 1..m /\ j - 1 \in 0..m /\ j \in 0..m
      BY <1>1, <2>1
    <3>2. PICK x, y : x = d[j - 1] /\ y = d[j]
      OBVIOUS
    <3>3. /\ cut[j - 1] = x /\ cut[j] = y /\ x \in 0..K /\ y \in 0..K /\ x <= y
          /\ Spans(a[j], s, x, y) /\ c[j] = a[j]
      BY <1>2, <1>5, <1>6, <2>1, <3>1, <3>2, Zenon
    <3>4. SubSeq(u, x + 1, y) = SubSeq(s, x + 1, y)
      <4>1. x \in Nat /\ y \in Nat /\ y <= Len(s)
        BY <1>1, <3>3
      <4> QED
        BY <1>1, <3>3, <4>1, PartOfFirst
    <3> QED
      BY <3>3, <3>4, Zenon DEF Spans
  <2>2. CASE ~(j <= m)
    <3>1. PICK i : i = j - m
      OBVIOUS
    <3>2. i \in 1..n /\ i - 1 \in 0..n /\ i \in 0..n /\ m + i = j /\ m + (i - 1) = j - 1
      BY <1>1, <2>2, <3>1
    <3>3. PICK x, y : x = e[i - 1] /\ y = e[i]
      OBVIOUS
    <3>4. /\ cut[j - 1] = K + x /\ cut[j] = K + y /\ x \in 0..L /\ y \in 0..L /\ x <= y
          /\ Spans(b[i], t, x, y) /\ c[j] = b[i]
      <4>1. cut[m + (i - 1)] = K + e[i - 1] /\ cut[m + i] = K + e[i] /\ e[i - 1] \in 0..L /\ e[i] \in 0..L
        BY <1>6, <3>2, Zenon
      <4> QED
        BY <1>2, <1>5, <2>2, <3>1, <3>2, <3>3, <4>1, Zenon
    <3>5. SubSeq(u, K + x + 1, K + y) = SubSeq(t, x + 1, y) /\ K + x <= K + y
      <4>1. x \in Nat /\ y \in Nat /\ y <= Len(t)
        BY <1>1, <3>4
      <4>2. K \in Nat /\ x <= y
        BY <1>1, <3>4
      <4> QED
        <5>1. SubSeq(s \o t, K + x + 1, K + y) = SubSeq(t, x + 1, y)
          <6>1. K = Len(s)
            BY <1>1
          <6> QED
            BY <4>1, <4>2, <6>1, PartOfSecond
        <5>2. K + x <= K + y
          BY <4>1, <4>2
        <5> QED
          BY <1>1, <5>1, <5>2, Zenon
    <3> QED
      BY <3>4, <3>5, Zenon DEF Spans
  <2> QED
    BY <2>1, <2>2
<1>12. CutsTo(c, u, M, p, M, cut)
  BY <1>9, <1>10, <1>11, Zenon DEF CutsTo
<1> QED
  BY <1>1, <1>2, <1>12, FitsCuts

\* One item fits what it stands for.
LEMMA FitsOne ==
    ASSUME NEW item, NEW bytes \in Seq(Bytes), StandsFor(item, bytes)
    PROVE  Fits(<<item>>, bytes)
<1>1. PICK L, items : L \in Nat /\ L = Len(bytes) /\ items = <<item>>
  BY LenProperties
<1>2. Len(items) = 1 /\ items[1] = item /\ 1 \in Nat
  BY <1>1
<1> DEFINE cut == [x \in 0..1 |-> IF x = 0 THEN 0 ELSE L]
<1>3. cut \in [0..1 -> 0..L] /\ cut[0] = 0 /\ cut[1] = L
  BY <1>1
<1> HIDE DEF cut
<1>4. SubSeq(bytes, 0 + 1, L) = bytes
  BY <1>1, SubSeqFull
<1>5. \A j \in 1..1 : cut[j - 1] <= cut[j] /\ Spans(items[j], bytes, cut[j - 1], cut[j])
  <2>1. Spans(items[1], bytes, 0, L)
    BY <1>2, <1>4, Zenon DEF Spans
  <2>2. \A j \in 1..1 : j = 1 /\ j - 1 = 0
    OBVIOUS
  <2>3. 0 <= L
    BY <1>1
  <2> QED
    BY <1>3, <2>1, <2>2, <2>3, Zenon
<1>6. CutsTo(items, bytes, L, 1, L, cut)
  BY <1>3, <1>5, Zenon DEF CutsTo
<1> QED
  BY <1>1, <1>2, <1>6, FitsCuts

\* Items that stand for one byte each.
LEMMA StarlessFits ==
    ASSUME NEW items, PatternOK(items), Starless(items), NEW string \in Seq(Bytes), Fits(items, string)
    PROVE  /\ Len(string) = Len(items)
           /\ \A x \in 1..Len(items) : StandsFor(items[x], <<string[x]>>)
<1>0. items \in Seq(Items) /\ \A x \in 1..Len(items) : ItemOK(items[x])
  BY ItemsIs
<1>1. PICK n \in Nat, L \in Nat : n = Len(items) /\ L = Len(string) /\ DOMAIN items = 1..n
  BY <1>0, LenProperties
<1>2. PICK d : CutsTo(items, string, L, n, L, d)
  BY <1>1, FitsCuts
<1>3. /\ d \in [0..n -> 0..L] /\ d[0] = 0 /\ d[n] = L
      /\ \A j \in 1..n : d[j - 1] <= d[j] /\ Spans(items[j], string, d[j - 1], d[j])
  BY <1>2, Zenon DEF CutsTo
<1>4. \A i \in 1..L : string[i] \in Bytes
  BY <1>1, ElementOfSeq
<1>5. ASSUME NEW j \in 1..n
      PROVE  /\ d[j] = d[j - 1] + 1 /\ d[j] \in 1..L
             /\ StandsFor(items[j], <<string[d[j]]>>)
  <2>1. ItemOK(items[j]) /\ items[j] # AnyBytes
    BY <1>0, <1>1, Zenon DEF Starless
  <2>2. PICK x, y, w, v : x = d[j - 1] /\ y = d[j] /\ w = x + 1 /\ v = SubSeq(string, w, y)
    OBVIOUS
  <2>3. x \in 0..L /\ y \in 0..L /\ x <= y
    <3>1. j \in 0..n /\ j - 1 \in 0..n
      BY <1>1
    <3>2. d[j - 1] \in 0..L /\ d[j] \in 0..L
      BY <1>3, <3>1
    <3> QED
      BY <1>3, <2>2, <3>2
  <2>4. StandsFor(items[j], v)
    BY <1>3, <2>2, Zenon DEF Spans
  <2>5. Len(v) = 1
    BY <2>1, <2>4, StandsForOne
  <2>6. \A i \in w..y : string[i] \in Bytes
    <3>1. \A i \in w..y : i \in 1..L
      <4>1. w = x + 1 /\ L \in Nat
        BY <1>1, <2>2
      <4> QED
        BY <2>3, <4>1
    <3> QED
      BY <1>4, <3>1
  <2>7. w \in Int /\ y \in Int /\ x \in Int
    BY <2>2, <2>3, SMTT(60)
  <2>8. v \in Seq(Bytes) /\ (Len(v) = IF w <= y THEN y - w + 1 ELSE 0) /\ \A i \in 1..y - w + 1 : v[i] = string[w + i - 1]
    <3>1. \A i \in w..y : string[i] \in Bytes
      BY <2>6
    <3>2. PICK z : z = SubSeq(string, w, y)
      OBVIOUS
    <3>3. z \in Seq(Bytes) /\ (Len(z) = IF w <= y THEN y - w + 1 ELSE 0) /\ \A i \in 1..y - w + 1 : z[i] = string[w + i - 1]
      BY <2>7, <3>1, <3>2, SubSeqProperties
    <3> QED
      BY <2>2, <3>2, <3>3, Zenon
  <2>9. y = x + 1 /\ 1 \in 1..y - w + 1 /\ w + 1 - 1 = y
    <3>1. Len(v) = IF w <= y THEN y - w + 1 ELSE 0
      BY <2>8
    <3>2. PICK l : l = Len(v)
      OBVIOUS
    <3> QED
      <4>1. w = x + 1 /\ L \in Nat
        BY <1>1, <2>2
      <4>2. 1 = IF w <= y THEN y - w + 1 ELSE 0
        BY <2>5, <3>1
      <4> QED
        BY <2>3, <2>7, <4>1, <4>2
  <2>10. v[1] = string[y]
    BY <2>8, <2>9, Zenon
  <2>11. v = <<string[y]>>
    BY <2>5, <2>8, <2>10
  <2> QED
    <3>1. y \in 1..L
      BY <1>1, <2>3, <2>9
    <3> QED
      BY <2>2, <2>4, <2>9, <2>11, <3>1, Zenon
<1> DEFINE T == {x \in 0..n : d[x] = x}
<1>6. \A x \in 0..n : x \in T
  <2>1. 0 \in T
    BY <1>1, <1>3
  <2>2. ASSUME NEW x \in 1..n, x - 1 \in T PROVE x \in T
    <3>1. d[x - 1] = x - 1 /\ d[x] = d[x - 1] + 1
      BY <1>5, <2>2
    <3>2. x \in 0..n /\ (x - 1) + 1 = x
      BY <1>1
    <3> QED
      BY <3>1, <3>2, Zenon
  <2> HIDE DEF T
  <2> QED
    BY <2>1, <2>2, Upwards
<1>7. d[n] = n /\ \A x \in 1..n : d[x] = x
  BY <1>1, <1>6
<1> QED
  BY <1>1, <1>3, <1>5, <1>7

\* Three items with marks between them.
LEMMA BetweenFits ==
    ASSUME NEW items, PatternOK(items), Starless(items), Len(items) = 3, Mark \in Bytes,
           NEW string \in Seq(Bytes), IsExtended(string), Fits(items, Seed(string))
    PROVE  Fits(Between(items), string) /\ PatternOK(Between(items))
<1>0. items \in Seq(Items) /\ \A x \in 1..Len(items) : ItemOK(items[x])
  BY ItemsIs
<1>1. PICK a, b, c, m : a = items[1] /\ b = items[2] /\ c = items[3] /\ m = Byte(Mark)
  OBVIOUS
<1>2. PICK x, y, z, s : x = string[1] /\ y = string[3] /\ z = string[5] /\ s = <<x, y, z>>
  OBVIOUS
<1>3. Len(string) = 5 /\ string[2] = Mark /\ string[4] = Mark /\ Seed(string) = s
  BY <1>2 DEF IsExtended, Seed
<1>4. x \in Bytes /\ y \in Bytes /\ z \in Bytes
  <2>1. 1 \in 1..5 /\ 3 \in 1..5 /\ 5 \in 1..5
    OBVIOUS
  <2>2. \A i \in 1..5 : string[i] \in Bytes
    BY <1>3, ElementOfSeq
  <2> QED
    BY <1>2, <2>1, <2>2, Zenon
<1>5. s \in Seq(Bytes) /\ s[1] = x /\ s[2] = y /\ s[3] = z
  BY <1>2, <1>4
<1>6. StandsFor(a, <<x>>) /\ StandsFor(b, <<y>>) /\ StandsFor(c, <<z>>)
  <2>1. \A i \in 1..3 : StandsFor(items[i], <<s[i]>>)
    BY <1>3, <1>5, StarlessFits
  <2>2. 1 \in 1..3 /\ 2 \in 1..3 /\ 3 \in 1..3
    OBVIOUS
  <2> QED
    BY <1>1, <1>5, <2>1, <2>2, Zenon
<1>7. ItemOK(a) /\ ItemOK(b) /\ ItemOK(c) /\ ItemOK(m)
  <2>1. ItemOK(m)
    BY <1>1, Kinds, Zenon DEF ItemOK
  <2> QED
    BY <1>0, <1>1, <2>1
<1>8. a \in Items /\ b \in Items /\ c \in Items /\ m \in Items
  BY <1>7, ItemsIs
<1>9. StandsFor(m, <<Mark>>)
  BY <1>1, StandsForIs, Zenon
<1> DEFINE k == Mark
<1>10. k \in Bytes /\ StandsFor(m, <<k>>)
  BY <1>9
<1> HIDE DEF k
<1>11. \A v \in Bytes : <<v>> \in Seq(Bytes)
  OBVIOUS
<1>12. \A v \in Items : <<v>> \in Seq(Items)
  OBVIOUS
<1>13. Fits(<<a>>, <<x>>) /\ Fits(<<m>>, <<k>>) /\ Fits(<<b>>, <<y>>) /\ Fits(<<c>>, <<z>>)
  BY <1>4, <1>6, <1>10, <1>11, FitsOne
<1>14. Fits(<<a, m>>, <<x, k>>)
  <2>1. <<a, m>> = <<a>> \o <<m>> /\ <<x, k>> = <<x>> \o <<k>>
    OBVIOUS
  <2>2. Fits(<<a>> \o <<m>>, <<x>> \o <<k>>)
    BY <1>4, <1>8, <1>10, <1>11, <1>12, <1>13, FitsConcat
  <2> QED
    BY <2>1, <2>2, Zenon
<1>15. Fits(<<a, m, b>>, <<x, k, y>>)
  <2>1. PICK p, q : p = <<a, m>> /\ q = <<x, k>>
    OBVIOUS
  <2>2. p \in Seq(Items) /\ q \in Seq(Bytes) /\ <<a, m, b>> = p \o <<b>> /\ <<x, k, y>> = q \o <<y>>
    BY <1>4, <1>8, <1>10, <2>1
  <2>3. Fits(p \o <<b>>, q \o <<y>>)
    BY <1>4, <1>8, <1>11, <1>12, <1>13, <1>14, <2>1, <2>2, FitsConcat
  <2> QED
    BY <2>2, <2>3, Zenon
<1>16. Fits(<<a, m, b, m>>, <<x, k, y, k>>)
  <2>1. PICK p, q : p = <<a, m, b>> /\ q = <<x, k, y>>
    OBVIOUS
  <2>2. p \in Seq(Items) /\ q \in Seq(Bytes) /\ <<a, m, b, m>> = p \o <<m>> /\ <<x, k, y, k>> = q \o <<k>>
    BY <1>4, <1>8, <1>10, <2>1
  <2>3. Fits(p \o <<m>>, q \o <<k>>)
    BY <1>8, <1>10, <1>11, <1>12, <1>13, <1>15, <2>1, <2>2, FitsConcat
  <2> QED
    BY <2>2, <2>3, Zenon
<1>17. Fits(<<a, m, b, m, c>>, <<x, k, y, k, z>>)
  <2>1. PICK p, q : p = <<a, m, b, m>> /\ q = <<x, k, y, k>>
    OBVIOUS
  <2>2. /\ p \in Seq(Items) /\ q \in Seq(Bytes)
        /\ <<a, m, b, m, c>> = p \o <<c>> /\ <<x, k, y, k, z>> = q \o <<z>>
    BY <1>4, <1>8, <1>10, <2>1
  <2>3. Fits(p \o <<c>>, q \o <<z>>)
    BY <1>4, <1>8, <1>11, <1>12, <1>13, <1>16, <2>1, <2>2, FitsConcat
  <2> QED
    BY <2>2, <2>3, Zenon
<1>18. string = <<x, k, y, k, z>>
  <2>1. string[2] = k /\ string[4] = k
    BY <1>3 DEF k
  <2> QED
    BY <1>2, <1>3, <2>1
<1>19. Between(items) = <<a, m, b, m, c>>
  BY <1>1, Zenon DEF Between
<1>20. PatternOK(<<a, m, b, m, c>>)
  <2>1. PICK p : p = <<a, m, b, m, c>>
    OBVIOUS
  <2>2. p \in Seq(Items) /\ Len(p) = 5
    BY <1>8, <2>1
  <2>3. \A i \in 1..5 : p[i] \in {a, b, c, m}
    BY <2>1
  <2>4. \A i \in 1..Len(p) : ItemOK(p[i])
    BY <1>7, <2>2, <2>3
  <2> QED
    BY <2>1, <2>2, <2>4, PatternIs
<1> QED
  BY <1>17, <1>18, <1>19, <1>20, Zenon

-----------------------------------------------------------------------------
(* The codes of an identifier *)

\* The mark behind a place is the first of those there are.
LEMMA MarkAfterIs ==
    ASSUME NEW sid \in Seq(Bytes), NEW x \in Nat, {y \in Marks(sid) : y > x} # {}
    PROVE  /\ MarkAfter(sid, x) \in Marks(sid) /\ MarkAfter(sid, x) > x
           /\ \A y \in Marks(sid) : y > x => MarkAfter(sid, x) <= y
<1> DEFINE T == {y \in Marks(sid) : y > x}
<1>1. Marks(sid) \subseteq Nat
  BY LenProperties DEF Marks
<1>2. T \subseteq Nat /\ T # {}
  BY <1>1
<1>3. \E y \in T : \A z \in T : y =< z
  <2> HIDE DEF T
  <2> QED
    BY <1>2, LeastIs
<1>4. MarkAfter(sid, x) \in T /\ \A z \in T : MarkAfter(sid, x) =< z
  <2>1. MarkAfter(sid, x) = CHOOSE y \in T : \A z \in T : y =< z
    BY Zenon DEF MarkAfter, Min
  <2> HIDE DEF T
  <2> QED
    BY <1>3, <2>1, Zenon
<1>5. MarkAfter(sid, x) \in Marks(sid) /\ MarkAfter(sid, x) > x
  BY <1>4
<1>6. \A z \in Marks(sid) : z > x => z \in T
  OBVIOUS
<1> HIDE DEF T
<1> QED
  BY <1>4, <1>5, <1>6

MarksBehind(sid, x, n) ==
    IsFiniteSet({y \in Marks(sid) : y > x}) /\ Cardinality({y \in Marks(sid) : y > x}) = n

\* The next of n marks behind x, and those behind it.
LEMMA NextMark ==
    ASSUME NEW sid \in Seq(Bytes), NEW x \in Nat, NEW n \in Nat, n > 0,
           MarksBehind(sid, x, n), NEW z, z = MarkAfter(sid, x)
    PROVE  z \in 1..Len(sid) /\ z > x /\ sid[z] = Mark /\ MarksBehind(sid, z, n - 1)
<1> DEFINE T == {y \in Marks(sid) : y > x}
<1>1. z = MarkAfter(sid, x) /\ IsFiniteSet(T) /\ Cardinality(T) = n
  BY Zenon DEF MarksBehind
<1>2. T # {}
  <2> HIDE DEF T
  <2> QED
    BY <1>1, FS_EmptySet
<1>3. z \in Marks(sid) /\ z > x /\ \A y \in Marks(sid) : y > x => z <= y
  BY <1>1, <1>2, MarkAfterIs
<1>4. z \in 1..Len(sid) /\ sid[z] = Mark /\ Marks(sid) \subseteq Nat
  <2>1. DOMAIN sid = 1..Len(sid) /\ Len(sid) \in Nat
    BY LenProperties
  <2> QED
    BY <1>3, <2>1 DEF Marks
<1>5. {y \in Marks(sid) : y > z} = T \ {z}
  <2>1. z \in Nat
    BY <1>3, <1>4
  <2> QED
    BY <1>3, <1>4, <2>1
<1>6. IsFiniteSet(T \ {z}) /\ Cardinality(T \ {z}) = n - 1
  <2>1. z \in T
    BY <1>3
  <2> HIDE DEF T
  <2> QED
    BY <1>1, <2>1, FS_RemoveElement
<1> QED
  BY <1>1, <1>3, <1>4, <1>5, <1>6, Zenon DEF MarksBehind

\* What stands before a mark, with the mark.
LEMMA UpToMark ==
    ASSUME NEW sid \in Seq(Bytes), NEW q \in 0..Len(sid), NEW p \in q + 1..Len(sid), sid[p] = Mark
    PROVE  /\ SubSeq(sid, 1, p) = SubSeq(sid, 1, q) \o SubSeq(sid, q + 1, p - 1) \o <<Mark>>
           /\ SubSeq(sid, 1, q) \in Seq(Bytes) /\ SubSeq(sid, q + 1, p - 1) \in Seq(Bytes)
<1>1. PICK L, m : L \in Nat /\ L = Len(sid) /\ m = p - 1
  BY LenProperties
<1>2. /\ 1 \in 1..L /\ 1 \in 1..L + 1 /\ p \in 1..L /\ m \in q..L /\ q \in 1 - 1..L
      /\ 1 \in Int /\ q \in Int /\ m \in Int /\ q + 1 \in Int
  BY <1>1
<1>3. SubSeq(sid, 1, p) = SubSeq(sid, 1, m) \o <<sid[p]>>
  BY <1>1, <1>2, SubSeqRecursiveSecond
<1>4. SubSeq(sid, 1, q) \o SubSeq(sid, q + 1, m) = SubSeq(sid, 1, m)
  BY <1>1, <1>2, ConcatAdjacentSubSeq
<1>5. \A i \in 1..L : sid[i] \in Bytes
  BY <1>1, ElementOfSeq
<1>6. SubSeq(sid, 1, q) \in Seq(Bytes) /\ SubSeq(sid, q + 1, m) \in Seq(Bytes)
  <2>1. \A i \in 1..q : i \in 1..L
    BY <1>1
  <2>2. PICK c : c = q + 1
    OBVIOUS
  <2>3. \A i \in c..m : i \in 1..L
    BY <1>1, <2>2
  <2>4. (\A i \in 1..q : sid[i] \in Bytes) /\ (\A i \in c..m : sid[i] \in Bytes) /\ c \in Int
    BY <1>2, <1>5, <2>1, <2>2, <2>3
  <2>5. SubSeq(sid, 1, q) \in Seq(Bytes)
    BY <1>2, <2>4, SubSeqProperties
  <2>6. SubSeq(sid, c, m) \in Seq(Bytes)
    BY <1>2, <2>4, SubSeqProperties
  <2> QED
    BY <2>2, <2>5, <2>6
<1> QED
  BY <1>1, <1>3, <1>4, <1>6

\* An identifier is made of its codes.
MadeOf(sid, c, rest) ==
    /\ c.net \in Seq(Bytes) /\ c.sta \in Seq(Bytes) /\ c.loc \in Seq(Bytes) /\ rest \in Seq(Bytes)
    /\ c.chan = ChanCode(rest) /\ Len(rest) # 3 /\ Mark \in Bytes
    /\ sid = c.net \o <<Mark>> \o c.sta \o <<Mark>> \o c.loc \o <<Mark>> \o rest

\* An identifier with five marks is split.
LEMMA SidWhole ==
    ASSUME NEW sid \in Seq(Bytes), SixCodes(sid)
    PROVE  Sid2Nslc(sid) = Split(sid)
<1>1. sid \in Seq(Bytes) /\ {x \in DOMAIN sid : sid[x] = ":"} = {}
  BY Zenon DEF SixCodes
<1>2. {x \in DOMAIN sid : sid[x] = ":"} \union {0} = {0}
  BY <1>1, Zenon
<1>3. Max({0}) = 0
  BY DEF Max
<1>4. Sid2Nslc(sid) = Split(SubSeq(sid, Max({0}) + 1, Len(sid)))
  BY <1>2, Zenon DEF Sid2Nslc
<1>5. 0 + 1 = 1
  OBVIOUS
<1>6. SubSeq(sid, 1, Len(sid)) = sid
  BY <1>1, SubSeqFull
<1> QED
  BY <1>3, <1>4, <1>5, <1>6, Zenon

\* The codes that ms_sid2nslc() finds are those it is made of.
LEMMA SidMade ==
    ASSUME NEW sid \in Seq(Bytes), SixCodes(sid)
    PROVE  \E rest : MadeOf(sid, Sid2Nslc(sid), rest)
<1>1. sid \in Seq(Bytes) /\ Cardinality(Marks(sid)) = 5
  BY Zenon DEF SixCodes
<1>2. PICK L \in Nat : L = Len(sid) /\ DOMAIN sid = 1..L
  BY <1>1, LenProperties
<1>3. IsFiniteSet(Marks(sid)) /\ Marks(sid) = {y \in Marks(sid) : y > 0}
  <2>1. Marks(sid) \in SUBSET (1..L)
    BY <1>2 DEF Marks
  <2>2. IsFiniteSet(1..L)
    BY <1>2, FS_Interval
  <2> QED
    BY <2>1, <2>2, FS_Subset
<1>4. PICK p, q, r : p = MarkAfter(sid, 0) /\ q = MarkAfter(sid, p) /\ r = MarkAfter(sid, q)
  OBVIOUS
<1>5. p \in 1..L /\ p > 0 /\ sid[p] = Mark /\ MarksBehind(sid, p, 4)
  <2>1. PICK x, n : x = 0 /\ n = 5
    OBVIOUS
  <2>2. MarksBehind(sid, x, n)
    BY <1>1, <1>3, <2>1, Zenon DEF MarksBehind
  <2>3. x \in Nat /\ n \in Nat /\ n > 0 /\ n - 1 = 4
    BY <2>1
  <2>4. p = MarkAfter(sid, x)
    BY <1>4, <2>1, Zenon
  <2>5. p \in 1..Len(sid) /\ p > x /\ sid[p] = Mark /\ MarksBehind(sid, p, n - 1)
    BY <2>2, <2>3, <2>4, NextMark
  <2> QED
    BY <1>2, <2>1, <2>3, <2>5, Zenon
<1>6. q \in 1..L /\ q > p /\ sid[q] = Mark /\ MarksBehind(sid, q, 3)
  <2>1. p \in Nat /\ 4 \in Nat /\ 4 > 0 /\ 4 - 1 = 3
    BY <1>5
  <2> QED
    BY <1>2, <1>4, <1>5, <2>1, NextMark
<1>7. r \in 1..L /\ r > q /\ sid[r] = Mark
  <2>1. q \in Nat /\ 3 \in Nat /\ 3 > 0 /\ 3 - 1 = 2
    BY <1>6
  <2> QED
    BY <1>2, <1>4, <1>6, <2>1, NextMark
<1>8. PICK rest : rest = SubSeq(sid, r + 1, L)
  OBVIOUS
<1>9. Split(sid) = [net |-> SubSeq(sid, 1, p - 1), sta |-> SubSeq(sid, p + 1, q - 1),
                    loc |-> SubSeq(sid, q + 1, r - 1), chan |-> ChanCode(rest)]
  BY <1>1, <1>2, <1>4, <1>8, Zenon DEF Split
<1>10. PICK net, sta, loc : /\ net = SubSeq(sid, 1, p - 1) /\ sta = SubSeq(sid, p + 1, q - 1)
                            /\ loc = SubSeq(sid, q + 1, r - 1)
  OBVIOUS
<1>11. SubSeq(sid, 1, p) = net \o <<Mark>> /\ net \in Seq(Bytes)
  <2>1. 0 \in 0..L /\ p \in 0 + 1..L /\ 0 + 1 = 1
    BY <1>5
  <2>2. /\ SubSeq(sid, 1, p) = SubSeq(sid, 1, 0) \o SubSeq(sid, 0 + 1, p - 1) \o <<Mark>>
        /\ SubSeq(sid, 0 + 1, p - 1) \in Seq(Bytes)
    BY <1>1, <1>2, <1>5, <2>1, UpToMark
  <2>3. SubSeq(sid, 1, 0) = <<>>
    BY SubSeqEmpty
  <2>4. net \in Seq(Bytes) /\ SubSeq(sid, 1, p) = (<<>> \o net) \o <<Mark>>
    BY <1>10, <2>1, <2>2, <2>3
  <2>5. <<>> \o net = net
    BY <2>4, ConcatEmptySeq
  <2> QED
    BY <2>4, <2>5, Zenon
<1>12. SubSeq(sid, 1, q) = SubSeq(sid, 1, p) \o sta \o <<Mark>> /\ sta \in Seq(Bytes)
  <2>1. p \in 0..L /\ q \in p + 1..L
    BY <1>5, <1>6
  <2> QED
    BY <1>1, <1>2, <1>6, <1>10, <2>1, UpToMark
<1>13. SubSeq(sid, 1, r) = SubSeq(sid, 1, q) \o loc \o <<Mark>> /\ loc \in Seq(Bytes)
  <2>1. q \in 0..L /\ r \in q + 1..L
    BY <1>6, <1>7
  <2> QED
    BY <1>1, <1>2, <1>7, <1>10, <2>1, UpToMark
<1>14. sid = SubSeq(sid, 1, r) \o rest
  <2>1. 1 \in 1..L + 1 /\ r \in 1 - 1..L /\ L \in r..L
    BY <1>2, <1>7
  <2>2. SubSeq(sid, 1, r) \o SubSeq(sid, r + 1, L) = SubSeq(sid, 1, L)
    BY <1>1, <1>2, <2>1, ConcatAdjacentSubSeq
  <2> QED
    BY <1>1, <1>2, <1>8, <2>2, SubSeqFull
<1>15. rest \in Seq(Bytes) /\ Len(rest) # 3
  <2>1. PICK c : c = r + 1
    OBVIOUS
  <2>2. c \in Int /\ L \in Int /\ \A i \in c..L : i \in 1..L
    BY <1>2, <1>7, <2>1
  <2>3. \A i \in 1..L : sid[i] \in Bytes
    BY <1>1, <1>2, ElementOfSeq
  <2>4. \A i \in c..L : sid[i] \in Bytes
    BY <2>2, <2>3
  <2>5. SubSeq(sid, c, L) \in Seq(Bytes) /\ Len(SubSeq(sid, c, L)) = IF c <= L THEN L - c + 1 ELSE 0
    BY <2>2, <2>4, SubSeqProperties
  <2>6. Len(sid) - r # 3
    BY <1>4, Zenon DEF SixCodes
  <2> QED
    BY <1>2, <1>7, <1>8, <2>1, <2>5, <2>6
<1>16. sid = net \o <<Mark>> \o sta \o <<Mark>> \o loc \o <<Mark>> \o rest
  BY <1>11, <1>12, <1>13, <1>14, Zenon
<1>17. PICK c : c = Sid2Nslc(sid)
  OBVIOUS
<1>18. c = [net |-> net, sta |-> sta, loc |-> loc, chan |-> ChanCode(rest)]
  BY <1>9, <1>10, <1>17, SidWhole, Zenon
<1>19. c.net = net /\ c.sta = sta /\ c.loc = loc /\ c.chan = ChanCode(rest)
  BY <1>18
<1>20. MadeOf(sid, c, rest)
  <2>1. Mark \in Bytes
    BY <1>1, <1>2, <1>5, ElementOfSeq
  <2> QED
    BY <2>1, <1>11, <1>12, <1>13, <1>15, <1>16, <1>19, Zenon DEF MadeOf
<1> QED
  BY <1>17, <1>20, Zenon

\* A pattern asks for a string.
Asked(items, string) == PatternOK(items) /\ string \in Seq(Bytes) /\ Fits(items, string)

\* What is asked for part by part is asked for as a whole.
LEMMA AskedConcat ==
    ASSUME NEW a, NEW s, Asked(a, s), NEW b, NEW t, Asked(b, t)
    PROVE  Asked(a \o b, s \o t)
<1>1. PatternOK(a) /\ s \in Seq(Bytes) /\ Fits(a, s) /\ PatternOK(b) /\ t \in Seq(Bytes) /\ Fits(b, t)
  BY Zenon DEF Asked
<1>2. a \in Seq(Items) /\ b \in Seq(Items)
  BY <1>1, ItemsIs
<1>3. Fits(a \o b, s \o t)
  BY <1>1, <1>2, FitsConcat
<1>4. PatternOK(a \o b)
  BY <1>1, WrittenConcat
<1>5. s \o t \in Seq(Bytes)
  BY <1>1, ConcatProperties
<1> QED
  BY <1>3, <1>4, <1>5, Zenon DEF Asked

\* What is asked for code by code is asked for as an identifier.
LEMMA NamedFits ==
    ASSUME NEW request, CodesOK(request), NEW sid \in Seq(Bytes), SixCodes(sid),
           Named(request, Sid2Nslc(sid))
    PROVE  Fits(request.sid, sid)
<1>1. PICK codes, start, end, pub, c, rest :
         /\ codes = request.codes /\ start = request.start /\ end = request.end /\ pub = request.pub
         /\ c = Sid2Nslc(sid) /\ MadeOf(sid, c, rest)
  BY SidMade
<1>2. /\ c.net \in Seq(Bytes) /\ c.sta \in Seq(Bytes) /\ c.loc \in Seq(Bytes) /\ rest \in Seq(Bytes)
      /\ c.chan = ChanCode(rest) /\ Len(rest) # 3 /\ Mark \in Bytes
      /\ sid = c.net \o <<Mark>> \o c.sta \o <<Mark>> \o c.loc \o <<Mark>> \o rest
  BY <1>1, Zenon DEF MadeOf
<1>3. /\ request = ByCodes(codes, start, end, pub) /\ PatternOK(request.sid)
      /\ PatternOK(codes[1]) /\ PatternOK(codes[2]) /\ PatternOK(codes[3]) /\ PatternOK(codes[4])
      /\ Len(Written(codes[4])) = 3 => Len(codes[4]) = 3
  <2>1. 1 \in 1..4 /\ 2 \in 1..4 /\ 3 \in 1..4 /\ 4 \in 1..4
    OBVIOUS
  <2> QED
    BY <1>1, <2>1, Zenon DEF CodesOK
<1>4. /\ Fits(codes[1], c.net) /\ Fits(codes[2], c.sta) /\ Fits(Location(codes[3]), c.loc)
      /\ Fits(codes[4], c.chan) /\ OneEach(codes[4])
  BY <1>1, Zenon DEF Named
<1>5. PICK m, k : m = Byte(Mark) /\ k = Mark
  OBVIOUS
<1>6. request.sid = codes[1] \o <<m>> \o codes[2] \o <<m>> \o Location(codes[3]) \o <<m>> \o Channel(codes[4])
  <2>1. PICK whole : whole = ByCodes(codes, start, end, pub)
    OBVIOUS
  <2>2. whole.sid = codes[1] \o <<Byte(Mark)>> \o codes[2] \o <<Byte(Mark)>> \o Location(codes[3])
                       \o <<Byte(Mark)>> \o Channel(codes[4])
    BY <2>1, Zenon DEF ByCodes
  <2> QED
    BY <1>3, <1>5, <2>1, <2>2, Zenon
<1>7. Asked(<<m>>, <<k>>)
  <2>1. k \in Bytes /\ <<k>> \in Seq(Bytes)
    BY <1>2, <1>5
  <2>2. ItemOK(m) /\ StandsFor(m, <<k>>)
    <3>1. ItemOK(m)
      BY <1>2, <1>5, Kinds, Zenon DEF ItemOK
    <3> QED
      BY <1>5, <3>1, StandsForIs, Zenon
  <2>3. PatternOK(<<m>>)
    BY <2>2, WrittenOne
  <2>4. Fits(<<m>>, <<k>>)
    BY <2>1, <2>2, FitsOne
  <2> QED
    BY <2>1, <2>3, <2>4, Zenon DEF Asked
<1>8. Asked(codes[1], c.net) /\ Asked(codes[2], c.sta)
  BY <1>2, <1>3, <1>4, Zenon DEF Asked
<1>9. Asked(Location(codes[3]), c.loc)
  <2>1. PatternOK(<<>>)
    <3>1. <<>> \in Seq(Items) /\ \A x \in 1..Len(<<>>) : ItemOK(<<>>[x])
      OBVIOUS
    <3>2. PICK e : e = <<>>
      OBVIOUS
    <3> QED
      BY <3>1, <3>2, PatternIs
  <2>2. Location(codes[3]) = <<>> \/ Location(codes[3]) = codes[3]
    BY Zenon DEF Location
  <2> QED
    BY <1>2, <1>3, <1>4, <2>1, <2>2, Zenon DEF Asked
<1>10. Asked(Channel(codes[4]), rest)
  <2>1. PICK items : items = codes[4]
    OBVIOUS
  <2>2. /\ PatternOK(items) /\ OneEach(items) /\ Fits(items, c.chan)
        /\ Len(Written(items)) = 3 => Len(items) = 3
    BY <1>3, <1>4, <2>1, Zenon
  <2>3. c.chan \in Seq(Bytes) /\ (c.chan = rest \/ (IsExtended(rest) /\ c.chan = Seed(rest) /\ Len(c.chan) = 3))
    <3>1. CASE IsExtended(rest)
      <4>1. c.chan = Seed(rest) /\ Len(rest) = 5
        BY <1>2, <3>1, Zenon DEF ChanCode, IsExtended
      <4>2. PICK x, y, z : x = rest[1] /\ y = rest[3] /\ z = rest[5]
        OBVIOUS
      <4>3. x \in Bytes /\ y \in Bytes /\ z \in Bytes
        <5>1. 1 \in 1..5 /\ 3 \in 1..5 /\ 5 \in 1..5
          OBVIOUS
        <5>2. \A i \in 1..5 : rest[i] \in Bytes
          BY <1>2, <4>1, ElementOfSeq
        <5> QED
          BY <4>2, <5>1, <5>2, Zenon
      <4>4. <<x, y, z>> \in Seq(Bytes) /\ Len(<<x, y, z>>) = 3
        BY <4>3
      <4> QED
        BY <3>1, <4>1, <4>2, <4>4, Zenon DEF Seed
    <3>2. CASE ~IsExtended(rest)
      BY <1>2, <3>2, Zenon DEF ChanCode
    <3> QED
      BY <3>1, <3>2
  <2>4. CASE Len(Written(items)) = 3
    <3>1. Len(items) = 3 /\ Starless(items)
      BY <2>2, <2>4, Zenon DEF OneEach
    <3>2. Len(c.chan) = 3
      BY <2>2, <2>3, <3>1, StarlessFits
    <3>3. IsExtended(rest) /\ Fits(items, Seed(rest))
      BY <1>2, <2>2, <2>3, <3>2, Zenon
    <3>4. Fits(Between(items), rest) /\ PatternOK(Between(items))
      BY <1>2, <2>2, <3>1, <3>3, BetweenFits
    <3>5. Channel(items) = Between(items)
      BY <2>4, Zenon DEF Channel
    <3> QED
      BY <1>2, <2>1, <3>4, <3>5, Zenon DEF Asked
  <2>5. CASE Len(Written(items)) # 3
    <3>1. items = <<AnyBytes>> \/ (Len(items) # 3 /\ Starless(items))
      BY <2>2, <2>5, Zenon DEF OneEach
    <3>2. Channel(items) = items
      BY <2>5, Zenon DEF Channel
    <3>3. CASE items = <<AnyBytes>>
      <4>1. StandsFor(AnyBytes, rest)
        BY StandsForIs, Zenon
      <4>2. Fits(<<AnyBytes>>, rest)
        BY <1>2, <4>1, FitsOne
      <4> QED
        BY <1>2, <2>1, <2>2, <3>2, <3>3, <4>2, Zenon DEF Asked
    <3>4. CASE Len(items) # 3 /\ Starless(items)
      <4>1. Len(c.chan) = Len(items)
        BY <2>2, <2>3, <3>4, StarlessFits
      <4>2. c.chan = rest
        BY <2>3, <3>4, <4>1, Zenon
      <4> QED
        BY <1>2, <2>1, <2>2, <3>2, <4>2, Zenon DEF Asked
    <3> QED
      BY <3>1, <3>3, <3>4
  <2> QED
    BY <2>4, <2>5
<1>11. PICK l, h : l = Location(codes[3]) /\ h = Channel(codes[4])
  OBVIOUS
<1>12. Asked(codes[1] \o <<m>> \o codes[2] \o <<m>>, c.net \o <<k>> \o c.sta \o <<k>>)
  BY <1>7, <1>8, AskedConcat
<1>13. PICK u, v : /\ u = codes[1] \o <<m>> \o codes[2] \o <<m>>
                   /\ v = c.net \o <<k>> \o c.sta \o <<k>>
  OBVIOUS
<1>14. Asked(u \o l \o <<m>> \o h, v \o c.loc \o <<k>> \o rest)
  BY <1>7, <1>9, <1>10, <1>11, <1>12, <1>13, AskedConcat
<1>15. Asked(request.sid, sid)
  BY <1>2, <1>5, <1>6, <1>11, <1>13, <1>14, Zenon
<1> QED
  BY <1>15, Zenon DEF Asked

-----------------------------------------------------------------------------
(* Lines of a file of selections *)

\* The words of a line and what they say.
LEMMA WordIs ==
    /\ \A items : Word(items).kind = "pattern" /\ Word(items).text = Written(items)
    /\ \A n : Number(n).kind = "number" /\ Number(n).value = n
    /\ \A t : Date(t).kind = "date" /\ Date(t).value = t
BY Zenon DEF Word, Number, Date

\* What a line says of the window and of the version.
Says(words, start, end, pub, x) ==
    DateAt(words, 2, 6) = start /\ DateAt(words, 3, 7) = end /\ Version(words, x) = pub

\* A word more.
Longer(p, n, e, z) ==
    Len(z) = n + 1 /\ (\A i \in 1..n : z[i] = p[i]) /\ z[n + 1] = e

\* A word that is put behind others.
LEMMA OneMore ==
    ASSUME NEW S, NEW p \in Seq(S), NEW e \in S, NEW n \in Nat, n = Len(p)
    PROVE  p \o <<e>> \in Seq(S) /\ Longer(p, n, e, p \o <<e>>)
<1>1. PICK q, z : q = <<e>> /\ z = p \o q
  OBVIOUS
<1>2. q \in Seq(S) /\ Len(q) = 1 /\ q[1] = e
  BY <1>1
<1>3. z \in Seq(S) /\ Len(z) = n + 1 /\ \A i \in 1..n + 1 : z[i] = IF i <= n THEN p[i] ELSE q[i - n]
  BY <1>1, <1>2, ConcatProperties
<1>4. /\ \A i \in 1..n : i \in 1..n + 1 /\ i <= n
      /\ n + 1 \in 1..n + 1 /\ ~(n + 1 <= n) /\ n + 1 - n = 1
  OBVIOUS
<1>5. \A i \in 1..n : z[i] = p[i]
  BY <1>3, <1>4, Zenon
<1>6. z[n + 1] = e
  <2>1. PICK l : l = n + 1
    OBVIOUS
  <2>2. l \in 1..n + 1 /\ ~(l <= n) /\ l - n = 1
    BY <2>1
  <2>3. z[l] = q[l - n]
    BY <1>3, <2>2, Zenon
  <2> QED
    BY <1>2, <2>1, <2>2, <2>3, Zenon
<1> QED
  BY <1>1, <1>3, <1>5, <1>6, Zenon DEF Longer

\* A line with a pattern of identifiers, as it is written.
LEMMA SourceLine ==
    ASSUME NEW request, SourceOK(request)
    PROVE  /\ (\E S : request.words \in Seq(S))
           /\ Len(request.words) \in 1..4 /\ IsSource(request.words)
           /\ request.words[1].text = Written(request.sid)
           /\ Says(request.words, request.start, request.end, request.pub, 4)
<1>1. PICK items, start, end, pub, words :
         /\ items = request.sid /\ start = request.start /\ end = request.end /\ pub = request.pub
         /\ words = request.words
  OBVIOUS
<1>2. /\ request = BySource(items, start, end, pub)
      /\ {start, end} \subseteq Nat \union {Anytime, BadDate} /\ pub \in Nat
      /\ end # Anytime => start # Anytime
      /\ pub > 0 => Anytime \notin {start, end}
  BY <1>1, Zenon DEF SourceOK, DatesOK
<1>3. words = <<Word(items)>> \o Dates(start, end) \o (IF pub > 0 THEN <<Number(pub)>> ELSE <<>>)
  <2>1. PICK whole : whole = BySource(items, start, end, pub)
    OBVIOUS
  <2>2. whole.words = <<Word(items)>> \o Dates(start, end) \o (IF pub > 0 THEN <<Number(pub)>> ELSE <<>>)
    BY <2>1, Zenon DEF BySource
  <2> QED
    BY <1>1, <1>2, <2>1, <2>2, Zenon
<1>4. PICK w, s, e, n : w = Word(items) /\ s = Date(start) /\ e = Date(end) /\ n = Number(pub)
  OBVIOUS
<1>5. /\ w.kind = "pattern" /\ w.text = Written(items) /\ s.kind = "date" /\ s.value = start
      /\ e.kind = "date" /\ e.value = end /\ n.kind = "number" /\ n.value = pub
  BY <1>4, WordIs, Zenon
<1>a. PICK S, p, u, v, z : /\ S = {w, s, e, n} /\ p = <<w>>
                           /\ u = p \o <<s>> /\ v = u \o <<e>> /\ z = v \o <<n>>
  OBVIOUS
<1>b. w \in S /\ s \in S /\ e \in S /\ n \in S
  BY <1>a
<1>c. p \in Seq(S) /\ Len(p) = 1 /\ p[1] = w
  BY <1>a, <1>b
<1>d. u \in Seq(S) /\ Longer(p, 1, s, u)
  <2>1. 1 \in Nat
    OBVIOUS
  <2> QED
    BY <1>a, <1>b, <1>c, <2>1, OneMore
<1>e. Len(u) = 2 /\ u[1] = w /\ u[2] = s
  BY <1>c, <1>d DEF Longer
<1>f. v \in Seq(S) /\ Longer(u, 2, e, v)
  <2>1. 2 \in Nat
    OBVIOUS
  <2> QED
    BY <1>a, <1>b, <1>d, <1>e, <2>1, OneMore
<1>g. Len(v) = 3 /\ v[1] = w /\ v[2] = s /\ v[3] = e
  BY <1>e, <1>f DEF Longer
<1>h. z \in Seq(S) /\ Longer(v, 3, n, z)
  <2>1. 3 \in Nat
    OBVIOUS
  <2> QED
    BY <1>a, <1>b, <1>f, <1>g, <2>1, OneMore
<1>i. Len(z) = 4 /\ z[1] = w /\ z[2] = s /\ z[3] = e /\ z[4] = n
  BY <1>g, <1>h DEF Longer
<1>j. p \o <<>> = p /\ u \o <<>> = u /\ v \o <<>> = v /\ <<>> \o <<>> = <<>> /\ <<s>> \o <<>> = <<s>>
  BY <1>b, <1>c, <1>d, <1>f, ConcatEmptySeq
<1>k. p \o (<<s>> \o <<e>>) = v
  <2>1. <<s>> \in Seq(S) /\ <<e>> \in Seq(S)
    BY <1>b
  <2>2. Associate(p, <<s>>, <<e>>)
    BY <1>c, <2>1, Associates
  <2> QED
    BY <1>a, <2>2 DEF Associate
<1>6. CASE pub > 0
  <2>1. words = z
    BY <1>2, <1>3, <1>4, <1>6, <1>a, <1>k, Zenon DEF Dates
  <2> QED
    <3>1. \E T : words \in Seq(T)
      BY <1>h, <2>1, Zenon
    <3>6. Len(words) = 4 /\ words[1] = w /\ words[2] = s /\ words[3] = e /\ words[4] = n
      BY <1>i, <2>1, Zenon
    <3>2. IsSource(words)
      BY <1>5, <3>6 DEF IsSource, HasDate
    <3>3. DateAt(words, 2, 6) = start /\ DateAt(words, 3, 7) = end
      BY <1>5, <3>6 DEF DateAt, HasDate
    <3>4. Version(words, 4) = pub
      BY <1>5, <3>6 DEF Version
    <3>5. words[1].text = Written(items) /\ Len(words) \in 1..4
      BY <1>5, <3>6
    <3> QED
      BY <1>1, <3>1, <3>2, <3>3, <3>4, <3>5, Zenon DEF Says
<1>7. CASE ~(pub > 0) /\ start = Anytime
  <2>1. end = Anytime /\ pub = 0
    BY <1>2, <1>7
  <2>2. words = p
    BY <1>3, <1>4, <1>7, <1>a, <1>j, <2>1, Zenon DEF Dates
  <2> QED
    <3>1. \E T : words \in Seq(T)
      BY <1>c, <2>2, Zenon
    <3>6. Len(words) = 1 /\ words[1] = w
      BY <1>c, <2>2, Zenon
    <3>2. IsSource(words)
      BY <1>5, <1>7, <3>6, <2>1 DEF IsSource, HasDate
    <3>3. DateAt(words, 2, 6) = start /\ DateAt(words, 3, 7) = end
      BY <1>5, <1>7, <3>6, <2>1 DEF DateAt, HasDate
    <3>4. Version(words, 4) = pub
      BY <1>5, <1>7, <3>6, <2>1 DEF Version
    <3>5. words[1].text = Written(items) /\ Len(words) \in 1..4
      BY <1>5, <1>7, <3>6, <2>1
    <3> QED
      BY <1>1, <3>1, <3>2, <3>3, <3>4, <3>5, Zenon DEF Says
<1>8. CASE ~(pub > 0) /\ start # Anytime /\ end = Anytime
  <2>1. pub = 0
    BY <1>2, <1>8
  <2>2. words = u
    BY <1>3, <1>4, <1>8, <1>a, <1>j, Zenon DEF Dates
  <2> QED
    <3>1. \E T : words \in Seq(T)
      BY <1>d, <2>2, Zenon
    <3>6. Len(words) = 2 /\ words[1] = w /\ words[2] = s
      BY <1>e, <2>2, Zenon
    <3>2. IsSource(words)
      BY <1>5, <1>8, <3>6, <2>1 DEF IsSource, HasDate
    <3>3. DateAt(words, 2, 6) = start /\ DateAt(words, 3, 7) = end
      BY <1>5, <1>8, <3>6, <2>1 DEF DateAt, HasDate
    <3>4. Version(words, 4) = pub
      BY <1>5, <1>8, <3>6, <2>1 DEF Version
    <3>5. words[1].text = Written(items) /\ Len(words) \in 1..4
      BY <1>5, <1>8, <3>6, <2>1
    <3> QED
      BY <1>1, <3>1, <3>2, <3>3, <3>4, <3>5, Zenon DEF Says
<1>9. CASE ~(pub > 0) /\ start # Anytime /\ end # Anytime
  <2>1. pub = 0
    BY <1>2, <1>9
  <2>2. words = v
    BY <1>3, <1>4, <1>9, <1>a, <1>j, <1>k, Zenon DEF Dates
  <2> QED
    <3>1. \E T : words \in Seq(T)
      BY <1>f, <2>2, Zenon
    <3>6. Len(words) = 3 /\ words[1] = w /\ words[2] = s /\ words[3] = e
      BY <1>g, <2>2, Zenon
    <3>2. IsSource(words)
      BY <1>5, <1>9, <3>6, <2>1 DEF IsSource, HasDate
    <3>3. DateAt(words, 2, 6) = start /\ DateAt(words, 3, 7) = end
      BY <1>5, <1>9, <3>6, <2>1 DEF DateAt, HasDate
    <3>4. Version(words, 4) = pub
      BY <1>5, <1>9, <3>6, <2>1 DEF Version
    <3>5. words[1].text = Written(items) /\ Len(words) \in 1..4
      BY <1>5, <1>9, <3>6, <2>1
    <3> QED
      BY <1>1, <3>1, <3>2, <3>3, <3>4, <3>5, Zenon DEF Says
<1> QED
  BY <1>6, <1>7, <1>8, <1>9

\* A line with a pattern for each code, as it is written.
LEMMA CodesLine ==
    ASSUME NEW request, CodesOK(request)
    PROVE  /\ (\E S : request.words \in Seq(S))
           /\ Len(request.words) \in 4..7 /\ ~IsSource(request.words) /\ IsCodes(request.words)
           /\ \A x \in 1..4 : request.words[x].text = Written(request.codes[x])
           /\ Says(request.words, request.start, request.end, request.pub, 5)
<1>1. PICK codes, start, end, pub, words :
         /\ codes = request.codes /\ start = request.start /\ end = request.end /\ pub = request.pub
         /\ words = request.words
  OBVIOUS
<1>2. /\ request = ByCodes(codes, start, end, pub)
      /\ {start, end} \subseteq Nat \union {Anytime, BadDate} /\ pub \in Nat
      /\ end # Anytime => start # Anytime
  BY <1>1, Zenon DEF CodesOK, DatesOK
<1>3. words = [x \in 1..4 |-> Word(codes[x])]
                 \o (IF pub > 0 THEN <<Number(pub)>>
                     ELSE IF start # Anytime THEN <<Word(<<Byte("A")>>)>> ELSE <<>>)
                 \o Dates(start, end)
  <2>1. PICK whole : whole = ByCodes(codes, start, end, pub)
    OBVIOUS
  <2>2. whole.words = [x \in 1..4 |-> Word(codes[x])]
                         \o (IF pub > 0 THEN <<Number(pub)>>
                             ELSE IF start # Anytime THEN <<Word(<<Byte("A")>>)>> ELSE <<>>)
                         \o Dates(start, end)
    BY <2>1, Zenon DEF ByCodes
  <2> QED
    BY <1>1, <1>2, <2>1, <2>2, Zenon
<1>4. PICK a, b, c, d, s, e, n, v :
         /\ a = Word(codes[1]) /\ b = Word(codes[2]) /\ c = Word(codes[3]) /\ d = Word(codes[4])
         /\ s = Date(start) /\ e = Date(end) /\ n = Number(pub) /\ v = Word(<<Byte("A")>>)
  OBVIOUS
<1>5. /\ a.kind = "pattern" /\ a.text = Written(codes[1]) /\ b.kind = "pattern" /\ b.text = Written(codes[2])
      /\ c.kind = "pattern" /\ c.text = Written(codes[3]) /\ d.kind = "pattern" /\ d.text = Written(codes[4])
      /\ s.kind = "date" /\ s.value = start /\ e.kind = "date" /\ e.value = end
      /\ n.kind = "number" /\ n.value = pub /\ v.kind = "pattern"
  BY <1>4, WordIs, Zenon
<1>6. PICK S, p : S = {a, b, c, d, s, e, n, v} /\ p = <<a, b, c, d>>
  OBVIOUS
<1>7. /\ a \in S /\ b \in S /\ c \in S /\ d \in S /\ s \in S /\ e \in S /\ n \in S /\ v \in S
  BY <1>6
<1>8. p \in Seq(S) /\ Len(p) = 4 /\ p[1] = a /\ p[2] = b /\ p[3] = c /\ p[4] = d
  BY <1>6, <1>7
<1>9. [x \in 1..4 |-> Word(codes[x])] = p
  BY <1>4, <1>6
<1>10. \A x \in 1..4 : x = 1 \/ x = 2 \/ x = 3 \/ x = 4
  OBVIOUS
<1>11. \A z \in S : p \o <<z>> \in Seq(S) /\ Longer(p, 4, z, p \o <<z>>)
  <2>1. 4 \in Nat
    OBVIOUS
  <2> QED
    BY <1>8, <2>1, OneMore
<1>12. \A z \in S : LET u == p \o <<z>>
                     IN  Len(u) = 5 /\ u[1] = a /\ u[2] = b /\ u[3] = c /\ u[4] = d /\ u[5] = z
  <2> TAKE z \in S
  <2>1. PICK u : u = p \o <<z>>
    OBVIOUS
  <2>2. Longer(p, 4, z, u)
    BY <1>11, <2>1
  <2>3. Len(u) = 5 /\ u[1] = a /\ u[2] = b /\ u[3] = c /\ u[4] = d /\ u[5] = z
    BY <1>8, <2>2 DEF Longer
  <2> QED
    BY <2>1, <2>3, Zenon
<1>13. CASE start = Anytime
  <2>1. end = Anytime
    BY <1>2, <1>13
  <2>2. p \o <<>> = p /\ (p \o <<n>>) \o <<>> = p \o <<n>> /\ <<>> \o <<>> = <<>>
    BY <1>7, <1>8, <1>11, ConcatEmptySeq
  <2>3. CASE pub > 0
    <3>1. words = p \o <<n>>
      BY <1>3, <1>4, <1>9, <1>13, <2>1, <2>2, <2>3, Zenon DEF Dates
    <3>2. \E T : words \in Seq(T)
      BY <1>7, <1>11, <3>1, Zenon
    <3>3. Len(words) = 5 /\ words[1] = a /\ words[2] = b /\ words[3] = c /\ words[4] = d /\ words[5] = n
      BY <1>7, <1>12, <3>1, Zenon
    <3>7. ~IsSource(words) /\ IsCodes(words) /\ Len(words) \in 4..7
      BY <1>5, <1>13, <2>1, <3>2, <3>3 DEF IsSource, IsCodes, HasDate
    <3>8. DateAt(words, 2, 6) = start /\ DateAt(words, 3, 7) = end
      BY <1>5, <1>13, <2>1, <3>2, <3>3 DEF DateAt, HasDate
    <3>9. Version(words, 5) = pub
      BY <1>5, <1>13, <2>1, <3>2, <3>3 DEF Version
    <3>10. \A i \in 1..4 : words[i].text = Written(codes[i])
      BY <1>10, <1>5, <1>13, <2>1, <3>2, <3>3
    <3> QED
      BY <1>1, <3>2, <3>7, <3>8, <3>9, <3>10, Zenon DEF Says
  <2>4. CASE ~(pub > 0)
    <3>1. words = p
      BY <1>3, <1>9, <1>13, <2>1, <2>2, <2>4, Zenon DEF Dates
    <3>2. \E T : words \in Seq(T)
      BY <1>8, <3>1, Zenon
    <3>3. pub = 0
      BY <1>2, <2>4
    <3>4. Len(words) = 4 /\ words[1] = a /\ words[2] = b /\ words[3] = c /\ words[4] = d
      BY <1>8, <3>1, Zenon
    <3>7. ~IsSource(words) /\ IsCodes(words) /\ Len(words) \in 4..7
      BY <1>5, <1>13, <2>1, <3>2, <3>3, <3>4 DEF IsSource, IsCodes, HasDate
    <3>8. DateAt(words, 2, 6) = start /\ DateAt(words, 3, 7) = end
      BY <1>5, <1>13, <2>1, <3>2, <3>3, <3>4 DEF DateAt, HasDate
    <3>9. Version(words, 5) = pub
      BY <1>5, <1>13, <2>1, <3>2, <3>3, <3>4 DEF Version
    <3>10. \A i \in 1..4 : words[i].text = Written(codes[i])
      BY <1>10, <1>5, <1>13, <2>1, <3>2, <3>3, <3>4
    <3> QED
      BY <1>1, <3>2, <3>7, <3>8, <3>9, <3>10, Zenon DEF Says
  <2> QED
    BY <2>3, <2>4
<1>14. CASE start # Anytime
  <2>1. PICK z \in S : /\ words = p \o <<z>> \o Dates(start, end)
                       /\ (z.kind = "number" /\ z.value = pub) \/ (z.kind = "pattern" /\ pub = 0)
    <3>1. CASE pub > 0
      BY <1>3, <1>4, <1>5, <1>7, <1>9, <3>1, Zenon
    <3>2. CASE ~(pub > 0)
      <4>1. pub = 0
        BY <1>2, <3>2
      <4> QED
        BY <1>3, <1>4, <1>5, <1>7, <1>9, <1>14, <3>2, <4>1, Zenon
    <3> QED
      BY <3>1, <3>2
  <2>2. PICK u, x, y : u = p \o <<z>> /\ x = u \o <<s>> /\ y = x \o <<e>>
    OBVIOUS
  <2>3. /\ u \in Seq(S) /\ Len(u) = 5
        /\ u[1] = a /\ u[2] = b /\ u[3] = c /\ u[4] = d /\ u[5] = z
    BY <1>11, <1>12, <2>1, <2>2, Zenon
  <2>4. x \in Seq(S) /\ Longer(u, 5, s, x)
    <3>1. 5 \in Nat
      OBVIOUS
    <3> QED
      BY <1>7, <2>2, <2>3, <3>1, OneMore
  <2>5. /\ Len(x) = 6
        /\ x[1] = a /\ x[2] = b /\ x[3] = c /\ x[4] = d /\ x[5] = z /\ x[6] = s
    BY <2>3, <2>4 DEF Longer
  <2>6. y \in Seq(S) /\ Longer(x, 6, e, y)
    <3>1. 6 \in Nat
      OBVIOUS
    <3> QED
      BY <1>7, <2>2, <2>4, <2>5, <3>1, OneMore
  <2>7. /\ Len(y) = 7
        /\ y[1] = a /\ y[2] = b /\ y[3] = c /\ y[4] = d /\ y[5] = z /\ y[6] = s /\ y[7] = e
    BY <2>5, <2>6 DEF Longer
  <2>8. CASE end = Anytime
    <3>1. <<s>> \o <<>> = <<s>>
      BY <1>7, ConcatEmptySeq
    <3>2. words = x
      BY <1>4, <1>14, <2>1, <2>2, <2>8, <3>1, Zenon DEF Dates
    <3>3. \E T : words \in Seq(T)
      BY <2>4, <3>2, Zenon
    <3>6. /\ Len(words) = 6 /\ words[1] = a /\ words[2] = b /\ words[3] = c
          /\ words[4] = d /\ words[5] = z /\ words[6] = s
      BY <2>5, <3>2, Zenon
    <3>7. ~IsSource(words) /\ IsCodes(words) /\ Len(words) \in 4..7
      BY <1>5, <2>1, <2>8, <3>6, SMTT(60) DEF IsSource, IsCodes, HasDate
    <3>8. DateAt(words, 2, 6) = start /\ DateAt(words, 3, 7) = end
      BY <1>5, <2>1, <2>8, <3>6, SMTT(60) DEF DateAt, HasDate
    <3>9. Version(words, 5) = pub
      BY <1>5, <2>1, <2>8, <3>6 DEF Version
    <3>10. \A i \in 1..4 : words[i].text = Written(codes[i])
      BY <1>10, <1>5, <2>1, <2>8, <3>6
    <3> QED
      BY <1>1, <3>3, <3>7, <3>8, <3>9, <3>10, Zenon DEF Says
  <2>9. CASE end # Anytime
    <3>1. Associate(u, <<s>>, <<e>>)
      <4>1. <<s>> \in Seq(S) /\ <<e>> \in Seq(S)
        BY <1>7
      <4> QED
        BY <2>3, <4>1, Associates
    <3>2. u \o (<<s>> \o <<e>>) = y
      BY <2>2, <3>1 DEF Associate
    <3>3. words = y
      BY <1>4, <1>14, <2>1, <2>2, <2>9, <3>2, Zenon DEF Dates
    <3>4. \E T : words \in Seq(T)
      BY <2>6, <3>3, Zenon
    <3>6. /\ Len(words) = 7 /\ words[1] = a /\ words[2] = b /\ words[3] = c
          /\ words[4] = d /\ words[5] = z /\ words[6] = s /\ words[7] = e
      BY <2>7, <3>3, Zenon
    <3>7. ~IsSource(words) /\ IsCodes(words) /\ Len(words) \in 4..7
      BY <1>5, <2>1, <2>9, <3>6, SMTT(60) DEF IsSource, IsCodes, HasDate
    <3>8. DateAt(words, 2, 6) = start /\ DateAt(words, 3, 7) = end
      <4>1. ~HasDate(words, 2) /\ ~HasDate(words, 3) /\ HasDate(words, 6) /\ HasDate(words, 7)
        BY <1>5, <3>6 DEF HasDate
      <4> QED
        BY <1>5, <3>6, <4>1, Zenon DEF DateAt
    <3>9. Version(words, 5) = pub
      BY <1>5, <2>1, <2>9, <3>6 DEF Version
    <3>10. \A i \in 1..4 : words[i].text = Written(codes[i])
      BY <1>10, <1>5, <2>1, <2>9, <3>6
    <3> QED
      BY <1>1, <3>4, <3>7, <3>8, <3>9, <3>10, Zenon DEF Says
  <2> QED
    BY <2>8, <2>9
<1> QED
  BY <1>13, <1>14

\* No word of a short line is lost.
LEMMA AllFields ==
    ASSUME NEW S, NEW words \in Seq(S), Len(words) \in 1..7
    PROVE  SubSeq(words, 1, Min({Len(words), MaxFields})) = words
<1>1. PICK n \in 1..7 : n = Len(words)
  OBVIOUS
<1>2. Min({n, MaxFields}) = n
  BY <1>1 DEF Min, MaxFields
<1> QED
  BY <1>1, <1>2, SubSeqFull

-----------------------------------------------------------------------------
(* The pattern that codes are written as *)

\* A mark or a hyphen is written as it is.
LEMMA ByteWritten ==
    ASSUME NEW b \in Bytes, b \in {Mark, Hyphen}
    PROVE  PatternOK(<<Byte(b)>>) /\ Written(<<Byte(b)>>) = <<b>>
<1>1. b \notin {Star, Query, Opening, Escape}
  BY Zenon DEF Mark, Hyphen, Star, Query, Opening, Escape
<1>2. ItemOK(Byte(b))
  BY Kinds, Zenon DEF ItemOK
<1>3. WrittenItem(Byte(b)) = <<b>>
  BY <1>1, WrittenIs, Zenon
<1> QED
  BY <1>2, <1>3, WrittenOne, Zenon

\* Two sequences of one make one of two.
LEMMA Paired ==
    ASSUME NEW a, NEW b
    PROVE  <<a>> \o <<b>> = <<a, b>>
<1>1. PICK p, q, z, S : p = <<a>> /\ q = <<b>> /\ z = p \o q /\ S = {a, b}
  OBVIOUS
<1>2. p \in Seq(S) /\ q \in Seq(S) /\ Len(p) = 1 /\ Len(q) = 1 /\ p[1] = a /\ q[1] = b
  BY <1>1
<1>3. z \in Seq(S) /\ Len(z) = 2 /\ \A i \in 1..2 : z[i] = IF i <= 1 THEN p[i] ELSE q[i - 1]
  BY <1>1, <1>2, ConcatProperties
<1>4. z[1] = a /\ z[2] = b
  BY <1>2, <1>3
<1>5. z = <<a, b>>
  BY <1>3, <1>4
<1> QED
  BY <1>1, <1>5, Zenon

\* Two hyphens are written for no location.
LEMMA LocationWritten ==
    ASSUME NEW items, PatternOK(items), Written(items) = <<Hyphen, Hyphen>> => items = Blank
    PROVE  /\ PatternOK(Location(items))
           /\ Written(Location(items)) = IF Written(items) = <<Hyphen, Hyphen>> THEN <<>> ELSE Written(items)
<1>1. CASE items = Blank
  <2>1. PICK h : h = Byte(Hyphen)
    OBVIOUS
  <2>2. items \in Seq(Items) /\ \A x \in 1..Len(items) : ItemOK(items[x])
    BY ItemsIs
  <2>3. items = <<h, h>>
    BY <1>1, <2>1, Zenon DEF Blank
  <2>4. ItemOK(h)
    BY <2>2, <2>3
  <2>5. WrittenItem(h) = <<Hyphen>>
    <3>1. Hyphen \notin {Star, Query, Opening, Escape}
      BY Zenon DEF Hyphen, Star, Query, Opening, Escape
    <3> QED
      BY <2>1, <3>1, WrittenIs, Zenon
  <2>6. PatternOK(<<h>>) /\ Written(<<h>>) = <<Hyphen>>
    BY <2>4, <2>5, WrittenOne, Zenon
  <2>7. Written(<<h>> \o <<h>>) = <<Hyphen>> \o <<Hyphen>>
    BY <2>6, WrittenConcat, Zenon
  <2>8. <<h>> \o <<h>> = <<h, h>>
    BY Paired
  <2>a. \A z : <<z>> \o <<z>> = <<z, z>>
    BY Paired
  <2>9. Written(items) = <<Hyphen, Hyphen>>
    BY <2>3, <2>7, <2>8, <2>a, Zenon
  <2>10. Location(items) = <<>>
    BY <1>1, Zenon DEF Location
  <2>11. PatternOK(<<>>)
    <3>1. <<>> \in Seq(Items) /\ \A x \in 1..Len(<<>>) : ItemOK(<<>>[x])
      OBVIOUS
    <3>2. PICK e : e = <<>>
      OBVIOUS
    <3> QED
      BY <3>1, <3>2, PatternIs
  <2> QED
    BY <2>9, <2>10, <2>11, WrittenNone, Zenon
<1>2. CASE items # Blank
  BY <1>2, Zenon DEF Location
<1> QED
  BY <1>1, <1>2

\* Three items of a byte each.
LEMMA ThreeWritten ==
    ASSUME NEW items, PatternOK(items), Len(items) = 3, Len(Written(items)) = 3
    PROVE  PatternOK(Between(items)) /\ Written(Between(items)) = Extended(Written(items))
<1>1. items \in Seq(Items) /\ \A x \in 1..Len(items) : ItemOK(items[x])
  BY ItemsIs
<1>2. PICK a, b, c, m : a = items[1] /\ b = items[2] /\ c = items[3] /\ m = Byte(Mark)
  OBVIOUS
<1>3. ItemOK(a) /\ ItemOK(b) /\ ItemOK(c) /\ items = <<a, b, c>>
  BY <1>1, <1>2
<1>4. PICK u, v, w : u = WrittenItem(a) /\ v = WrittenItem(b) /\ w = WrittenItem(c)
  OBVIOUS
<1>5. /\ PatternOK(<<a>>) /\ Written(<<a>>) = u /\ PatternOK(<<b>>) /\ Written(<<b>>) = v
      /\ PatternOK(<<c>>) /\ Written(<<c>>) = w
  BY <1>3, <1>4, WrittenOne, Zenon
<1>6. /\ u \in Seq(Symbols) /\ Len(u) \in Nat /\ Len(u) > 0
      /\ v \in Seq(Symbols) /\ Len(v) \in Nat /\ Len(v) > 0
      /\ w \in Seq(Symbols) /\ Len(w) \in Nat /\ Len(w) > 0
  BY <1>3, <1>4, WrittenItemIs
<1>7. PatternOK(<<a>> \o <<b>>) /\ Written(<<a>> \o <<b>>) = u \o v
  BY <1>5, WrittenConcat, Zenon
<1>8. Written((<<a>> \o <<b>>) \o <<c>>) = (u \o v) \o w
  BY <1>5, <1>7, WrittenConcat, Zenon
<1>9. items = (<<a>> \o <<b>>) \o <<c>>
  <2>1. <<a>> \o <<b>> = <<a, b>>
    BY Paired
  <2>2. PICK p, S : p = <<a, b>> /\ S = {a, b, c}
    OBVIOUS
  <2>3. a \in S /\ b \in S /\ c \in S
    BY <2>2
  <2>4. p \in Seq(S) /\ <<a, b, c>> = p \o <<c>>
    BY <2>2, <2>3
  <2> QED
    BY <1>3, <2>1, <2>2, <2>4, Zenon
<1>10. PICK t : t = Written(items)
  OBVIOUS
<1>11. t = (u \o v) \o w /\ Len(t) = 3
  BY <1>8, <1>9, <1>10, Zenon
<1>12. u \o v \in Seq(Symbols) /\ Len(u \o v) = Len(u) + Len(v)
  BY <1>6, ConcatProperties
<1>13. Len(t) = Len(u \o v) + Len(w)
  BY <1>6, <1>11, <1>12, ConcatProperties
<1>14. Len(u) = 1 /\ Len(v) = 1 /\ Len(w) = 1
  <2>1. PICK i, j, k : i = Len(u) /\ j = Len(v) /\ k = Len(w)
    OBVIOUS
  <2>2. i \in Nat /\ i > 0 /\ j \in Nat /\ j > 0 /\ k \in Nat /\ k > 0
    BY <1>6, <2>1
  <2>3. (i + j) + k = 3
    BY <1>11, <1>12, <1>13, <2>1, Zenon
  <2>4. i = 1 /\ j = 1 /\ k = 1
    BY <2>2, <2>3
  <2> QED
    BY <2>1, <2>4
<1>15. PICK x, y, z : x = u[1] /\ y = v[1] /\ z = w[1]
  OBVIOUS
<1>16. u = <<x>> /\ v = <<y>> /\ w = <<z>>
  BY <1>6, <1>14, <1>15
<1>17. t[1] = x /\ t[2] = y /\ t[3] = z
  <2>1. <<x>> \o <<y>> = <<x, y>>
    BY Paired
  <2>2. PICK p, S : p = <<x, y>> /\ S = {x, y, z}
    OBVIOUS
  <2>3. x \in S /\ y \in S /\ z \in S
    BY <2>2
  <2>4. p \in Seq(S) /\ <<x, y, z>> = p \o <<z>>
    BY <2>2, <2>3
  <2>5. t = <<x, y, z>>
    BY <1>11, <1>16, <2>1, <2>2, <2>4, Zenon
  <2> QED
    BY <2>5
<1>18. PICK k : k = Mark
  OBVIOUS
<1>19. PatternOK(<<m>>) /\ Written(<<m>>) = <<k>>
  BY <1>2, <1>18, BytesAssumption, ByteWritten, Zenon
<1>20. /\ PatternOK(<<a>> \o <<m>> \o <<b>> \o <<m>> \o <<c>>)
       /\ Written(<<a>> \o <<m>> \o <<b>> \o <<m>> \o <<c>>) = u \o <<k>> \o v \o <<k>> \o w
  <2>1. PatternOK(<<a>> \o <<m>>) /\ Written(<<a>> \o <<m>>) = u \o <<k>>
    BY <1>5, <1>19, WrittenConcat, Zenon
  <2>2. PatternOK(<<a>> \o <<m>> \o <<b>>) /\ Written(<<a>> \o <<m>> \o <<b>>) = u \o <<k>> \o v
    BY <1>5, <2>1, WrittenConcat, Zenon
  <2>3. /\ PatternOK(<<a>> \o <<m>> \o <<b>> \o <<m>>)
        /\ Written(<<a>> \o <<m>> \o <<b>> \o <<m>>) = u \o <<k>> \o v \o <<k>>
    BY <1>19, <2>2, WrittenConcat, ZenonT(60)
  <2> QED
    BY <1>5, <2>3, WrittenConcat, Zenon
<1>21. \A d, e, f, g : <<d>> \o <<e>> \o <<f>> \o <<e>> \o <<g>> = <<d, e, f, e, g>>
  <2> TAKE d, e, f, g
  <2>1. PICK p, q, r, S : p = <<d, e>> /\ q = <<d, e, f>> /\ r = <<d, e, f, e>> /\ S = {d, e, f, g}
    OBVIOUS
  <2>2. d \in S /\ e \in S /\ f \in S /\ g \in S
    BY <2>1
  <2>3. <<d>> \o <<e>> = p
    BY <2>1, Paired
  <2>4. p \in Seq(S) /\ q = p \o <<f>>
    BY <2>1, <2>2
  <2>5. q \in Seq(S) /\ r = q \o <<e>>
    BY <2>1, <2>2
  <2>6. r \in Seq(S) /\ <<d, e, f, e, g>> = r \o <<g>>
    BY <2>1, <2>2
  <2> QED
    BY <2>3, <2>4, <2>5, <2>6, Zenon
<1>22. <<a>> \o <<m>> \o <<b>> \o <<m>> \o <<c>> = <<a, m, b, m, c>>
  BY <1>21, Zenon
<1>23. <<x>> \o <<k>> \o <<y>> \o <<k>> \o <<z>> = <<x, k, y, k, z>>
  BY <1>21, Zenon
<1>24. Between(items) = <<a, m, b, m, c>>
  BY <1>2, Zenon DEF Between
<1>25. Extended(t) = <<x, k, y, k, z>>
  BY <1>17, <1>18, Zenon DEF Extended
<1> QED
  BY <1>10, <1>16, <1>20, <1>22, <1>23, <1>24, <1>25, Zenon

\* ms_nslc2sid() makes of four patterns as they are written the pattern of
\* identifiers that is meant (selection.c:493-543, genutils.c:336-405).
LEMMA CodesWritten ==
    ASSUME NEW request, CodesOK(request), Len(Written(request.sid)) < PatternRoom
    PROVE  LET w == [x \in 1..4 |-> Written(request.codes[x])]
           IN  Nslc2Sid([net |-> w[1], sta |-> w[2], loc |-> IF w[3] = <<Hyphen, Hyphen>> THEN <<>> ELSE w[3],
                         chan |-> IF Len(w[4]) = 3 /\ \A x \in 1..3 : Lettered(w[4][x])
                                  THEN Extended(w[4]) ELSE w[4]], PatternRoom) = Written(request.sid)
<1>1. PICK codes, start, end, pub :
         codes = request.codes /\ start = request.start /\ end = request.end /\ pub = request.pub
  OBVIOUS
<1>2. /\ request = ByCodes(codes, start, end, pub)
      /\ PatternOK(codes[1]) /\ PatternOK(codes[2]) /\ PatternOK(codes[3]) /\ PatternOK(codes[4])
      /\ Len(Written(request.sid)) < PatternRoom
      /\ Written(codes[3]) = <<Hyphen, Hyphen>> => codes[3] = Blank
      /\ Len(Written(codes[4])) = 3 => Len(codes[4]) = 3
  <2>1. 1 \in 1..4 /\ 2 \in 1..4 /\ 3 \in 1..4 /\ 4 \in 1..4
    OBVIOUS
  <2> QED
    BY <1>1, <2>1, ZenonT(60) DEF CodesOK
<1>3. PICK m, k : m = Byte(Mark) /\ k = Mark
  OBVIOUS
<1>4. PICK a, b, l, h, c, d : /\ a = codes[1] /\ b = codes[2] /\ c = codes[3] /\ d = codes[4]
                              /\ l = Location(c) /\ h = Channel(d)
  OBVIOUS
<1>5. request.sid = a \o <<m>> \o b \o <<m>> \o l \o <<m>> \o h
  <2>1. PICK whole : whole = ByCodes(codes, start, end, pub)
    OBVIOUS
  <2>2. whole.sid = codes[1] \o <<Byte(Mark)>> \o codes[2] \o <<Byte(Mark)>> \o Location(codes[3])
                       \o <<Byte(Mark)>> \o Channel(codes[4])
    BY <2>1, Zenon DEF ByCodes
  <2> QED
    BY <1>2, <1>3, <1>4, <2>1, <2>2, Zenon
<1>6. PatternOK(<<m>>) /\ Written(<<m>>) = <<k>>
  BY <1>3, BytesAssumption, ByteWritten, Zenon
<1>7. /\ PatternOK(l)
      /\ Written(l) = IF Written(c) = <<Hyphen, Hyphen>> THEN <<>> ELSE Written(c)
  BY <1>2, <1>4, LocationWritten
<1>8. PatternOK(h) /\ Written(h) = IF Len(Written(d)) = 3 THEN Extended(Written(d)) ELSE Written(d)
  <2>1. CASE Len(Written(d)) = 3
    <3>1. Len(d) = 3
      BY <1>2, <1>4, <2>1, Zenon
    <3>2. PatternOK(Between(d)) /\ Written(Between(d)) = Extended(Written(d))
      BY <1>2, <1>4, <2>1, <3>1, ThreeWritten
    <3> QED
      BY <1>4, <2>1, <3>2, Zenon DEF Channel
  <2>2. CASE Len(Written(d)) # 3
    BY <1>2, <1>4, <2>2, Zenon DEF Channel
  <2> QED
    BY <2>1, <2>2
<1>9. PICK u, v, w, z : u = Written(a) /\ v = Written(b) /\ w = Written(l) /\ z = Written(h)
  OBVIOUS
<1>10. Written(request.sid) = u \o <<k>> \o v \o <<k>> \o w \o <<k>> \o z
  <2>0. PatternOK(a) /\ PatternOK(b)
    BY <1>2, <1>4
  <2>1. PatternOK(a \o <<m>>) /\ Written(a \o <<m>>) = u \o <<k>>
    BY <1>6, <1>9, <2>0, WrittenConcat, Zenon
  <2>2. PatternOK(a \o <<m>> \o b) /\ Written(a \o <<m>> \o b) = u \o <<k>> \o v
    BY <1>9, <2>0, <2>1, WrittenConcat, Zenon
  <2>3. PatternOK(a \o <<m>> \o b \o <<m>>) /\ Written(a \o <<m>> \o b \o <<m>>) = u \o <<k>> \o v \o <<k>>
    BY <1>6, <2>2, WrittenConcat, ZenonT(60)
  <2>4. PICK p, q : p = a \o <<m>> \o b \o <<m>> /\ q = u \o <<k>> \o v \o <<k>>
    OBVIOUS
  <2>5. PatternOK(p \o l) /\ Written(p \o l) = q \o w
    BY <1>7, <1>9, <2>3, <2>4, WrittenConcat, Zenon
  <2>6. PatternOK(p \o l \o <<m>>) /\ Written(p \o l \o <<m>>) = q \o w \o <<k>>
    BY <1>6, <2>5, WrittenConcat, ZenonT(60)
  <2>7. Written(p \o l \o <<m>> \o h) = q \o w \o <<k>> \o z
    BY <1>8, <1>9, <2>6, WrittenConcat, Zenon
  <2> QED
    BY <1>5, <2>4, <2>7, Zenon
<1>11. PICK f, t : /\ t = Written(d)
                   /\ f = [net |-> u, sta |-> v, loc |-> w,
                           chan |-> IF Len(t) = 3 /\ \A x \in 1..3 : Lettered(t[x]) THEN Extended(t) ELSE t]
  OBVIOUS
<1>12. (IF Len(f.chan) = 3 THEN Extended(f.chan) ELSE f.chan) = z
  <2>1. f.chan = IF Len(t) = 3 /\ \A x \in 1..3 : Lettered(t[x]) THEN Extended(t) ELSE t
    BY <1>11, Zenon
  <2>2. Len(Extended(t)) = 5
    BY DEF Extended
  <2>3. 5 # 3
    OBVIOUS
  <2>4. CASE \A x \in 1..3 : Lettered(t[x])
    BY <1>8, <1>9, <1>11, <2>1, <2>2, <2>3, <2>4, Zenon
  <2>5. CASE ~(\A x \in 1..3 : Lettered(t[x]))
    BY <1>8, <1>9, <1>11, <2>1, <2>5, Zenon
  <2> QED
    BY <2>4, <2>5, Zenon
<1>13. f.net = u /\ f.sta = v /\ f.loc = w
  BY <1>11, Zenon
<1>14. Nslc2Sid(f, PatternRoom) = IF Len(Written(request.sid)) >= PatternRoom THEN BadId ELSE Written(request.sid)
  BY <1>3, <1>10, <1>12, <1>13, Zenon DEF Nslc2Sid
<1>15. Nslc2Sid(f, PatternRoom) = Written(request.sid)
  <2>1. Len(Written(request.sid)) \in Nat
    <3>1. PICK s : s = request.sid
      OBVIOUS
    <3>2. PatternOK(s)
      BY <3>1, Zenon DEF CodesOK
    <3>3. Written(s) \in Seq(Symbols)
      BY <3>2, WrittenConcat
    <3> QED
      BY <3>1, <3>3, LenProperties
  <2>2. PICK y : y = Len(Written(request.sid))
    OBVIOUS
  <2>3. ~(y >= PatternRoom)
    BY <1>2, <2>1, <2>2, RoomAssumption
  <2> QED
    BY <1>14, <2>2, <2>3, Zenon
<1>16. f = [net |-> Written(codes[1]), sta |-> Written(codes[2]),
            loc |-> IF Written(codes[3]) = <<Hyphen, Hyphen>> THEN <<>> ELSE Written(codes[3]),
            chan |-> IF Len(Written(codes[4])) = 3 /\ \A x \in 1..3 : Lettered(Written(codes[4])[x])
                     THEN Extended(Written(codes[4])) ELSE Written(codes[4])]
  BY <1>4, <1>7, <1>9, <1>11, Zenon
<1> DEFINE g == [x \in 1..4 |-> Written(request.codes[x])]
<1>17. /\ g[1] = Written(codes[1]) /\ g[2] = Written(codes[2])
       /\ g[3] = Written(codes[3]) /\ g[4] = Written(codes[4])
  BY <1>1
<1> HIDE DEF g
<1>18. f = [net |-> g[1], sta |-> g[2], loc |-> IF g[3] = <<Hyphen, Hyphen>> THEN <<>> ELSE g[3],
            chan |-> IF Len(g[4]) = 3 /\ \A x \in 1..3 : Lettered(g[4][x])
                     THEN Extended(g[4]) ELSE g[4]]
  BY <1>16, <1>17, Zenon
<1> QED
  BY <1>15, <1>18, Zenon DEF g

-----------------------------------------------------------------------------
(* What a line does to the list *)

\* A line with a date or a version that is none.
Refused(request) == BadDate \in {request.start, request.end} \/ request.pub \notin 0..255

\* A line that has room is read at once.
LEMMA LineFits ==
    ASSUME NEW request, RequestFits(request), NEW entries
    PROVE  ReadLine(entries, request.words) = ReadWords(entries, request.words)
  BY Zenon DEF RequestFits, ReadLine

\* A line with a pattern of identifiers that is read adds the pattern.
LEMMA SourceReads ==
    ASSUME NEW request, SourceOK(request), RequestFits(request), NEW entries
    PROVE  ReadLine(entries, request.words) =
             IF Refused(request) THEN BadLine
             ELSE AddSelect(entries, Written(request.sid), request.start, request.end, request.pub)
<1>1. PICK fields : fields = request.words
  OBVIOUS
<1>2. /\ \E S : fields \in Seq(S)
      /\ Len(fields) \in 1..4 /\ IsSource(fields) /\ fields[1].text = Written(request.sid)
      /\ Says(fields, request.start, request.end, request.pub, 4)
  BY <1>1, SourceLine, Zenon
<1>3. ReadLine(entries, fields) = ReadFields(entries, fields)
  <2>1. Len(fields) \in 1..7
    BY <1>2
  <2>2. SubSeq(fields, 1, Min({Len(fields), MaxFields})) = fields
    BY <1>2, <2>1, AllFields
  <2>3. ~IsComment(fields)
    <3>1. Begun(fields[1].text)
      BY <1>2, Zenon DEF SourceOK
    <3> QED
      BY <3>1, Zenon DEF IsComment, Begun
  <2> QED
    BY <1>1, <2>2, <2>3, LineFits, Zenon DEF ReadWords
<1>4. /\ DateAt(fields, 2, 6) = request.start /\ DateAt(fields, 3, 7) = request.end
      /\ Version(fields, 4) = request.pub
  BY <1>2, Zenon DEF Says
<1>5. ReadFields(entries, fields) =
        IF BadDate \in {request.start, request.end} THEN BadLine
        ELSE IF request.pub \in 0..255
        THEN AddSelect(entries, fields[1].text, request.start, request.end, request.pub) ELSE BadLine
  BY <1>2, <1>4, ZenonT(60) DEF ReadFields
<1> QED
  BY <1>1, <1>2, <1>3, <1>5, Zenon DEF Refused

\* A line with a pattern for each code adds the one made of them.
LEMMA CodesReads ==
    ASSUME NEW request, CodesOK(request), RequestFits(request), NEW entries
    PROVE  ReadLine(entries, request.words) =
             IF Refused(request) THEN BadLine
             ELSE AddSelect(entries, Written(request.sid), request.start, request.end, request.pub)
<1>1. PICK fields : fields = request.words
  OBVIOUS
<1>2. /\ \E S : fields \in Seq(S)
      /\ Len(fields) \in 4..7 /\ ~IsSource(fields) /\ IsCodes(fields)
      /\ \A x \in 1..4 : fields[x].text = Written(request.codes[x])
      /\ Says(fields, request.start, request.end, request.pub, 5)
  BY <1>1, CodesLine, Zenon
<1>3. ReadLine(entries, fields) = ReadFields(entries, fields)
  <2>1. Len(fields) \in 1..7
    BY <1>2
  <2>2. SubSeq(fields, 1, Min({Len(fields), MaxFields})) = fields
    BY <1>2, <2>1, AllFields
  <2>3. ~IsComment(fields)
    <3>1. 1 \in 1..4
      OBVIOUS
    <3>2. Begun(fields[1].text)
      BY <1>2, <3>1, Zenon DEF CodesOK
    <3> QED
      BY <3>2, Zenon DEF IsComment, Begun
  <2> QED
    BY <1>1, <2>2, <2>3, LineFits, Zenon DEF ReadWords
<1>4. /\ DateAt(fields, 2, 6) = request.start /\ DateAt(fields, 3, 7) = request.end
      /\ Version(fields, 5) = request.pub
  BY <1>2, Zenon DEF Says
<1>5. ReadFields(entries, fields) =
        IF BadDate \in {request.start, request.end} THEN BadLine
        ELSE IF request.pub \in 0..255
        THEN AddSelectComp(entries, fields[1].text, fields[2].text, fields[3].text, fields[4].text,
                           request.start, request.end, request.pub)
        ELSE BadLine
  BY <1>2, <1>4, ZenonT(60) DEF ReadFields
<1> DEFINE g == [x \in 1..4 |-> Written(request.codes[x])]
<1>6. /\ fields[1].text = g[1] /\ fields[2].text = g[2] /\ fields[3].text = g[3] /\ fields[4].text = g[4]
  <2>1. 1 \in 1..4 /\ 2 \in 1..4 /\ 3 \in 1..4 /\ 4 \in 1..4
    OBVIOUS
  <2> QED
    BY <1>2, <2>1, Zenon
<1>7. Nslc2Sid([net |-> g[1], sta |-> g[2], loc |-> IF g[3] = <<Hyphen, Hyphen>> THEN <<>> ELSE g[3],
                chan |-> IF Len(g[4]) = 3 /\ \A x \in 1..3 : Lettered(g[4][x])
                         THEN Extended(g[4]) ELSE g[4]], PatternRoom) = Written(request.sid)
  <2>1. Len(Written(request.sid)) < PatternRoom
    BY Zenon DEF RequestFits
  <2> QED
    BY <2>1, CodesWritten, Zenon
<1>8. \A x \in 1..4 : Kept(g[x], CodeRoom) = g[x]
  <2>1. DOMAIN request.codes = 1..4
    BY Zenon DEF CodesOK
  <2> QED
    BY <2>1, Zenon DEF RequestFits, Kept
<1> HIDE DEF g
<1>9. AddSelectComp(entries, g[1], g[2], g[3], g[4], request.start, request.end, request.pub) =
        AddSelect(entries, Written(request.sid), request.start, request.end, request.pub)
  <2>1. /\ Kept(g[1], CodeRoom) = g[1] /\ Kept(g[2], CodeRoom) = g[2]
        /\ Kept(g[3], CodeRoom) = g[3] /\ Kept(g[4], CodeRoom) = g[4]
    BY <1>8
  <2> QED
    BY <1>7, <2>1, Zenon DEF AddSelectComp
<1> QED
  BY <1>1, <1>3, <1>5, <1>6, <1>9, Zenon DEF Refused

\* Any other line leaves the list as it is.
LEMMA RemarkReads ==
    ASSUME NEW request, RemarkOK(request), RequestFits(request), NEW entries
    PROVE  ReadLine(entries, request.words) = entries
<1>1. PICK fields : fields = SubSeq(request.words, 1, Min({Len(request.words), MaxFields}))
  OBVIOUS
<1>2. ReadLine(entries, request.words) =
        IF IsComment(request.words) THEN entries ELSE ReadFields(entries, fields)
  BY <1>1, LineFits, Zenon DEF ReadWords
<1>3. ASSUME ~IsComment(request.words) PROVE ReadFields(entries, fields) = entries
  <2>1. ~IsSource(fields) /\ ~IsCodes(fields) /\ BadDate \notin {DateAt(fields, 2, 6), DateAt(fields, 3, 7)}
    BY <1>1, <1>3, Zenon DEF RemarkOK
  <2> QED
    BY <2>1, Zenon DEF ReadFields
<1> QED
  BY <1>2, <1>3, Zenon

-----------------------------------------------------------------------------
(* What the list selects *)

\* Windows of time and entries of the list.
Moments == Nat \union {Anytime}
Windows == [start : Moments, end : Moments]
SelectEntries == [pattern : Seq(Symbols), pub : Nat, windows : Seq(Windows) \ {<<>>}]

\* What an entry asks of a record.
Finds(pattern, pub, rec) == Glob(rec.sid, pattern) /\ (pub > 0 => pub = rec.pub)
Opens(windows, rec) == \E y \in DOMAIN windows : InWindow(rec, windows[y])
Chosen(entry, rec) == Finds(entry.pattern, entry.pub, rec) /\ Opens(entry.windows, rec)

\* A record is selected by an entry of which pattern, version and a window fit.
LEMMA MatchSelectIs ==
    ASSUME NEW entries \in Seq(SelectEntries), NEW rec
    PROVE  MatchSelect(entries, rec) <=> \E x \in 1..Len(entries) : Chosen(entries[x], rec)
<1>1. \A x \in 1..Len(entries) : entries[x].windows # <<>>
  <2> TAKE x \in 1..Len(entries)
  <2>1. entries[x] \in SelectEntries
    BY ElementOfSeq
  <2> QED
    BY <2>1 DEF SelectEntries
<1>2. DOMAIN entries = 1..Len(entries)
  BY LenProperties
<1> QED
  BY <1>1, <1>2, Zenon DEF MatchSelect, Chosen, Finds, Opens

\* A window that is put before others opens for more records.
LEMMA WindowBehind ==
    ASSUME NEW windows \in Seq(Windows), NEW window \in Windows, NEW rec
    PROVE  /\ <<window>> \o windows \in Seq(Windows) \ {<<>>}
           /\ Opens(<<window>> \o windows, rec) <=> InWindow(rec, window) \/ Opens(windows, rec)
<1>1. PICK p, z, n : p = <<window>> /\ z = p \o windows /\ n = Len(windows)
  OBVIOUS
<1>2. p \in Seq(Windows) /\ Len(p) = 1 /\ p[1] = window /\ n \in Nat /\ DOMAIN windows = 1..n
  BY <1>1, LenProperties
<1>3. /\ z \in Seq(Windows) /\ Len(z) = n + 1
      /\ \A i \in 1..n + 1 : z[i] = IF i <= 1 THEN p[i] ELSE windows[i - 1]
  BY <1>1, <1>2, ConcatProperties
<1>4. DOMAIN z = 1..n + 1
  BY <1>3, LenProperties
<1>5. /\ 1 \in 1..n + 1 /\ 1 <= 1
      /\ \A i \in 1..n : i + 1 \in 1..n + 1 /\ ~(i + 1 <= 1) /\ i + 1 - 1 = i
      /\ \A i \in 1..n + 1 : i = 1 \/ (i - 1 \in 1..n /\ ~(i <= 1))
  BY <1>2
<1>6. z[1] = window
  BY <1>2, <1>3, <1>5, Zenon
<1>7. \A i \in 1..n : z[i + 1] = windows[i]
  <2> TAKE i \in 1..n
  <2>1. PICK j : j = i + 1
    OBVIOUS
  <2>2. j \in 1..n + 1 /\ ~(j <= 1) /\ j - 1 = i
    BY <1>5, <2>1
  <2> QED
    BY <1>3, <2>1, <2>2, Zenon
<1>8. \A i \in 1..n + 1 : i = 1 \/ (i - 1 \in 1..n /\ z[i] = windows[i - 1])
  BY <1>3, <1>5, Zenon
<1>9. Opens(z, rec) <=> InWindow(rec, window) \/ Opens(windows, rec)
  <2>1. Opens(z, rec) => InWindow(rec, window) \/ Opens(windows, rec)
    BY <1>2, <1>4, <1>6, <1>8, Zenon DEF Opens
  <2>2. InWindow(rec, window) => Opens(z, rec)
    BY <1>4, <1>5, <1>6, Zenon DEF Opens
  <2>3. Opens(windows, rec) => Opens(z, rec)
    BY <1>2, <1>4, <1>5, <1>7, Zenon DEF Opens
  <2> QED
    BY <2>1, <2>2, <2>3
<1>10. z # <<>>
  BY <1>2, <1>3
<1> QED
  BY <1>1, <1>3, <1>9, <1>10, Zenon

\* ms3_addselect() adds to what is selected just what pattern, version and
\* window find, whether the entry is new or was there before.
LEMMA AddSelects ==
    ASSUME NEW entries \in Seq(SelectEntries), NEW pattern \in Seq(Symbols), NEW start \in Moments, NEW end \in Moments,
           NEW pub \in Nat, Len(pattern) < PatternRoom,
           NEW new, new = AddSelect(entries, pattern, start, end, pub)
    PROVE  /\ new \in Seq(SelectEntries) /\ new # <<>> /\ new # BadLine
           /\ \A rec : MatchSelect(new, rec) <=>
                          \/ MatchSelect(entries, rec)
                          \/ Finds(pattern, pub, rec) /\ InWindow(rec, [start |-> start, end |-> end])
<1>1. PICK w, n : w = [start |-> start, end |-> end] /\ n = Len(entries)
  OBVIOUS
<1>2. w \in Windows /\ n \in Nat /\ DOMAIN entries = 1..n /\ \A x \in 1..n : entries[x] \in SelectEntries
  <2>1. w \in Windows
    BY <1>1 DEF Windows
  <2>2. n \in Nat /\ DOMAIN entries = 1..n
    BY <1>1, LenProperties
  <2> QED
    BY <1>1, <2>1, <2>2, ElementOfSeq
<1>3. PICK matches : matches = {x \in DOMAIN entries : entries[x].pattern = pattern /\ entries[x].pub = pub}
  OBVIOUS
<1>4. new = IF matches = {} THEN <<[pattern |-> pattern, pub |-> pub, windows |-> <<w>>]>> \o entries
            ELSE [entries EXCEPT ![Min(matches)].windows = <<w>> \o @]
  BY <1>1, <1>3, Zenon DEF AddSelect, Kept
<1>5. ASSUME NEW z \in Seq(SelectEntries), z # <<>> PROVE z # BadLine
  <2>1. 1 \in 1..Len(z)
    BY <1>5, EmptySeq
  <2>2. z[1] \in SelectEntries
    BY <2>1, ElementOfSeq
  <2>3. z[1].pub \in Nat
    BY <2>2 DEF SelectEntries
  <2>4. BadLine[1].pub = BadDate
    BY DEF BadLine
  <2>5. BadDate \notin Nat
    BY DEF BadDate
  <2> QED
    BY <2>3, <2>4, <2>5, Zenon
<1>6. CASE matches = {}
  <2>1. PICK e, p : e = [pattern |-> pattern, pub |-> pub, windows |-> <<w>>] /\ p = <<e>>
    OBVIOUS
  <2>2. <<w>> \in Seq(Windows) \ {<<>>}
    BY <1>2
  <2>3. e \in SelectEntries /\ e.pattern = pattern /\ e.pub = pub /\ e.windows = <<w>>
    BY <2>1, <2>2 DEF SelectEntries
  <2>4. p \in Seq(SelectEntries) /\ Len(p) = 1 /\ p[1] = e
    BY <2>1, <2>3
  <2>5. new = p \o entries
    BY <1>4, <1>6, <2>1, Zenon
  <2>6. /\ new \in Seq(SelectEntries) /\ Len(new) = n + 1
        /\ \A i \in 1..n + 1 : new[i] = IF i <= 1 THEN p[i] ELSE entries[i - 1]
    <3>1. /\ new \in Seq(SelectEntries) /\ Len(new) = Len(p) + Len(entries)
          /\ \A i \in 1..Len(p) + Len(entries) : new[i] = IF i <= Len(p) THEN p[i] ELSE entries[i - Len(p)]
      <4>1. /\ p \o entries \in Seq(SelectEntries) /\ Len(p \o entries) = Len(p) + Len(entries)
            /\ \A i \in 1..Len(p) + Len(entries) :
                  (p \o entries)[i] = IF i <= Len(p) THEN p[i] ELSE entries[i - Len(p)]
        BY <2>4, ConcatProperties
      <4> QED
        BY <2>5, <4>1, Zenon
    <3>2. Len(p) + Len(entries) = n + 1
      BY <1>1, <1>2, <2>4
    <3> QED
      BY <2>4, <3>1, <3>2, Zenon
  <2>7. /\ 1 \in 1..n + 1 /\ 1 <= 1
        /\ \A i \in 1..n : i + 1 \in 1..n + 1 /\ ~(i + 1 <= 1) /\ i + 1 - 1 = i
        /\ \A i \in 1..n + 1 : i = 1 \/ (i - 1 \in 1..n /\ ~(i <= 1))
    BY <1>2
  <2>8. new[1] = e /\ \A i \in 1..n + 1 : i = 1 \/ (i - 1 \in 1..n /\ new[i] = entries[i - 1])
    BY <2>4, <2>6, <2>7, Zenon
  <2>9. \A i \in 1..n : new[i + 1] = entries[i]
    <3> TAKE i \in 1..n
    <3>1. PICK j : j = i + 1
      OBVIOUS
    <3>2. j \in 1..n + 1 /\ ~(j <= 1) /\ j - 1 = i
      BY <2>7, <3>1
    <3> QED
      BY <2>6, <3>1, <3>2, Zenon
  <2>10. ASSUME NEW rec
         PROVE  MatchSelect(new, rec) <=> MatchSelect(entries, rec) \/ (Finds(pattern, pub, rec) /\ InWindow(rec, w))
    <3>1. Opens(<<w>>, rec) <=> InWindow(rec, w)
      <4>1. PICK v : v = <<w>>
        OBVIOUS
      <4>2. DOMAIN v = {1} /\ v[1] = w
        BY <4>1
      <4> QED
        BY <4>1, <4>2, Zenon DEF Opens
    <3>2. Chosen(e, rec) <=> Finds(pattern, pub, rec) /\ InWindow(rec, w)
      BY <2>3, <3>1, Zenon DEF Chosen
    <3>3. MatchSelect(new, rec) <=> \E x \in 1..n + 1 : Chosen(new[x], rec)
      BY <2>6, MatchSelectIs
    <3>4. MatchSelect(entries, rec) <=> \E x \in 1..n : Chosen(entries[x], rec)
      BY <1>1, MatchSelectIs
    <3>5. MatchSelect(new, rec) => MatchSelect(entries, rec) \/ Chosen(e, rec)
      BY <2>8, <3>3, <3>4, Zenon
    <3>6. Chosen(e, rec) => MatchSelect(new, rec)
      BY <2>7, <2>8, <3>3, Zenon
    <3>7. MatchSelect(entries, rec) => MatchSelect(new, rec)
      BY <2>7, <2>9, <3>3, <3>4, Zenon
    <3> QED
      BY <3>2, <3>5, <3>6, <3>7
  <2>11. new # <<>>
    BY <1>2, <2>6
  <2> QED
    BY <1>1, <1>5, <2>6, <2>10, <2>11
<1>7. CASE matches # {}
  <2>1. matches \subseteq Nat
    BY <1>2, <1>3
  <2>2. \E x \in matches : \A y \in matches : x =< y
    BY <1>7, <2>1, LeastIs
  <2>3. PICK k : k = Min(matches)
    OBVIOUS
  <2>4. k \in matches
    BY <2>2, <2>3, Zenon DEF Min
  <2>5. k \in 1..n /\ entries[k].pattern = pattern /\ entries[k].pub = pub /\ entries[k] \in SelectEntries
    BY <1>2, <1>3, <2>4
  <2>6. PICK e, v : v = <<w>> \o entries[k].windows /\ e = [entries[k] EXCEPT !.windows = v]
    OBVIOUS
  <2>7. entries[k].windows \in Seq(Windows)
    BY <2>5 DEF SelectEntries
  <2>8. PICK u : u = entries[k].windows
    OBVIOUS
  <2>9. /\ v \in Seq(Windows) \ {<<>>}
        /\ \A rec : Opens(v, rec) <=> InWindow(rec, w) \/ Opens(u, rec)
    BY <1>2, <2>6, <2>7, <2>8, WindowBehind
  <2>10. e \in SelectEntries /\ e.pattern = pattern /\ e.pub = pub /\ e.windows = v
    BY <2>5, <2>6, <2>9 DEF SelectEntries
  <2>11. new = [entries EXCEPT ![k] = e]
    BY <1>4, <1>7, <2>3, <2>6, Zenon
  <2>12. /\ new \in Seq(SelectEntries) /\ Len(new) = n
         /\ \A j \in 1..n : new[j] = IF j = k THEN e ELSE entries[j]
    BY <1>1, <2>5, <2>10, <2>11, ExceptSeq
  <2>13. ASSUME NEW rec
         PROVE  MatchSelect(new, rec) <=> MatchSelect(entries, rec) \/ (Finds(pattern, pub, rec) /\ InWindow(rec, w))
    <3>1. Chosen(e, rec) <=> Chosen(entries[k], rec) \/ (Finds(pattern, pub, rec) /\ InWindow(rec, w))
      BY <2>5, <2>8, <2>9, <2>10, Zenon DEF Chosen
    <3>2. MatchSelect(new, rec) <=> \E x \in 1..n : Chosen(new[x], rec)
      BY <2>12, MatchSelectIs
    <3>3. MatchSelect(entries, rec) <=> \E x \in 1..n : Chosen(entries[x], rec)
      BY <1>1, MatchSelectIs
    <3>4. new[k] = e /\ \A j \in 1..n : j # k => new[j] = entries[j]
      BY <2>5, <2>12, Zenon
    <3>5. MatchSelect(new, rec) => MatchSelect(entries, rec) \/ Chosen(e, rec)
      BY <3>2, <3>3, <3>4, Zenon
    <3>6. Chosen(e, rec) => MatchSelect(new, rec)
      BY <2>5, <3>2, <3>4, Zenon
    <3>7. MatchSelect(entries, rec) => MatchSelect(new, rec)
      BY <3>1, <3>2, <3>3, <3>4, Zenon
    <3>8. Chosen(entries[k], rec) => MatchSelect(entries, rec)
      BY <2>5, <3>3, Zenon
    <3> QED
      BY <3>1, <3>5, <3>6, <3>7, <3>8
  <2>14. new # <<>>
    BY <1>2, <2>5, <2>12
  <2> QED
    BY <1>1, <1>5, <2>12, <2>13, <2>14
<1> QED
  BY <1>6, <1>7

\* A window is looked at as the moments that a request and a record share.
LEMMA WindowMeets ==
    ASSUME NEW rec, RecordOK(rec), NEW request, request.start \in Moments, request.end \in Moments
    PROVE  InWindow(rec, [start |-> request.start, end |-> request.end]) <=> Meets(request, rec)
<1>1. PICK a, b, s, e, w : /\ a = rec.start /\ b = rec.end /\ s = request.start /\ e = request.end
                           /\ w = [start |-> s, end |-> e]
  OBVIOUS
<1>2. a \in Nat /\ b \in Nat /\ a <= b
  BY <1>1, Zenon DEF RecordOK
<1>3. s \in Moments /\ e \in Moments /\ w.start = s /\ w.end = e
  BY <1>1
<1>4. Anytime \notin {a, b}
  BY <1>2 DEF Anytime
<1>5. InWindow(rec, w) <=> /\ s = Anytime \/ ~(a < s /\ ~(a <= s /\ b >= s))
                           /\ e = Anytime \/ ~(b > e /\ ~(a <= e /\ b >= e))
  BY <1>1, <1>3, <1>4, Zenon DEF InWindow
<1>6. Meets(request, rec) <=> (s = Anytime \/ b >= s) /\ (e = Anytime \/ a <= e)
  BY <1>1, Zenon DEF Meets
<1>7. s = Anytime \/ (~(a < s /\ ~(a <= s /\ b >= s)) <=> b >= s)
  BY <1>2, <1>3 DEF Moments
<1>8. e = Anytime \/ (~(b > e /\ ~(a <= e /\ b >= e)) <=> a <= e)
  BY <1>2, <1>3 DEF Moments
<1> QED
  BY <1>1, <1>5, <1>6, <1>7, <1>8

\* A request that is written into the list asks for what it then finds.
LEMMA RequestFinds ==
    ASSUME NEW request, NEW rec, RecordOK(rec), PatternOK(request.sid), request.form # "remark",
           request.pub \in Nat, request.start \in Moments, request.end \in Moments
    PROVE  Finds(Written(request.sid), request.pub, rec)
               /\ InWindow(rec, [start |-> request.start, end |-> request.end]) <=> Asks(request, rec)
<1>1. rec.sid \in Seq(Bytes)
  BY Zenon DEF RecordOK
<1>2. PICK items, string : items = request.sid /\ string = rec.sid
  OBVIOUS
<1>3. items \in Seq(Items) /\ PatternOK(items) /\ string \in Seq(Bytes)
  BY <1>1, <1>2, ItemsIs
<1>4. Glob(string, Written(items)) <=> Fits(items, string)
  BY <1>3, GlobIsRight
<1>5. PICK p, q : p = request.pub /\ q = rec.pub
  OBVIOUS
<1>6. p \in Nat /\ q \in Nat
  BY <1>5, Zenon DEF RecordOK
<1>7. (p > 0 => p = q) <=> p \in {0, q}
  BY <1>6
<1> QED
  BY <1>2, <1>4, <1>5, <1>7, WindowMeets, Zenon DEF Finds, Asks

\* The form that a request was made in.
LEMMA FormIs ==
    ASSUME NEW request
    PROVE  /\ SourceOK(request) => request.form = "source"
           /\ CodesOK(request) => request.form = "codes"
           /\ RemarkOK(request) => request.form = "remark"
<1>1. ASSUME SourceOK(request) PROVE request.form = "source"
  <2>1. PICK whole : whole = BySource(request.sid, request.start, request.end, request.pub)
    OBVIOUS
  <2>2. whole.form = "source"
    BY <2>1, Zenon DEF BySource
  <2> QED
    BY <1>1, <2>1, <2>2, Zenon DEF SourceOK
<1>2. ASSUME CodesOK(request) PROVE request.form = "codes"
  <2>1. PICK whole : whole = ByCodes(request.codes, request.start, request.end, request.pub)
    OBVIOUS
  <2>2. whole.form = "codes"
    BY <2>1, Zenon DEF ByCodes
  <2> QED
    BY <1>2, <2>1, <2>2, Zenon DEF CodesOK
<1>3. ASSUME RemarkOK(request) PROVE request.form = "remark"
  <2>1. PICK whole : whole = Remark(request.words)
    OBVIOUS
  <2>2. whole.form = "remark"
    BY <2>1, Zenon DEF Remark
  <2> QED
    BY <1>3, <2>1, <2>2, Zenon DEF RemarkOK
<1> QED
  BY <1>1, <1>2, <1>3

\* What becomes of the list with a line that is read.
Reads(entries, new, request) ==
    /\ new \in Seq(SelectEntries)
    /\ new = <<>> <=> entries = <<>> /\ request.form = "remark"
    /\ \A rec : RecordOK(rec) => (MatchSelect(new, rec) <=> MatchSelect(entries, rec) \/ Asks(request, rec))

\* A line that asks for something and is not refused.
LEMMA WrittenReads ==
    ASSUME NEW request, SourceOK(request) \/ CodesOK(request), NEW entries \in Seq(SelectEntries), NEW new,
           new = AddSelect(entries, Written(request.sid), request.start, request.end, request.pub),
           ~Refused(request), RequestFits(request)
    PROVE  Reads(entries, new, request) /\ new # BadLine
<1>1. request.form # "remark"
  BY FormIs
<1>2. /\ PatternOK(request.sid) /\ {request.start, request.end} \subseteq Nat \union {Anytime, BadDate}
      /\ request.pub \in Nat
  BY Zenon DEF SourceOK, CodesOK, DatesOK
<1>3. request.start \in Moments /\ request.end \in Moments
  <2>1. BadDate \notin {request.start, request.end}
    BY Zenon DEF Refused
  <2> QED
    BY <1>2, <2>1, Zenon DEF Moments
<1>4. PICK pattern, start, end, pub : /\ pattern = Written(request.sid) /\ start = request.start
                                      /\ end = request.end /\ pub = request.pub
  OBVIOUS
<1>5. pattern \in Seq(Symbols)
  <2>1. PICK s : s = request.sid
    OBVIOUS
  <2> QED
    BY <1>2, <1>4, <2>1, WrittenConcat
<1>6. /\ new \in Seq(SelectEntries) /\ new # <<>> /\ new # BadLine
      /\ \A rec : MatchSelect(new, rec) <=>
                     \/ MatchSelect(entries, rec)
                     \/ Finds(pattern, pub, rec) /\ InWindow(rec, [start |-> start, end |-> end])
  <2>1. new = AddSelect(entries, pattern, start, end, pub)
    BY <1>4, Zenon
  <2>2. start \in Moments /\ end \in Moments /\ pub \in Nat
    BY <1>2, <1>3, <1>4, Zenon
  <2>3. Len(pattern) < PatternRoom
    BY <1>4, Zenon DEF RequestFits
  <2> QED
    BY <1>5, <2>1, <2>2, <2>3, AddSelects
<1>7. ASSUME NEW rec, RecordOK(rec)
      PROVE  MatchSelect(new, rec) <=> MatchSelect(entries, rec) \/ Asks(request, rec)
  <2>1. Finds(Written(request.sid), request.pub, rec)
            /\ InWindow(rec, [start |-> request.start, end |-> request.end]) <=> Asks(request, rec)
    BY <1>1, <1>2, <1>3, <1>7, RequestFinds
  <2> QED
    BY <1>4, <1>6, <2>1, Zenon
<1> QED
  BY <1>1, <1>6, <1>7, Zenon DEF Reads

\* A line that is read adds to what is selected what it asks for.
LEMMA LineReads ==
    ASSUME NEW request, RequestOK(request), RequestFits(request), NEW entries \in Seq(SelectEntries), NEW new,
           new = ReadLine(entries, request.words), new # BadLine
    PROVE  Reads(entries, new, request)
<1>1. CASE SourceOK(request) \/ CodesOK(request)
  <2>1. new = IF Refused(request) THEN BadLine
              ELSE AddSelect(entries, Written(request.sid), request.start, request.end, request.pub)
    BY <1>1, SourceReads, CodesReads, Zenon
  <2>2. /\ ~Refused(request)
        /\ new = AddSelect(entries, Written(request.sid), request.start, request.end, request.pub)
    BY <2>1, Zenon
  <2> QED
    BY <1>1, <2>2, WrittenReads
<1>2. CASE RemarkOK(request)
  <2>1. new = entries /\ request.form = "remark"
    BY <1>2, RemarkReads, FormIs, Zenon
  <2>2. \A rec : ~Asks(request, rec)
    BY <2>1, Zenon DEF Asks
  <2> QED
    BY <2>1, <2>2, Zenon DEF Reads
<1> QED
  BY <1>1, <1>2, Zenon DEF RequestOK

\* The one request for a window of time.
LEMMA WindowReads ==
    ASSUME NEW request, RequestOK(request), request.form = "source", request.sid = <<AnyBytes>>, request.pub = 0,
           request.start # BadDate, request.end # BadDate, RequestFits(request)
    PROVE  Reads(<<>>, TimeWindow(request.start, request.end), request)
<1>1. SourceOK(request)
  BY FormIs DEF RequestOK
<1>2. ItemOK(AnyBytes)
  BY Zenon DEF ItemOK
<1>3. Written(request.sid) = <<Star>>
  BY <1>2, WrittenOne, WrittenIs, Zenon
<1>4. PICK new : new = TimeWindow(request.start, request.end)
  OBVIOUS
<1>5. new = AddSelect(<<>>, Written(request.sid), request.start, request.end, request.pub)
  BY <1>3, <1>4, Zenon DEF TimeWindow
<1>6. ~Refused(request)
  <2>1. 0 \in 0..255
    OBVIOUS
  <2> QED
    BY <2>1, Zenon DEF Refused
<1>7. PICK entries : entries = <<>>
  OBVIOUS
<1>8. entries \in Seq(SelectEntries)
  BY <1>7
<1> QED
  BY <1>1, <1>4, <1>5, <1>6, <1>7, <1>8, WrittenReads

\* The list stands for the lines that have been read, and none is left when a
\* record is looked for.
SoFar ==
    /\ \A rec : RecordOK(rec) =>
          (MatchSelect(selections, rec) <=> \E x \in 1..lines : Asks(input.requests[x], rec))
    /\ selections = <<>> <=> \A x \in 1..lines : input.requests[x].form = "remark"
SelectionInv ==
    /\ input \in Inputs
    /\ lines \in 0..Len(input.requests)
    /\ NoneCut(input.requests) => selections \in Seq(SelectEntries) /\ SoFar
    /\ pc \notin {"select", "done"} => lines = Len(input.requests)

\* The requests of a call.
LEMMA RequestsAre ==
    ASSUME NEW in \in Inputs
    PROVE  /\ Len(in.requests) \in Nat /\ DOMAIN in.requests = 1..Len(in.requests)
           /\ \A x \in 1..Len(in.requests) : RequestOK(in.requests[x])
           /\ in.window => /\ Len(in.requests) = 1
                           /\ in.requests[1] = BySource(<<AnyBytes>>, in.requests[1].start, in.requests[1].end, 0)
                           /\ BadDate \notin {in.requests[1].start, in.requests[1].end}
<1>1. PICK requests : requests = in.requests
  OBVIOUS
<1>2. /\ requests \in Seq({requests[x] : x \in DOMAIN requests})
      /\ \A x \in DOMAIN requests : RequestOK(requests[x])
      /\ in.window => /\ requests = <<BySource(<<AnyBytes>>, requests[1].start, requests[1].end, 0)>>
                      /\ BadDate \notin {requests[1].start, requests[1].end}
  BY <1>1, SelectionAssumption, Zenon
<1>3. Len(requests) \in Nat /\ DOMAIN requests = 1..Len(requests)
  BY <1>2, LenProperties
<1>4. ASSUME in.window
      PROVE  Len(requests) = 1 /\ requests[1] = BySource(<<AnyBytes>>, requests[1].start, requests[1].end, 0)
  <2>1. PICK one : one = BySource(<<AnyBytes>>, requests[1].start, requests[1].end, 0)
    OBVIOUS
  <2>2. requests = <<one>>
    BY <1>2, <1>4, <2>1, Zenon
  <2>3. Len(requests) = 1 /\ requests[1] = one
    BY <2>2
  <2> QED
    BY <2>1, <2>3, Zenon
<1> QED
  BY <1>1, <1>2, <1>3, <1>4, Zenon

\* A line more.
LEMMA LineMore ==
    ASSUME NEW requests, NEW n \in Nat, NEW old, NEW new, Reads(old, new, requests[n + 1]),
           \A rec : RecordOK(rec) => (MatchSelect(old, rec) <=> \E x \in 1..n : Asks(requests[x], rec)),
           old = <<>> <=> \A x \in 1..n : requests[x].form = "remark"
    PROVE  /\ \A rec : RecordOK(rec) =>
                 (MatchSelect(new, rec) <=> \E x \in 1..(n + 1) : Asks(requests[x], rec))
           /\ new = <<>> <=> \A x \in 1..(n + 1) : requests[x].form = "remark"
<1>1. 1..(n + 1) = 1..n \union {n + 1}
  OBVIOUS
<1>2. ASSUME NEW rec, RecordOK(rec)
      PROVE  MatchSelect(new, rec) <=> \E x \in 1..(n + 1) : Asks(requests[x], rec)
  <2>1. MatchSelect(new, rec) <=> MatchSelect(old, rec) \/ Asks(requests[n + 1], rec)
    BY <1>2, Zenon DEF Reads
  <2>2. MatchSelect(old, rec) <=> \E x \in 1..n : Asks(requests[x], rec)
    BY <1>2, Zenon
  <2> QED
    BY <1>1, <2>1, <2>2, Zenon
<1>3. new = <<>> <=> old = <<>> /\ requests[n + 1].form = "remark"
  BY Zenon DEF Reads
<1>4. new = <<>> <=> \A x \in 1..(n + 1) : requests[x].form = "remark"
  BY <1>1, <1>3, Zenon
<1> QED
  BY <1>2, <1>4, Zenon

\* No entry selects nothing.
LEMMA NoneSelected == \A rec : ~MatchSelect(<<>>, rec)
  BY DEF MatchSelect

\* The invariant at first.
LEMMA SelectionAtFirst ==
    ASSUME NEW in \in Inputs, ReaderInit(in)
    PROVE  SelectionInv
<1>1. input = in /\ input \in Inputs /\ pc = "select"
  BY Zenon DEF ReaderInit
<1>2. CASE in.window
  <2>1. PICK request : request = in.requests[1]
    OBVIOUS
  <2>2. /\ Len(in.requests) = 1 /\ request = BySource(<<AnyBytes>>, request.start, request.end, 0)
        /\ RequestOK(request) /\ request.start # BadDate /\ request.end # BadDate
    <3>1. 1 \in 1..1
      OBVIOUS
    <3> QED
      BY <1>2, <2>1, <3>1, RequestsAre, Zenon
  <2> SUFFICES ASSUME NoneCut(input.requests)
               PROVE  selections \in Seq(SelectEntries) /\ SoFar
    <3>1. lines = 1 /\ lines \in 0..Len(input.requests)
      BY <1>1, <1>2, <2>2 DEF ReaderInit
    <3> QED
      BY <1>1, <3>1, Zenon DEF SelectionInv
  <2>20. RequestFits(request)
    <3>1. DOMAIN in.requests = 1..Len(in.requests) /\ 1 \in 1..1
      BY RequestsAre
    <3> QED
      BY <1>1, <2>1, <2>2, <3>1, Zenon DEF NoneCut
  <2>3. request.form = "source" /\ request.sid = <<AnyBytes>> /\ request.pub = 0
    <3>1. PICK whole, items : whole = BySource(items, request.start, request.end, 0) /\ items = <<AnyBytes>>
      OBVIOUS
    <3>2. whole.form = "source" /\ whole.sid = items /\ whole.pub = 0
      BY <3>1, Zenon DEF BySource
    <3>3. request = whole
      BY <2>2, <3>1, Zenon
    <3> QED
      BY <3>1, <3>2, <3>3, Zenon
  <2>4. lines = 1 /\ selections = TimeWindow(request.start, request.end)
    BY <1>2, <2>1, Zenon DEF ReaderInit
  <2>5. PICK none : none = <<>>
    OBVIOUS
  <2>6. Reads(none, selections, request)
    BY <2>2, <2>3, <2>4, <2>5, <2>20, WindowReads, Zenon
  <2>7. PICK n \in Nat : n = 0
    OBVIOUS
  <2>8. PICK requests : requests = input.requests
    OBVIOUS
  <2>9. n + 1 = 1 /\ 1..n = {}
    BY <2>7
  <2>10. Reads(none, selections, requests[n + 1])
    BY <1>1, <2>1, <2>6, <2>8, <2>9, Zenon
  <2>11. \A rec : RecordOK(rec) => (MatchSelect(none, rec) <=> \E x \in 1..n : Asks(requests[x], rec))
    BY <2>5, <2>9, NoneSelected, Zenon
  <2>12. none = <<>> <=> \A x \in 1..n : requests[x].form = "remark"
    BY <2>5, <2>9, Zenon
  <2>13. /\ \A rec : RecordOK(rec) =>
               (MatchSelect(selections, rec) <=> \E x \in 1..(n + 1) : Asks(requests[x], rec))
         /\ selections = <<>> <=> \A x \in 1..(n + 1) : requests[x].form = "remark"
    BY <2>7, <2>10, <2>11, <2>12, LineMore
  <2>14. SoFar
    BY <2>4, <2>8, <2>9, <2>13, Zenon DEF SoFar
  <2>15. selections \in Seq(SelectEntries)
    BY <2>6, Zenon DEF Reads
  <2> QED
    BY <2>14, <2>15
<1>3. CASE ~in.window
  <2>1. lines = 0 /\ selections = <<>>
    BY <1>3, Zenon DEF ReaderInit
  <2>2. 1..lines = {} /\ lines \in 0..Len(input.requests)
    BY <1>1, <2>1, RequestsAre
  <2>3. SoFar
    BY <2>1, <2>2, NoneSelected, Zenon DEF SoFar
  <2>4. selections \in Seq(SelectEntries)
    BY <2>1
  <2> QED
    BY <1>1, <2>2, <2>3, <2>4, Zenon DEF SelectionInv
<1> QED
  BY <1>2, <1>3

\* What other steps than reading a line leave alone.
LEMMA SelectionsStay ==
    ASSUME SelectionInv, UNCHANGED <<input, lines, selections>>,
           pc' \notin {"select", "done"} => pc \notin {"select", "done"} \/ lines = Len(input.requests)
    PROVE  SelectionInv'
<1>1. input' = input /\ lines' = lines /\ selections' = selections
  OBVIOUS
<1> QED
  BY <1>1, Zenon DEF SelectionInv, SoFar

\* The invariant is kept, and by reading a line most of all.
LEMMA SelectionIsKept ==
    ASSUME SelectionInv, [ReaderNext]_vars
    PROVE  SelectionInv'
<1>1. CASE SelectLine
  <2>1. PICK n \in Nat : n = lines
    BY DEF SelectionInv
  <2>2. PICK requests : requests = input.requests
    OBVIOUS
  <2>3. pc = "select" /\ lines < Len(requests) /\ input' = input
    BY <1>1, <2>2, Zenon DEF SelectLine
  <2>4. PICK new : new = ReadLine(selections, requests[n + 1].words)
    OBVIOUS
  <2>5. \/ new = BadLine /\ pc' = "done" /\ UNCHANGED <<lines, selections>>
        \/ new # BadLine /\ selections' = new /\ lines' = lines + 1 /\ pc' = pc
    BY <1>1, <2>1, <2>2, <2>4, Zenon DEF SelectLine
  <2>6. CASE new = BadLine /\ pc' = "done" /\ UNCHANGED <<lines, selections>>
    BY <2>3, <2>6, SelectionsStay, Zenon
  <2>7. CASE new # BadLine /\ selections' = new /\ lines' = lines + 1 /\ pc' = pc
    <3>1. Len(requests) \in Nat /\ n + 1 \in 1..Len(requests) /\ n + 1 \in 0..Len(requests)
      <4>1. Len(requests) \in Nat
        BY <2>2, RequestsAre, Zenon DEF SelectionInv
      <4> QED
        BY <2>1, <2>3, <4>1
    <3>2. PICK request : request = requests[n + 1]
      OBVIOUS
    <3>3. RequestOK(request)
      BY <2>2, <3>1, <3>2, RequestsAre, Zenon DEF SelectionInv
    <3>41. lines' = n + 1 /\ input' = input /\ pc' = "select"
      BY <2>1, <2>3, <2>7, Zenon
    <3> SUFFICES ASSUME NoneCut(requests)
                 PROVE  selections' \in Seq(SelectEntries) /\ SoFar'
      <4>1. input' \in Inputs /\ lines' \in 0..Len(input'.requests) /\ input'.requests = requests
        BY <2>2, <3>1, <3>41, Zenon DEF SelectionInv
      <4> QED
        BY <3>41, <4>1, Zenon DEF SelectionInv
    <3>4. PICK old \in Seq(SelectEntries) : old = selections
      BY <2>2, Zenon DEF SelectionInv
    <3>42. RequestFits(request)
      <4>1. DOMAIN requests = 1..Len(requests)
        BY <2>2, RequestsAre, Zenon DEF SelectionInv
      <4> QED
        BY <3>1, <3>2, <4>1, Zenon DEF NoneCut
    <3>5. Reads(old, new, request)
      <4>1. new = ReadLine(old, request.words) /\ new # BadLine
        BY <2>4, <2>7, <3>2, <3>4, Zenon
      <4> QED
        BY <3>3, <3>42, <4>1, LineReads
    <3>6. Reads(old, new, requests[n + 1])
      BY <3>2, <3>5, Zenon
    <3>7. \A rec : RecordOK(rec) => (MatchSelect(old, rec) <=> \E x \in 1..n : Asks(requests[x], rec))
      BY <2>1, <2>2, <3>4, Zenon DEF SelectionInv, SoFar
    <3>8. old = <<>> <=> \A x \in 1..n : requests[x].form = "remark"
      BY <2>1, <2>2, <3>4, Zenon DEF SelectionInv, SoFar
    <3>9. /\ \A rec : RecordOK(rec) =>
                (MatchSelect(new, rec) <=> \E x \in 1..(n + 1) : Asks(requests[x], rec))
          /\ new = <<>> <=> \A x \in 1..(n + 1) : requests[x].form = "remark"
      BY <2>1, <3>6, <3>7, <3>8, LineMore
    <3>10. lines' = n + 1 /\ selections' = new /\ input'.requests = requests
      BY <2>1, <2>2, <2>3, <2>7, Zenon
    <3>11. SoFar'
      BY <3>9, <3>10, Zenon DEF SoFar
    <3>12. selections' \in Seq(SelectEntries)
      BY <3>5, <3>10, Zenon DEF Reads
    <3> QED
      BY <3>11, <3>12, Zenon
  <2> QED
    BY <2>5, <2>6, <2>7, Zenon
<1>2. CASE OpenFile
  <2>1. lines = Len(input.requests) /\ UNCHANGED <<input, lines, selections>>
    BY <1>2, Zenon DEF OpenFile
  <2> QED
    BY <2>1, SelectionsStay, Zenon
<1>3. CASE ReaderNext /\ ~SelectLine /\ ~OpenFile
  <2>1. UNCHANGED <<input, lines, selections>> /\ pc \notin {"select", "done"}
    <3>1. CASE AtRangeEnd
      BY <3>1 DEF AtRangeEnd
    <3>2. CASE Fill
      BY <3>2 DEF Fill
    <3>3. CASE ReadFails
      BY <3>3 DEF ReadFails
    <3>4. CASE TooLittle
      BY <3>4 DEF TooLittle, Ready
    <3>5. CASE ReadRecord
      <4>1. Ready
        BY <3>5, Zenon DEF ReadRecord
      <4>2. PICK outcome : Seen(outcome)
        BY <3>5, Zenon DEF ReadRecord, ReturnRecord, SkipUnselected, DataUnreadable, SkipBytes, ParseError, Truncated
      <4> QED
        BY <4>1, <4>2 DEF Ready, Seen
    <3>6. CASE AddRecord
      BY <3>6 DEF AddRecord
    <3>7. CASE RefuseRecord
      BY <3>7 DEF RefuseRecord
    <3>8. CASE Finish
      BY <3>8 DEF Finish
    <3> QED
      BY <1>3, <3>1, <3>2, <3>3, <3>4, <3>5, <3>6, <3>7, <3>8, Zenon DEF ReaderNext
  <2> QED
    BY <2>1, SelectionsStay, Zenon
<1>4. CASE UNCHANGED vars
  <2>1. UNCHANGED <<input, lines, selections>> /\ pc' = pc
    BY <1>4, Zenon DEF vars
  <2> QED
    BY <2>1, SelectionsStay, Zenon
<1> QED
  BY <1>1, <1>2, <1>3, <1>4, Zenon

\* What has been shown of the list when all lines have been read.
LEMMA FaithfulThen == SelectionInv => SelectionFaithful
<1> SUFFICES ASSUME SelectionInv, pc = "loop", NoneCut(input.requests), NEW rec \in Tried
             PROVE  /\ Selects(rec) <=> IsWanted(input.requests, rec)
                    /\ \A x \in DOMAIN input.requests :
                          SixCodes(rec.sid) /\ Named(input.requests[x], Sid2Nslc(rec.sid))
                              => Fits(input.requests[x].sid, rec.sid)
  BY Zenon DEF SelectionFaithful
<1>1. RecordOK(rec)
  BY SelectionAssumption, Zenon
<1>2. /\ DOMAIN input.requests = 1..Len(input.requests) /\ lines = Len(input.requests)
      /\ \A x \in 1..Len(input.requests) : RequestOK(input.requests[x])
  <2>1. "loop" \notin {"select", "done"}
    OBVIOUS
  <2> QED
    BY <2>1, RequestsAre, Zenon DEF SelectionInv
<1>3. /\ MatchSelect(selections, rec) <=> \E x \in 1..lines : Asks(input.requests[x], rec)
      /\ selections = <<>> <=> \A x \in 1..lines : input.requests[x].form = "remark"
  BY <1>1, Zenon DEF SelectionInv, SoFar
<1>4. Selects(rec) <=> IsWanted(input.requests, rec)
  BY <1>2, <1>3, Zenon DEF Selects, IsWanted
<1>5. ASSUME NEW x \in DOMAIN input.requests, SixCodes(rec.sid), Named(input.requests[x], Sid2Nslc(rec.sid))
      PROVE  Fits(input.requests[x].sid, rec.sid)
  <2>1. PICK request : request = input.requests[x]
    OBVIOUS
  <2>2. RequestOK(request) /\ request.form = "codes"
    BY <1>2, <1>5, <2>1, Zenon DEF Named
  <2>3. CodesOK(request)
    <3>1. "codes" # "source" /\ "codes" # "remark"
      OBVIOUS
    <3> QED
      BY <2>2, <3>1, FormIs, Zenon DEF RequestOK
  <2>4. rec.sid \in Seq(Bytes)
    BY <1>1, Zenon DEF RecordOK
  <2>5. PICK sid : sid = rec.sid
    OBVIOUS
  <2>6. Named(request, Sid2Nslc(sid)) /\ SixCodes(sid) /\ sid \in Seq(Bytes)
    BY <1>5, <2>1, <2>4, <2>5, Zenon
  <2>7. Fits(request.sid, sid)
    BY <2>3, <2>6, NamedFits
  <2> QED
    BY <2>1, <2>5, <2>7, Zenon
<1> QED
  BY <1>4, <1>5, Zenon

\* When the lines have been read, a record is selected exactly if one of them
\* asks for it, by pattern or codes, time and version, or none asks for any;
\* and a record whose codes fit those of a line fits the pattern made of them,
\* for every list of lines of which none is cut, with a text of less than 100
\* bytes for a pattern, less than 20 for a code and not more than 198 for the
\* line, and for every record (selection.c:46-139, 386-560, 811-924).
THEOREM SelectionsHold == ReaderSpec => []SelectionFaithful
<1>1. (\E in \in Inputs : ReaderInit(in)) => SelectionInv
  BY SelectionAtFirst, Zenon
<1>2. SelectionInv /\ [ReaderNext]_vars => SelectionInv'
  BY SelectionIsKept, Zenon
<1>3. SelectionInv => SelectionFaithful
  BY FaithfulThen
<1> QED
  BY <1>1, <1>2, <1>3, PTL DEF ReaderSpec
=============================================================================
