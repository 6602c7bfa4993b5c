------------------------------ MODULE MseedFile -----------------------------
(***************************************************************************)
(* The miniSEED file: mstl3_writemseed() of fileutils.c with               *)
(* mstl3_pack() of tracelist.c and msr3_pack() of pack.c, as main() calls   *)
(* them, with a file to overwrite, Steim-2 for integers and all data       *)
(* flushed.  The trace list is read and left as it is.                     *)
(*                                                                         *)
(* What the samples are is left out: how many integers a record takes, and *)
(* whether they can be encoded, is open here.                              *)
(***************************************************************************)
EXTENDS TraceList

CONSTANTS
    Unfit2,     \* pairs of a sid and a period no header of version 2 holds
    RecordRoom, \* samples of a record at most
    FillAtLeast \* integers in a record that others follow, at least

ASSUME FileAssumption ==
    /\ Unfit2 \subseteq Sids \X Nat
    /\ FillAtLeast \in Nat \ {0} /\ RecordRoom \in Nat /\ RecordRoom >= FillAtLeast

VARIABLES
    out,       \* "shut", "segment" (the loop over the segments), "data" (the
               \* loop over the records of one), "closed", "failed"
    seg,       \* the segment: index of the ID and in its list
    packed,    \* totalpackedsamples of msr3_pack()
    recs,      \* its recordcnt
    total,     \* totalpackedrecords
    room,      \* records there is still room for on the disk
    file,      \* the records in the file: seg, from, n and start
    lost,      \* history: as many could not be written
    broken,    \* history: segments that ended with an error
    result     \* what mstl3_writemseed() returns

filevars == <<out, seg, packed, recs, total, room, file, lost, broken, result>>

FileInit(capacity) ==
    /\ out = "shut" /\ seg = <<1, 1>> /\ packed = 0 /\ recs = 0 /\ total = 0
    /\ room = capacity /\ file = <<>> /\ lost = 0 /\ broken = {} /\ result = 0

-----------------------------------------------------------------------------
OpenFails ==
    /\ out = "shut"
    /\ out' = "failed" /\ result' = -1
    /\ UNCHANGED <<listvars, seg, packed, recs, total, room, file, lost, broken>>

OpenFile ==
    /\ out = "shut"
    /\ out' = "segment"
    /\ UNCHANGED <<listvars, seg, packed, recs, total, room, file, lost, broken, result>>

\* Slip: only the first segment of an ID.
NextId == <<seg[1] + 1, 1>>

Current   == traces[seg[1]].segs[seg[2]]
Following == IF seg[2] < Len(traces[seg[1]].segs) THEN <<seg[1], seg[2] + 1>>
             ELSE <<seg[1] + 1, 1>>
AtSegment == out = "segment" /\ seg[1] <= Len(traces)

\* A sid or a rate that miniSEED 2 cannot express; headers of miniSEED 3
\* express every one the list may hold.
HeaderFits(version) ==
    version = 3 \/ <<traces[seg[1]].sid, Current.per>> \notin Unfit2

\* The record is handed to the handler, which only logs that it could not
\* write.
Handled(r) ==
    IF room > 0 THEN file' = Append(file, r) /\ room' = room - 1 /\ UNCHANGED lost
    ELSE lost' = lost + 1 /\ UNCHANGED <<file, room>>

\* mstl3_pack() adds up what msr3_pack() returns.
SegmentDone(value) ==
    /\ out' = "segment" /\ seg' = Following
    /\ total' = total + value

\* Slip: the count of the last segment is kept.
CountKept(version) ==
    /\ AtSegment
    /\ HeaderFits(version) /\ Current.numsamples > 0
    /\ out' = "data" /\ packed' = 0
    /\ UNCHANGED <<listvars, seg, recs, total, room, file, lost, broken, result>>

BeginSegment(version) ==
    /\ AtSegment
    /\ HeaderFits(version) /\ Current.numsamples > 0
    /\ out' = "data" /\ packed' = 0 /\ recs' = 0
    /\ UNCHANGED <<listvars, seg, total, room, file, lost, broken, result>>

\* Slip: the segment is tried again.
TriedAgain(version) ==
    /\ AtSegment
    /\ ~HeaderFits(version)
    /\ broken' = broken \union {seg}
    /\ UNCHANGED <<listvars, out, seg, packed, recs, total, room, file, lost, result>>

HeaderFails(version) ==
    /\ AtSegment
    /\ ~HeaderFits(version)
    /\ SegmentDone(-1)
    /\ broken' = broken \union {seg}
    /\ UNCHANGED <<listvars, packed, recs, room, file, lost, result>>

\* A segment without samples gives a record without payload.
EmptyRecord(version) ==
    /\ AtSegment
    /\ HeaderFits(version) /\ Current.numsamples = 0
    /\ Handled([seg |-> seg, from |-> 1, n |-> 0, start |-> Current.start])
    /\ SegmentDone(1)
    /\ UNCHANGED <<listvars, packed, recs, broken, result>>

\* A full record or the rest; how much fills a record of integers depends on
\* their differences.
Rest == Current.numsamples - packed
Takes(n) ==
    /\ n <= Rest /\ n <= RecordRoom
    /\ n = Rest \/ (IF Current.type = "i" THEN n >= FillAtLeast ELSE n = RecordRoom)

\* Slip: the time is counted on before the record is dated.
DatedAfter ==
    /\ out = "data" /\ packed < Current.numsamples
    /\ \E n \in 1..RecordRoom :
        /\ Takes(n)
        /\ Handled([seg |-> seg, from |-> packed + 1, n |-> n,
                    start |-> Current.start + (packed + n) * Current.per])
        /\ packed' = packed + n
    /\ recs' = recs + 1
    /\ UNCHANGED <<listvars, out, seg, total, broken, result>>

\* The start time of the records after the first is counted from the
\* segment's.
PackRecord ==
    /\ out = "data" /\ packed < Current.numsamples
    /\ \E n \in 1..RecordRoom :
        /\ Takes(n)
        /\ Handled([seg |-> seg, from |-> packed + 1, n |-> n,
                    start |-> Current.start + packed * Current.per])
        /\ packed' = packed + n
    /\ recs' = recs + 1
    /\ UNCHANGED <<listvars, out, seg, total, broken, result>>

\* A difference that needs more than 30 bits, in any record: those before it
\* have been written.
PackFails ==
    /\ out = "data" /\ Current.type = "i" /\ Rest > 1
    /\ SegmentDone(-1)
    /\ broken' = broken \union {seg}
    /\ UNCHANGED <<listvars, packed, recs, room, file, lost, result>>

NextSegment ==
    /\ out = "data" /\ packed = Current.numsamples
    /\ SegmentDone(recs)
    /\ UNCHANGED <<listvars, packed, recs, room, file, lost, broken, result>>

CloseFile ==
    /\ out = "segment" /\ seg[1] > Len(traces)
    /\ out' = "closed"
    /\ result' = IF total >= 0 THEN total ELSE -1
    /\ UNCHANGED <<listvars, seg, packed, recs, total, room, file, lost, broken>>

WriteMseed(version) ==
    \/ OpenFails \/ OpenFile
    \/ BeginSegment(version) \/ HeaderFails(version) \/ EmptyRecord(version)
    \/ PackRecord \/ PackFails \/ NextSegment \/ CloseFile

-----------------------------------------------------------------------------
\* The records of a segment in the file, as indices.
RecordsOf(p) == {x \in DOMAIN file : file[x].seg = p}
Precedes(r, t) ==
    \/ r.seg[1] < t.seg[1]
    \/ r.seg[1] = t.seg[1] /\ r.seg[2] < t.seg[2]
    \/ r.seg = t.seg /\ r.from + r.n = t.from

\* The file holds the segments in the order of the list and each of their
\* samples once: a record begins where the one before it ended.  Only a
\* segment that could not be packed to its end, or a full disk, leaves out
\* samples, and never one before another that is in the file (pack.c:161-362,
\* tracelist.c:1895-2062).
FileFaithful ==
    /\ \A x \in 2..Len(file) : Precedes(file[x-1], file[x])
    /\ \A x \in DOMAIN file :
          /\ file[x].from + file[x].n - 1 <= Seg(file[x].seg).numsamples
          /\ file[x].from # 1 => x > 1 /\ file[x-1].seg = file[x].seg
    /\ out = "closed" /\ lost = 0 =>
          \A p \in Segments \ broken :
              \E x \in RecordsOf(p) : file[x].from + file[x].n - 1 = Seg(p).numsamples

\* What mstl3_writemseed() returns is the number of records of the segments
\* packed to the end, less one for each of the others: it is the number of
\* records in the file only if nothing failed, and then it is
\* (tracelist.c:2044, fileutils.c:983).
Counted ==
    out = "closed" =>
        /\ broken = {} => result = Len(file) + lost
        /\ lost = 0 =>
              LET whole == {x \in DOMAIN file : file[x].seg \notin broken}
              IN  result = Max({-1, Cardinality(whole) - Cardinality(broken)})

\* How far the records up to x are from the rate of the segment, at most.
Difference(a, b) == IF a > b THEN a - b ELSE b - a
FarOff(s, x) == Max({Difference(given[s.data[y]].per, s.per) : y \in 1..x})

\* Every sample in the file is dated as in the message it came from, up to
\* half a period for each record that was joined before it, a whole one for
\* each of those without samples, and what the rates differ by for each
\* sample before it: the segment counts on with its own rate
\* (tracelist.c:386-691, pack.c:338).
Earlier(s, x) == UNION {{y} \X (1..given[s.data[y]].n) : y \in 1..x-1}
Offset(s, x) == Cardinality(Earlier(s, x))
Empties(s, x) == Cardinality({y \in 1..x-1 : given[s.data[y]].n = 0})

SamplesDated ==
    \A y \in DOMAIN file :
        LET r == file[y]
            s == Seg(r.seg)
        IN  \A x \in DOMAIN s.data :
              LET m     == given[s.data[x]]
                  first == Offset(s, x) + 1
                  dated == r.start + (first - r.from) * s.per
                  off   == FarOff(s, x)
                  slow  == s.per + off
                  slack == (x - 1) * (slow \div 2) + slow * Empties(s, x) + Offset(s, x) * off
              IN  (first + m.n > r.from /\ first < r.from + r.n) =>
                     -slack <= dated - m.start /\ dated - m.start <= slack
=============================================================================
