------------------------------ MODULE TankScan ------------------------------
(***************************************************************************)
(* The scan of the tank file: scan_tracebuf() of src/tbconvert.c, with the *)
(* check and the byte swapping of a header by swap_wavemsg2_makelocal()    *)
(* of src/libsrc/swap.c and the comparison functions of src/compare.c.     *)
(*                                                                         *)
(* The tank is a function from the offsets of the mapped file to what the  *)
(* bytes from there on read as: Junk, where no known datatype stands, or a *)
(* header.  The mapping is private and writable and the check works in     *)
(* place, so the tank is a variable.                                       *)
(***************************************************************************)
EXTENDS Integers, Sequences, FiniteSets

CONSTANTS
    Chans,        \* the SCNLs of the file, as numbers in strcmp() order
    Junk,         \* what bytes without a known datatype read as
    TankSize,     \* fs.st_size
    Tanks,        \* the contents of the file that are considered
    HdrLen,       \* sizeof(TRACE2_HEADER)
    SwapSpan,     \* bytes of a header that are swapped: pinno to samprate
    MaxTracebuf,  \* MAX_TRACEBUF_SIZ
    Readings,     \* what the numbers of a header read as when some of its
                  \* bytes were swapped that should not have been
    InitSlots,    \* MAX_NUM_TBUF
    MaxSlots      \* bound: a list of more entries than this has no memory

\* A header, numbers as they read in the host's byte order.
\*   chan        SCNL, after the scan turned ' ' of loc into '-'
\*   opposite    the label says that the message has the other byte order
\*   digit       data_size: the second character of datatype, a digit
\*   width       atoi(&datatype[1]), which reads on past that digit
\*   n           nsamp
\*   consistent  endtime is within 5 samples of start + (nsamp - 1) / samprate
\*   time        endtime
Header == [chan : Chans, opposite : BOOLEAN, digit : Nat \ {0},
           width : Nat \ {0}, n : Int, consistent : BOOLEAN, time : Int]

ASSUME SizesAssumption ==
    /\ TankSize \in Nat \ {0}
    /\ HdrLen \in Nat \ {0} /\ SwapSpan \in 1..HdrLen
    /\ MaxTracebuf \in Nat /\ HdrLen <= MaxTracebuf
    /\ Readings \subseteq [n : Int, consistent : BOOLEAN, time : Int]
    /\ InitSlots \in Nat \ {0} /\ MaxSlots \in Nat

ASSUME TanksAssumption ==
    /\ Chans \subseteq Nat
    /\ Junk \notin Header
    /\ Tanks \subseteq [0..TankSize-1 -> Header \union {Junk}]

VARIABLES
    tank,        \* the mapped file
    pos,         \* tankbyte - tankstart
    phase,       \* "scan", "sort" (end of the file), "done", "failed" (-1) or
                 \* "outside" (the scan is at bytes that are not mapped)
    known,       \* channels that have a TRACE_NODE in the tree
    tlist,       \* the counted entries of every channel's tlist
    maxtbuf,     \* slots every channel's tlist has
    totaltrace,
    TraceList    \* the channels in the order of the tree

vars == <<tank, pos, phase, known, tlist, maxtbuf, totaltrace, TraceList>>

-----------------------------------------------------------------------------
TooMany(h) == h.n > (MaxTracebuf - HdrLen) \div h.digit

\* datalen + sizeof(TRACE2_HEADER).  The code computes it in size_t: below 0
\* it is a huge number, and adding it to tankbyte goes back.
Size(h) == HdrLen + h.width * h.n
TooLarge(h) == Size(h) > MaxTracebuf \/ Size(h) < 0

\* The outcomes of swap_wavemsg2_makelocal() at an offset.
Rejected(o)     == tank[o] # Junk => TooMany(tank[o])     \* -1
Accepted(o)     == ~Rejected(o) /\ tank[o].consistent     \*  0
Inconsistent(o) == ~Rejected(o) /\ ~tank[o].consistent    \* -2

\* Headers a swap at o gets in the way of: the one at o, whose label still
\* says "opposite" when the message is refused, and those that overlap it.
InTheWay(o) == {x \in o..o+SwapSpan-1 : x \in DOMAIN tank /\ tank[x] # Junk}

\* What the tank may be when the numbers of headers X were swapped in vain.
Disturbed(X) ==
    {[x \in DOMAIN tank |->
        IF x \in X THEN [tank[x] EXCEPT !.n = r[x].n, !.time = r[x].time,
                                       !.consistent = r[x].consistent]
                   ELSE tank[x]] : r \in [X -> Readings]}

\* Slip: an accepted header is not relabelled after it was swapped.
RelabelForgotten(o) ==
    IF tank[o] # Junk => ~tank[o].opposite \/ Accepted(o) THEN {tank}
    ELSE Disturbed(InTheWay(o))

\* The tank after the check of the header at o.
AfterCheck(o) ==
    IF tank[o] # Junk => ~tank[o].opposite THEN {tank}
    ELSE IF Accepted(o) THEN {[tank EXCEPT ![o].opposite = FALSE]}
    ELSE Disturbed(InTheWay(o))

Entry(o) == [offset |-> o, size |-> Size(tank[o]), time |-> tank[o].time]

-----------------------------------------------------------------------------
Init ==
    /\ tank \in Tanks
    /\ pos = 0
    /\ phase = "scan"
    /\ known = {}
    /\ tlist = [c \in Chans |-> <<>>]
    /\ maxtbuf = [c \in Chans |-> InitSlots]
    /\ totaltrace = 0
    /\ TraceList = <<>>

Scanning == phase = "scan" /\ UNCHANGED TraceList

\* rc == -1: move on by one byte, or leave the loop at the last one.
Slide ==
    /\ Scanning
    /\ Rejected(pos)
    /\ tank' \in AfterCheck(pos)
    /\ pos' = pos + 1
    /\ phase' = IF pos + 1 < TankSize THEN "scan" ELSE "sort"
    /\ UNCHANGED <<known, tlist, maxtbuf, totaltrace>>

\* Slip: the pointer moves by datalen, without the header.
MoveByDatalen(o) ==
    LET c == tank[o].chan
    IN  /\ known' = known \union {c}
        /\ totaltrace' = IF c \in known THEN totaltrace ELSE totaltrace + 1
        /\ tank' \in AfterCheck(o)
        /\ pos' = o + tank[o].width * tank[o].n

\* Slip: the pointer moves by one byte after a message as it does after junk.
MoveByByte(o) ==
    /\ known' = known \union {tank[o].chan}
    /\ totaltrace' = Cardinality(known')
    /\ tank' \in AfterCheck(o)
    /\ pos' = o + 1

\* Slip: every message looked up counts as a trace.
CountMessages(o) ==
    /\ known' = known \union {tank[o].chan}
    /\ totaltrace' = totaltrace + 1
    /\ tank' \in AfterCheck(o)
    /\ pos' = o + Size(tank[o])

\* A header that is not slid over: look its channel up, or add it to the
\* tree, and move the pointer to where the message ends.
LookUp(o) ==
    LET c == tank[o].chan
    IN  /\ known' = known \union {c}
        /\ totaltrace' = IF c \in known THEN totaltrace ELSE totaltrace + 1
        /\ tank' \in AfterCheck(o)
        /\ pos' = o + Size(tank[o])

\* Slip: the loop goes on at the end of the file.
LoopPastEnd(o) ==
    /\ LookUp(o)
    /\ phase' = IF pos' < 0 THEN "outside"
                ELSE IF pos' <= TankSize THEN "scan" ELSE "sort"

\* The condition of the loop, for a pointer that may have gone back.
PassOver(o) ==
    /\ LookUp(o)
    /\ phase' = IF pos' < 0 THEN "outside"
                ELSE IF pos' < TankSize THEN "scan" ELSE "sort"

\* Slip: a list is doubled one entry late.
FillsLate(c) == Len(tlist[c]) + 1 > maxtbuf[c]

\* The entry written to slot ntbuf is counted, and a list that has become
\* full gets twice its slots.
Fills(c) == Len(tlist[c]) + 1 >= maxtbuf[c]

Count(o) ==
    LET c == tank[o].chan
    IN  /\ tlist' = [tlist EXCEPT ![c] = Append(@, Entry(o))]
        /\ maxtbuf' = IF Fills(c) THEN [maxtbuf EXCEPT ![c] = 2 * @] ELSE maxtbuf

\* rc == 0.
Track ==
    /\ Scanning
    /\ Accepted(pos)
    /\ ~TooLarge(tank[pos])
    /\ Fills(tank[pos].chan) => 2 * maxtbuf[tank[pos].chan] <= MaxSlots
    /\ PassOver(pos)
    /\ Count(pos)

\* Slip: the continue of a message that is too large comes before the pointer
\* has moved.
TooLargeStays ==
    /\ Scanning
    /\ ~Rejected(pos)
    /\ TooLarge(tank[pos])
    /\ known' = known \union {tank[pos].chan}
    /\ totaltrace' = Cardinality(known')
    /\ tank' \in AfterCheck(pos)
    /\ UNCHANGED <<pos, phase, tlist, maxtbuf>>

\* size > MAX_TRACEBUF_SIZ: the entry is left uncounted.
PassTooLarge ==
    /\ Scanning
    /\ ~Rejected(pos)
    /\ TooLarge(tank[pos])
    /\ PassOver(pos)
    /\ UNCHANGED <<tlist, maxtbuf>>

\* The samples of the message at o go on behind the end of the file.
CutOff(o) == tank[o].n > 0 /\ o + HdrLen + tank[o].digit * tank[o].n > TankSize

\* The samples of an accepted message of the other order are swapped in place,
\* also those behind the end of the file.  Bytes up to the end of the page are
\* there and are zero; behind it the program may be killed.
SwapPastEnd ==
    /\ Scanning
    /\ Accepted(pos)
    /\ tank[pos] # Junk /\ tank[pos].opposite /\ CutOff(pos)
    /\ phase' = "outside"
    /\ UNCHANGED <<tank, pos, known, tlist, maxtbuf, totaltrace>>

\* rc == -2: the entry is left uncounted.
PassInconsistent ==
    /\ Scanning
    /\ Inconsistent(pos)
    /\ ~TooLarge(tank[pos])
    /\ PassOver(pos)
    /\ UNCHANGED <<tlist, maxtbuf>>

\* A new node or its place in the tree cannot be allocated: return -1.
NodeFails ==
    /\ Scanning
    /\ ~Rejected(pos)
    /\ tank[pos].chan \notin known
    /\ tank' \in AfterCheck(pos)
    /\ phase' = "failed"
    /\ UNCHANGED <<pos, known, tlist, maxtbuf, totaltrace>>

\* realloc() of a full list fails: return -1, all counters are ahead of it.
\* tlist goes on holding what the lost memory held; nobody looks again.
SlotsFail ==
    /\ Scanning
    /\ Accepted(pos)
    /\ ~TooLarge(tank[pos])
    /\ Fills(tank[pos].chan)
    /\ LookUp(pos)
    /\ Count(pos)
    /\ phase' = "failed"

-----------------------------------------------------------------------------
\* The catalogue the scan has to produce.  A tank's messages are the headers
\* that are there when the scan starts; those ahead are not filed yet.
Ahead == {o \in DOMAIN tank : o >= pos /\ tank[o] # Junk}

Msg(o) == [chan |-> tank[o].chan, offset |-> o,
           size |-> Size(tank[o]), time |-> tank[o].time]

Promise == INSTANCE Catalogue WITH
    rest   <- {Msg(o) : o \in Ahead},
    index  <- tlist,
    closed <- (phase = "done")

\* Slip: the lists are left in the order of the file.
SortForgotten ==
    /\ phase = "sort"
    /\ phase' = "done"
    /\ TraceList' \in [1..Cardinality(known) -> known]
    /\ \A j, k \in DOMAIN TraceList' : j < k => TraceList'[j] < TraceList'[k]
    /\ UNCHANGED <<tank, pos, known, tlist, maxtbuf, totaltrace>>

\* tree2list() and sort_tlist(): the nodes in order, each list by time.
SortAll ==
    /\ phase = "sort"
    /\ phase' = "done"
    /\ TraceList' \in [1..Cardinality(known) -> known]
    /\ \A j, k \in DOMAIN TraceList' : j < k => TraceList'[j] < TraceList'[k]
    /\ tlist' \in [Chans -> UNION {Promise!Sorts(tlist[c]) : c \in Chans}]
    /\ \A c \in Chans : tlist'[c] \in Promise!Sorts(tlist[c])
    /\ UNCHANGED <<tank, pos, known, maxtbuf, totaltrace>>

Next ==
    \/ Slide \/ Track \/ PassTooLarge \/ PassInconsistent
    \/ SwapPastEnd \/ NodeFails \/ SlotsFail \/ SortAll

Spec == Init /\ [][Next]_vars

\* One thread that does nothing but scan.
FairSpec == Spec /\ WF_vars(Next)

-----------------------------------------------------------------------------
\* Type invariant of the scan.
TypeOK ==
    /\ tank \in [0..TankSize-1 -> Header \union {Junk}]
    /\ pos \in Int
    /\ phase \in {"scan", "sort", "done", "failed", "outside"}
    /\ phase = "scan" => pos \in 0..TankSize-1
    /\ known \subseteq Chans /\ IsFiniteSet(known)
    /\ tlist \in [Chans -> Seq([offset : Nat, size : Nat, time : Int])]
    /\ maxtbuf \in [Chans -> Nat]
    /\ totaltrace \in Nat
    /\ TraceList \in Seq(Chans)

\* Every entry is written to slot ntbuf before it is known whether it counts
\* (tbconvert.c:219-221), so a list must have a free slot whenever the scan
\* comes back to it, also after uncounted entries and after a doubling.
SlotFree == \A c \in Chans : Len(tlist[c]) < maxtbuf[c]

\* main() converts TraceList[0] to TraceList[totaltrace-1]: the counter, the
\* tree and the list agree, and no channel with a counted message is left out
\* (tbconvert.c:192-213, 251-257).
TracesListed ==
    /\ totaltrace = Cardinality(known)
    /\ \A c \in Chans : Len(tlist[c]) > 0 => c \in known
    /\ phase = "done" =>
          /\ Len(TraceList) = totaltrace
          /\ \A c \in known : \E j \in 1..totaltrace : TraceList[j] = c

\* No message of the file has a negative sample count, nor does one appear
\* when bytes are swapped that should not be.
CountsAreNat ==
    /\ \A r \in Readings : r.n >= 0
    /\ \A t \in Tanks : \A o \in DOMAIN t : t[o] # Junk => t[o].n >= 0

\* No byte of the file belongs to two counted messages, of whatever channels,
\* and what is counted lies behind the scan (tbconvert.c:217-223).
EntriesApart ==
    CountsAreNat =>
        \A c, d \in Chans : \A j \in 1..Len(tlist[c]), k \in 1..Len(tlist[d]) :
            /\ tlist[c][j].offset + tlist[c][j].size <= pos
            /\ c # d \/ j # k =>
                  \/ tlist[c][j].offset + tlist[c][j].size <= tlist[d][k].offset
                  \/ tlist[d][k].offset + tlist[d][k].size <= tlist[c][j].offset

\* What an entry says is true of the header at its offset, which has passed
\* the check and is in the host's byte order.
Matches(c, e) ==
    /\ e.offset \in DOMAIN tank
    /\ LET h == tank[e.offset]
       IN  /\ h # Junk /\ h.chan = c /\ ~h.opposite
           /\ Size(h) = e.size /\ h.time = e.time
           /\ h.consistent /\ ~TooMany(h)

\* What a counted entry says stays true of the bytes at its offset: the
\* converters, which read the header again, see what the scan saw, although
\* later checks go on swapping bytes in the same mapping
\* (swap.c:200-214, 261-294; sacproc.c:157-163).
EntriesMatch ==
    CountsAreNat =>
        \A c \in Chans : \A k \in 1..Len(tlist[c]) : Matches(c, tlist[c][k])

\* The scan goes on: no step takes it back or leaves it where it is
\* (tbconvert.c:153, 223).
GoesForward ==
    [][CountsAreNat => (phase' = "scan" => pos' > pos)]_vars

\* The scan of any file comes to an end.
Terminates == <>(phase \in {"done", "failed", "outside"})

\* Files of messages that pass every check and do not overlap, with anything
\* between them; the last one may be cut off by the end of the file.
WellFormed(t) ==
    \A o \in DOMAIN t : t[o] # Junk =>
        /\ t[o].consistent /\ ~TooMany(t[o]) /\ ~TooLarge(t[o])
        /\ \A x \in o+1..o+Size(t[o])-1 : x \in DOMAIN t => t[x] = Junk

\* Of a file of good messages with junk between them the scan makes the
\* catalogue it promises: every message under its channel, none twice, none
\* lost in the junk, and in the end sorted (tbconvert.c:148-255).
Catalogued == Promise!Spec
=============================================================================
