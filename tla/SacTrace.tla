------------------------------ MODULE SacTrace ------------------------------
(***************************************************************************)
(* The conversion of one trace to a SAC file: sacproc_trace_output() of    *)
(* src/sacproc.c with the helpers it calls.                                *)
(*                                                                         *)
(* The input is the sorted tracebuf list of one TRACE_NODE.  The output    *)
(* buffer is counted in words (SACWORD): the SAC header takes HdrWords of  *)
(* them and is left out of cap, so buffersiz = (HdrWords + cap) words and  *)
(* "seis < outbufend" is Len(out) < cap.  A word of out is <<k, j>>, the   *)
(* j-th sample of the k-th packet, or FillWord.  Times are integers        *)
(* (ticks), and a sample rate is represented by its period 1/samprate.     *)
(***************************************************************************)
EXTENDS Integers, Sequences

CONSTANTS
    Traces,     \* the tracebuf lists considered, each a sequence of packets
    Now,        \* time(NULL): what endtime holds before the first packet
    Second,     \* 1/samprate for the samprate = 1.0 a trace starts with
    InitCap,    \* maxtbuf * 100 words, the data part of the first malloc()
    Grow,       \* words added by one realloc_outbuf(): MAX_NUM_TBUF*0.5*100
    HdrWords    \* sizeof(struct SAChead) in words

\* A tracebuf message as the loop reads it.  The scan accepted it, so n has
\* the upper bound of swap.c:216, far below Grow, and no lower bound.
Packet == [start : Int, end : Int, per : Nat \ {0},
           n : {m \in Int : m <= Grow}, copyable : BOOLEAN]

\* scan_tracebuf() leaves every list sorted by the end time of its packets.
SortedByEnd(t) ==
    \A j, k \in 1..Len(t) : j < k => t[j].end <= t[k].end

ASSUME SizesAssumption ==
    /\ Now \in Int
    /\ Second \in Nat \ {0}
    /\ InitCap \in Nat /\ Grow \in Nat \ {0} /\ HdrWords \in Nat

ASSUME TracesAssumption ==
    /\ Traces \subseteq Seq(Packet)
    /\ \A t \in Traces : SortedByEnd(t)

SACUNDEF == -12345
FillWord == <<0, 0>>

VARIABLES
    list,     \* tnode->tlist: the packets of this trace
    i,        \* the packet the loop is at
    phase,    \* "head": top of the loop; "store": the gap is dealt with;
              \* "done", "failed": the function has returned 0, -1;
              \* "crashed": it has used a stream that is not open
    endtime,  \* end time of the last packet that was stored
    period,   \* 1/samprate of the last packet that was looked at
    cap,      \* words the buffer holds after the header
    out,      \* the words from the header up to seis
    nsamp,    \* nsamp_trace
    reftime,  \* the reference time enrich_sac_starttime() put in the header
    npts,     \* the header's count of samples, set when all is stored
    file,     \* "none", "short" (fwrite fell short) or "written"
    CompDuty, \* progbar_inc() calls so far
    pos,      \* history: pos[k] is where packet k starts in out, 0 if nowhere
    bogus,    \* history: the packets dropped for a "Bogus gap"
    cut       \* history: the packets before which a fill ran out of buffer

vars == <<list, i, phase, endtime, period, cap, out, nsamp, reftime, npts,
          file, CompDuty, pos, bogus, cut>>

-----------------------------------------------------------------------------
Smaller(a, b) == IF a < b THEN a ELSE b

\* The packet of this iteration.
Pkt == list[i]

\* Words that stand between the message's header and dataend.
Words(p) == IF p.n > 0 THEN p.n ELSE 0

Gap(p) == i > 1 /\ endtime + 2 * p.per < p.start

\* Slip: a packet of the one sample that is next counts as a duplicate.
DuplicateOrNext(p) == i > 1 /\ ~Gap(p) /\ endtime + p.per >= p.end

\* Slip: the sample period is left out of the test.
DuplicateBehind(p) == i > 1 /\ ~Gap(p) /\ endtime > p.end

Duplicate(p) == i > 1 /\ ~Gap(p) /\ endtime + p.per > p.end

\* (int)((float)samprate * (float)(starttime - endtime)).  When the gap is a
\* whole number k of periods the single-precision product falls on either
\* side of k, and truncation gives k or k - 1.
Fills(p) ==
    LET gap == p.start - endtime
    IN  {q \in 0..gap : q * p.per <= gap /\ gap <= (q + 1) * p.per}

\* newsize, in words.
NewSize(q) == nsamp + q + HdrWords

\* newsize is a size_t: below 0 it wraps round to more than any buffer.  A
\* fill too large for an int reads as a negative number and wraps as well.
Exceeds(size, limit) == size > limit \/ size < 0

\* newsize > buffersiz and newsize > buffersiz * 2.
Overflows(q) == Exceeds(NewSize(q), cap + HdrWords)
IsBogus(q) == Exceeds(NewSize(q), 2 * (cap + HdrWords))

\* The next count samples of packet k when dataptr is past the first skip.
Samples(k, skip, count) == [x \in 1..count |-> <<k, skip + x>>]
FillRun(count) == [x \in 1..count |-> FillWord]

-----------------------------------------------------------------------------
Init ==
    /\ list \in Traces
    /\ i = 1
    /\ phase = "head"
    /\ endtime = Now
    /\ period = Second
    /\ cap = InitCap
    /\ out = <<>>
    /\ nsamp = 0
    /\ reftime = SACUNDEF
    /\ npts = 0
    /\ file = "none"
    /\ CompDuty = 0
    /\ pos = [k \in 1..Len(list) |-> 0]
    /\ bogus = {}
    /\ cut = {}

\* What every step at the top of the loop has in common.
AtHead ==
    /\ phase = "head"
    /\ i <= Len(list)
    /\ period' = Pkt.per
    /\ UNCHANGED <<list, endtime, npts, file, CompDuty, pos>>

\* i == 0: no gap test, the start time becomes the reference time.
FirstPacket ==
    /\ AtHead
    /\ i = 1
    /\ reftime' = Pkt.start
    /\ phase' = "store"
    /\ UNCHANGED <<i, cap, out, nsamp, bogus, cut>>

\* Neither a gap nor a duplicate: the packet follows the stored ones.
Follows ==
    /\ AtHead
    /\ i > 1
    /\ ~Gap(Pkt) /\ ~Duplicate(Pkt)
    /\ phase' = "store"
    /\ UNCHANGED <<i, cap, out, nsamp, reftime, bogus, cut>>

SkipDuplicate ==
    /\ AtHead
    /\ Duplicate(Pkt)
    /\ i' = i + 1
    /\ UNCHANGED <<phase, cap, out, nsamp, reftime, bogus, cut>>

\* Slip: a packet that is dropped for its gap moves endtime on.
BogusMovesOn ==
    /\ phase = "head"
    /\ i <= Len(list)
    /\ Gap(Pkt)
    /\ \E q \in Fills(Pkt) : Overflows(q) /\ IsBogus(q)
    /\ i' = i + 1
    /\ bogus' = bogus \union {i}
    /\ period' = Pkt.per
    /\ endtime' = Pkt.end
    /\ UNCHANGED <<list, phase, cap, out, nsamp, reftime, npts, file, CompDuty,
                   pos, cut>>

\* "Bogus gap; skipping!": continue, endtime stays where it was.
SkipBogus ==
    /\ AtHead
    /\ Gap(Pkt)
    /\ \E q \in Fills(Pkt) : Overflows(q) /\ IsBogus(q)
    /\ i' = i + 1
    /\ bogus' = bogus \union {i}
    /\ UNCHANGED <<phase, cap, out, nsamp, reftime, cut>>

\* Slip: the loop that fills does not look at the end of the buffer.
FillPastEnd ==
    /\ AtHead
    /\ Gap(Pkt)
    /\ \E q \in Fills(Pkt) :
         /\ ~(Overflows(q) /\ IsBogus(q))
         /\ cap' = IF Overflows(q) THEN cap + Grow ELSE cap
         /\ out' = out \o FillRun(q)
         /\ nsamp' = nsamp + q
    /\ phase' = "store"
    /\ UNCHANGED <<i, reftime, bogus, cut>>

\* Slip: the samples of a fill are not counted.
FillUncounted ==
    /\ AtHead
    /\ Gap(Pkt)
    /\ \E q \in Fills(Pkt) :
         /\ ~(Overflows(q) /\ IsBogus(q))
         /\ cap' = IF Overflows(q) THEN cap + Grow ELSE cap
         /\ out' = out \o FillRun(Smaller(q, cap' - Len(out)))
    /\ phase' = "store"
    /\ UNCHANGED <<i, reftime, nsamp, bogus, cut>>

\* Fill the gap.  The buffer grows once if the fill does not fit, the loop
\* stops at the end of the buffer, and the whole fill is counted.
FillGap ==
    /\ AtHead
    /\ Gap(Pkt)
    /\ \E q \in Fills(Pkt) :
         /\ ~(Overflows(q) /\ IsBogus(q))
         /\ cap' = IF Overflows(q) THEN cap + Grow ELSE cap
         /\ LET written == Smaller(q, cap' - Len(out))
            IN  /\ out' = out \o FillRun(written)
                /\ cut' = IF written < q THEN cut \union {i} ELSE cut
         /\ nsamp' = nsamp + q
    /\ phase' = "store"
    /\ UNCHANGED <<i, reftime, bogus>>

\* realloc_outbuf() fails before a fill: return -1.
FillFails ==
    /\ AtHead
    /\ Gap(Pkt)
    /\ \E q \in Fills(Pkt) : Overflows(q) /\ ~IsBogus(q)
    /\ phase' = "failed"
    /\ UNCHANGED <<i, cap, out, nsamp, reftime, bogus, cut>>

-----------------------------------------------------------------------------
AtStore ==
    /\ phase = "store"
    /\ UNCHANGED <<list, period, reftime, npts, file, CompDuty, bogus, cut>>

\* Slip: the index is advanced in the branch and in the loop.
SkipTwo ==
    /\ AtStore
    /\ ~Pkt.copyable
    /\ phase' = "head"
    /\ i' = i + 2
    /\ UNCHANGED <<endtime, cap, out, nsamp, pos>>

\* enrich_sac_samps() returns -1: continue, a fill already made stays.
SkipUnsupported ==
    /\ AtStore
    /\ ~Pkt.copyable
    /\ phase' = "head"
    /\ i' = i + 1
    /\ UNCHANGED <<endtime, cap, out, nsamp, pos>>

\* End of the iteration of a packet that was stored.
Stored ==
    /\ pos' = [pos EXCEPT ![i] = Len(out) + 1]
    /\ endtime' = Pkt.end
    /\ nsamp' = nsamp + Pkt.n
    /\ phase' = "head"
    /\ i' = i + 1

\* seis < outbufend after the first enrich_sac_samps().
StoreFits ==
    /\ AtStore
    /\ Pkt.copyable
    /\ Len(out) + Words(Pkt) < cap
    /\ out' = out \o Samples(i, 0, Words(Pkt))
    /\ Stored
    /\ UNCHANGED cap

\* Slip: the second pass begins with the packet's first sample again.
GrowStartsOver ==
    /\ AtStore
    /\ Pkt.copyable
    /\ Len(out) + Words(Pkt) >= cap
    /\ cap' = cap + Grow
    /\ LET first  == Smaller(Words(Pkt), cap - Len(out))
           second == Smaller(Words(Pkt) - first, cap' - (Len(out) + first))
       IN  out' = out \o Samples(i, 0, first) \o Samples(i, 0, second)
    /\ Stored

\* The first pass reaches the end of the buffer; the buffer grows and a
\* second pass goes on from the sample (dataptr) the first one stopped at.
StoreGrows ==
    /\ AtStore
    /\ Pkt.copyable
    /\ Len(out) + Words(Pkt) >= cap
    /\ cap' = cap + Grow
    /\ LET first  == Smaller(Words(Pkt), cap - Len(out))
           second == Smaller(Words(Pkt) - first, cap' - (Len(out) + first))
       IN  out' = out \o Samples(i, 0, first) \o Samples(i, first, second)
    /\ Stored

\* realloc_outbuf() fails after the first pass: return -1.
StoreFails ==
    /\ AtStore
    /\ Pkt.copyable
    /\ Len(out) + Words(Pkt) >= cap
    /\ out' = out \o Samples(i, 0, Smaller(Words(Pkt), cap - Len(out)))
    /\ phase' = "failed"
    /\ UNCHANGED <<i, endtime, cap, nsamp, pos>>

-----------------------------------------------------------------------------
\* All packets are through: the header gets its counts, the file is written.
AtEnd ==
    /\ phase = "head"
    /\ i > Len(list)
    /\ npts' = nsamp
    /\ UNCHANGED <<list, i, endtime, period, cap, out, nsamp, reftime,
                   pos, bogus, cut>>

WriteFile ==
    /\ AtEnd
    /\ file' = "written"
    /\ CompDuty' = CompDuty + 1
    /\ phase' = "done"

\* fwrite() falls short: return -1, the duty is not counted.
WriteFails ==
    /\ AtEnd
    /\ file' = "short"
    /\ phase' = "failed"
    /\ UNCHANGED CompDuty

\* The result of fopen() is not looked at: fwrite() to a null stream, which
\* is undefined and taken to end the process.
OpenFails ==
    /\ AtEnd
    /\ phase' = "crashed"
    /\ UNCHANGED <<file, CompDuty>>

Next ==
    \/ FirstPacket \/ Follows \/ SkipDuplicate \/ SkipBogus
    \/ FillGap \/ FillFails
    \/ SkipUnsupported \/ StoreFits \/ StoreGrows \/ StoreFails
    \/ WriteFile \/ WriteFails \/ OpenFails

Spec == Init /\ [][Next]_vars

-----------------------------------------------------------------------------
Kept == {k \in 1..Len(list) : pos[k] > 0}

\* Type invariant of the conversion of a trace by sacproc_trace_output().
TypeOK ==
    /\ list \in Seq(Packet) /\ SortedByEnd(list)
    /\ i \in 1..Len(list) + 1
    /\ phase \in {"head", "store", "done", "failed", "crashed"}
    /\ phase = "store" => i <= Len(list)
    /\ endtime \in Int
    /\ period \in Nat \ {0}
    /\ cap \in Nat
    /\ out \in Seq(Nat \X Nat)
    /\ nsamp \in Int
    /\ reftime \in Int
    /\ npts \in Int
    /\ file \in {"none", "short", "written"}
    /\ CompDuty = IF phase = "done" THEN 1 ELSE 0
    /\ pos \in [1..Len(list) -> Nat]
    /\ bogus \subseteq 1..Len(list)
    /\ cut \subseteq 1..Len(list)

\* seis never passes outbufend, whatever gaps are filled and however the two
\* copies of a packet are split by a reallocation (sacproc.c:169-227).
WritesInBuffer == Len(out) <= cap

\* A packet that was stored stands in the buffer whole, in order and in one
\* piece, also when the buffer grew in the middle of it (sacproc.c:210-227);
\* packets stored later stand after it and nothing overwrites it.
WholePackets ==
    /\ \A k \in Kept : \A j \in 1..Words(list[k]) :
          /\ pos[k] + j - 1 <= Len(out)
          /\ out[pos[k] + j - 1] = <<k, j>>
    /\ \A j, k \in Kept : j < k => pos[j] + Words(list[j]) <= pos[k]

\* As long as no packet has a negative sample count, nsamp_trace is at least
\* the number of words written, and it is exactly that number unless a fill
\* ran into the end of the buffer (sacproc.c:191-193, 230).
CountsAgree ==
    (phase # "failed" /\ \A k \in 1..Len(list) : list[k].n >= 0) =>
        /\ nsamp >= Len(out)
        /\ cut = {} => nsamp = Len(out)

\* Of two packets that were stored the later one ends at least one sample
\* after the earlier one: no packet is stored twice (sacproc.c:199-202).
NoDuplicateKept ==
    (\A k \in 1..Len(list) : list[k].start <= list[k].end) =>
        \A j, k \in Kept : j < k => list[j].end + list[k].per <= list[k].end

\* A bogus gap ends the trace.  endtime is not advanced past a packet dropped
\* for a bogus gap (sacproc.c:172-176), so when no count was negative up to
\* there and the packets that come after it start later and have its sample
\* rate, none of them is stored either.
BogusEndsTrace ==
    \A b \in bogus :
        /\ \A k \in 1..b-1 : list[k].n >= 0
        /\ \A k \in b+1..Len(list) :
              list[k].per = list[b].per /\ list[k].start >= list[b].start + list[b].per
        => \A k \in b+1..Len(list) : k \notin Kept

\* Packets that carry on from each other at one rate, exact duplicates aside.
Clean(t) ==
    /\ \A k \in 1..Len(t) :
          /\ t[k].copyable /\ t[k].n >= 1
          /\ t[k].per = t[1].per
          /\ t[k].end = t[k].start + (t[k].n - 1) * t[k].per
    /\ \A k \in 2..Len(t) :
          t[k] = t[k-1] \/ t[k].start = t[k-1].end + t[k].per

TimeOf(w) == list[w[1]].start + (w[2] - 1) * list[w[1]].per

\* From clean packets the series is what its header says: word x is the
\* sample of time b + x * delta, and every packet or its twin is in it
\* ("Evenly spaced data", sacproc.c:299).
CleanIsEven ==
    Clean(list) =>
        /\ \A x \in 1..Len(out) : TimeOf(out[x]) = reftime + (x - 1) * period
        /\ \A k \in 1..i-1 : k \in Kept \/ \E j \in Kept : list[j] = list[k]

-----------------------------------------------------------------------------
\* The claims of the code's comments that do not hold for every trace.

\* "Samples in trace" (sacproc.c:233): the file has as many samples as its
\* header says.
NptsIsWritten ==
    (phase = "done" /\ \A k \in 1..Len(list) : list[k].n >= 0) => npts = Len(out)

\* "Evenly spaced data" (sacproc.c:299): when the gaps between packets of
\* one rate are whole numbers of periods, wide enough to be filled and fit
\* the buffer, every sample stands where the reference time puts it.
FillableGaps(t) ==
    /\ \A k \in 1..Len(t) :
          /\ t[k].per = t[1].per /\ t[k].copyable /\ t[k].n >= 1
          /\ t[k].end = t[k].start + (t[k].n - 1) * t[k].per
    /\ \A k \in 2..Len(t) :
          LET gap == t[k].start - t[k-1].end
          IN  gap % t[1].per = 0 /\ (gap = t[1].per \/ gap > 2 * t[1].per)

EvenlySpaced ==
    (FillableGaps(list) /\ bogus = {} /\ cut = {}) =>
        \A x \in 1..Len(out) :
            out[x] # FillWord => TimeOf(out[x]) = reftime + (x - 1) * period

\* "This is a duplicated tracebuf, we'll just skip it" (sacproc.c:200): what
\* is skipped without a message is inside a packet that was stored.
SkippedIsCovered ==
    \A k \in 1..i-1 :
        (k \notin Kept \union bogus /\ list[k].copyable) =>
            \E j \in Kept : /\ list[j].start <= list[k].start
                            /\ list[k].end < list[j].end + list[k].per
=============================================================================
