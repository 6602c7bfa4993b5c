----------------------------- MODULE TankConvert ----------------------------
(***************************************************************************)
(* The conversion of a tank file: main() of src/tbconvert.c from the       *)
(* mapping of the file on, with the duties counted by src/progbar.c.  The  *)
(* scan is TankScan and the conversion of one trace to SAC is SacTrace,    *)
(* both step by step; the conversion of a trace to miniSEED is one step,   *)
(* the writing of the miniSEED file another.                               *)
(***************************************************************************)
EXTENDS TankScan

CONSTANTS
    Now, Second, Grow, HdrWords,   \* as in SacTrace
    SlotWords,   \* words of the first output buffer for each slot of the list
    Formats      \* the values of ConvFormat: "SAC", "MSEED", "MSEED3"

ASSUME ConvertAssumption ==
    /\ SlotWords \in Nat /\ Grow \in Nat
    /\ Formats \subseteq {"SAC", "MSEED", "MSEED3"}

\* One realloc_outbuf() is enough for any message: 204800 words for 4032 bytes.
ASSUME GrowAssumption == MaxTracebuf - HdrLen <= Grow

\* What a file with a negative count does to the scan is shown with TankScan;
\* here such files are left out.
ASSUME CountsAssumption == CountsAreNat

VARIABLES
    disk,        \* the file; the mapping is private and leaves it alone
    ConvFormat,
    stage,       \* where main() is: "scan", "traces" (top of the loop over
                 \* TraceList), "sac", "pack", "unmap"; "exit" (0), "failed"
                 \* (-1), "crashed", "faulted" (at bytes that are not mapped)
    t,           \* the trace the loop is at: TraceList[t]
    TotalDuty,   \* of the progress bar, 0 before progbar_init()
    CompDuty,
    files,       \* for each channel the words of its SAC file, every word as
                 \* <<offset of the message, number of the sample>>
    saved,       \* channels that have a complete file
    fed,         \* for each channel the offsets handed to mstl3_addmsr()
    lost         \* history: channels whose conversion returned -1

convvars == <<disk, ConvFormat, stage, t, TotalDuty, files, saved, fed, lost>>

\* The local variables of sacproc_trace_output().
VARIABLES list, i, sacphase, endtime, period, cap, out, nsamp, reftime, npts,
          file, place, bogus, cut

sacvars == <<list, i, sacphase, endtime, period, cap, out, nsamp, reftime,
             npts, file, place, bogus, cut>>

Sac == INSTANCE SacTrace WITH
    Traces <- {}, InitCap <- 0, phase <- sacphase, pos <- place

allvars == <<vars, convvars, CompDuty, sacvars>>

-----------------------------------------------------------------------------
\* A message as the converters read it, again from the mapped bytes, with one
\* sample per tick.  Its datatype is known if the digit is all atoi() reads.
PacketAt(o) ==
    LET h == tank[o]
    IN  [start |-> h.time - (h.n - 1), end |-> h.time, per |-> 1, n |-> h.n,
         copyable |-> h.width = h.digit]

OffsetsOf(c) == [k \in 1..Len(tlist[c]) |-> tlist[c][k].offset]

\* The channel of the trace the loop is at.
Chan == TraceList[t]

ConvInit ==
    /\ Init
    /\ disk = tank
    /\ ConvFormat \in Formats
    /\ stage = "scan" /\ t = 1
    /\ TotalDuty = 0 /\ CompDuty = 0
    /\ files = [c \in Chans |-> <<>>] /\ saved = {}
    /\ fed = [c \in Chans |-> <<>>] /\ lost = {}
    /\ list = <<>> /\ i = 1 /\ sacphase = "none" /\ endtime = 0 /\ period = 1
    /\ cap = 0 /\ out = <<>> /\ nsamp = 0 /\ reftime = 0 /\ npts = 0
    /\ file = "none" /\ place = <<>> /\ bogus = {} /\ cut = {}

Scan ==
    /\ stage = "scan"
    /\ Next
    /\ UNCHANGED <<convvars, CompDuty, sacvars>>

\* scan_tracebuf() <= 0: the program ends with -1.
ScanFruitless ==
    /\ stage = "scan"
    /\ phase = "failed" \/ (phase = "done" /\ totaltrace = 0)
    /\ stage' = "failed"
    /\ UNCHANGED <<vars, sacvars, disk, ConvFormat,
                   t, TotalDuty, CompDuty, files, saved, fed, lost>>

\* The scan touches bytes that are not mapped: the program is killed.
ScanFaults ==
    /\ stage = "scan"
    /\ phase = "outside"
    /\ stage' = "faulted"
    /\ UNCHANGED <<vars, sacvars, disk, ConvFormat,
                   t, TotalDuty, CompDuty, files, saved, fed, lost>>

\* progbar_init(totaltrace + 2), and on to the traces.
ScanComplete ==
    /\ stage = "scan"
    /\ phase = "done" /\ totaltrace > 0
    /\ stage' = "traces"
    /\ TotalDuty' = totaltrace + 2
    /\ CompDuty' = 0
    /\ UNCHANGED <<vars, sacvars, disk, ConvFormat,
                   t, files, saved, fed, lost>>

-----------------------------------------------------------------------------
AtTrace == stage = "traces" /\ t <= totaltrace /\ UNCHANGED vars

\* sacproc_trace_output() is called: its buffer and variables are new.
BeginSac ==
    /\ AtTrace
    /\ ConvFormat = "SAC"
    /\ stage' = "sac"
    /\ list' = [k \in 1..Len(tlist[Chan]) |-> PacketAt(OffsetsOf(Chan)[k])]
    /\ cap' = SlotWords * maxtbuf[Chan]
    /\ i' = 1 /\ sacphase' = "head" /\ endtime' = Now /\ period' = Second
    /\ out' = <<>> /\ nsamp' = 0 /\ reftime' = Sac!SACUNDEF /\ npts' = 0
    /\ file' = "none" /\ place' = [k \in 1..Len(tlist[Chan]) |-> 0]
    /\ bogus' = {} /\ cut' = {}
    /\ UNCHANGED <<disk, ConvFormat, t, TotalDuty, CompDuty, files, saved, fed,
                   lost>>

\* The samples of a message that the end of the file cuts off are read up to
\* the end the entry gives.  What the page holds behind the file is zero and is
\* taken for samples (SacStep); behind the page the program may be killed.
SacFaults ==
    /\ stage = "sac" /\ sacphase = "store"
    /\ list[i].copyable /\ CutOff(OffsetsOf(Chan)[i])
    /\ stage' = "faulted"
    /\ UNCHANGED <<vars, sacvars, disk, ConvFormat,
                   t, TotalDuty, CompDuty, files, saved, fed, lost>>

SacStep ==
    /\ stage = "sac"
    /\ Sac!Next
    /\ UNCHANGED <<vars, convvars>>

\* Where a word of the output came from.
Origin(w) == IF w = Sac!FillWord THEN w ELSE <<OffsetsOf(Chan)[w[1]], w[2]>>

\* npts words go to the file.  When npts counts more than was stored, the
\* rest is what happens to be behind.
FileWords == [x \in 1..npts |-> IF x <= Len(out) THEN Origin(out[x]) ELSE Sac!FillWord]

\* sacproc_trace_output() returns 0.
SacReturns ==
    /\ stage = "sac" /\ sacphase = "done"
    /\ files' = [files EXCEPT ![Chan] = FileWords]
    /\ saved' = saved \union {Chan}
    /\ stage' = "traces" /\ t' = t + 1
    /\ UNCHANGED <<vars, sacvars, disk, ConvFormat,
                   TotalDuty, CompDuty, fed, lost>>

\* Slip: a trace whose conversion failed is tried again.
ErrorRetries ==
    /\ stage = "sac" /\ sacphase = "failed"
    /\ lost' = lost \union {Chan}
    /\ stage' = "traces"
    /\ UNCHANGED <<vars, sacvars, disk, ConvFormat,
                   t, TotalDuty, CompDuty, files, saved, fed>>

\* Slip: a failed conversion takes the next trace with it.
ErrorSkips ==
    /\ stage = "sac" /\ sacphase = "failed"
    /\ lost' = lost \union {Chan}
    /\ stage' = "traces" /\ t' = t + 2
    /\ UNCHANGED <<vars, sacvars, disk, ConvFormat,
                   TotalDuty, CompDuty, files, saved, fed>>

\* Slip: a failed conversion counts its duty.
ErrorCounted ==
    /\ stage = "sac" /\ sacphase = "failed"
    /\ lost' = lost \union {Chan}
    /\ stage' = "traces" /\ t' = t + 1
    /\ CompDuty' = CompDuty + 1
    /\ UNCHANGED <<vars, sacvars, disk, ConvFormat,
                   TotalDuty, files, saved, fed>>

\* It returns -1; the result is not looked at and the loop goes on.
SacReturnsError ==
    /\ stage = "sac" /\ sacphase = "failed"
    /\ lost' = lost \union {Chan}
    /\ stage' = "traces" /\ t' = t + 1
    /\ UNCHANGED <<vars, sacvars, disk, ConvFormat,
                   TotalDuty, CompDuty, files, saved, fed>>

\* A write to a stream that is not open.
SacCrashes ==
    /\ stage = "sac" /\ sacphase = "crashed"
    /\ stage' = "crashed"
    /\ UNCHANGED <<vars, sacvars, disk, ConvFormat,
                   t, TotalDuty, CompDuty, files, saved, fed, lost>>

-----------------------------------------------------------------------------
AtMseedTrace ==
    /\ AtTrace
    /\ ConvFormat # "SAC"
    /\ UNCHANGED <<sacvars, disk, ConvFormat, TotalDuty, files, saved>>

\* The places in a list of the messages whose type msproc_tlist_add() knows.
Known(c) == {k \in 1..Len(tlist[c]) : PacketAt(OffsetsOf(c)[k]).copyable}

\* msr3_free() is left with a pointer into the mapping if the last message
\* was skipped for its type.
EndsAttached(c) ==
    /\ Len(tlist[c]) > 0
    /\ ~PacketAt(OffsetsOf(c)[Len(tlist[c])]).copyable

\* msproc_tlist_add(): every message that is known goes to the trace list, in
\* the order of the list it comes from.
AddTrace ==
    /\ AtMseedTrace
    /\ \E at \in [1..Cardinality(Known(Chan)) -> Known(Chan)] :
         /\ \A j, k \in DOMAIN at : j < k => at[j] < at[k]
         /\ fed' = [fed EXCEPT ![Chan] = [k \in DOMAIN at |-> OffsetsOf(Chan)[at[k]]]]
    /\ CompDuty' = CompDuty + 1
    /\ IF EndsAttached(Chan) THEN stage' = "crashed" /\ UNCHANGED t
                             ELSE t' = t + 1 /\ UNCHANGED stage
    /\ UNCHANGED lost

\* The same when samples are converted or copied into a segment.
AddFaults ==
    /\ AtMseedTrace
    /\ \E k \in Known(Chan) : CutOff(OffsetsOf(Chan)[k])
    /\ stage' = "faulted"
    /\ UNCHANGED <<t, fed, CompDuty, lost>>

\* msr3_init() fails: return -1, which is not looked at.
AddFails ==
    /\ AtMseedTrace
    /\ lost' = lost \union {Chan}
    /\ t' = t + 1
    /\ UNCHANGED <<stage, fed, CompDuty>>

\* All traces are through: one more duty.
TracesThrough ==
    /\ stage = "traces"
    /\ t > totaltrace
    /\ CompDuty' = CompDuty + 1
    /\ stage' = IF ConvFormat = "SAC" THEN "unmap" ELSE "pack"
    /\ UNCHANGED <<vars, sacvars, disk, ConvFormat,
                   t, TotalDuty, files, saved, fed, lost>>

\* mstl3_writemseed() writes the traces it was given to one file.
Pack ==
    /\ stage = "pack"
    /\ saved' = {TraceList[k] : k \in 1..totaltrace} \ lost
    /\ stage' = "unmap"
    /\ UNCHANGED <<vars, sacvars, disk, ConvFormat,
                   t, TotalDuty, CompDuty, files, fed, lost>>

\* It gives up halfway; the result is not looked at.
PackFails ==
    /\ stage = "pack"
    /\ stage' = "unmap"
    /\ UNCHANGED <<vars, sacvars, disk, ConvFormat,
                   t, TotalDuty, CompDuty, files, saved, fed, lost>>

\* "Conversion complete!", and 0 is returned.
Unmap ==
    /\ stage = "unmap"
    /\ CompDuty' = CompDuty + 1
    /\ stage' = "exit"
    /\ UNCHANGED <<vars, sacvars, disk, ConvFormat,
                   t, TotalDuty, files, saved, fed, lost>>

ConvNext ==
    \/ Scan \/ ScanFruitless \/ ScanFaults \/ ScanComplete
    \/ BeginSac \/ SacStep \/ SacFaults \/ SacReturns \/ SacReturnsError \/ SacCrashes
    \/ AddTrace \/ AddFaults \/ AddFails
    \/ TracesThrough \/ Pack \/ PackFails \/ Unmap

ConvSpec == ConvInit /\ [][ConvNext]_allvars

\* One thread that does nothing but convert.
ConvFairSpec == ConvSpec /\ WF_allvars(ConvNext)

-----------------------------------------------------------------------------
\* Type invariant of main().
ConvTypeOK ==
    /\ stage \in {"scan", "traces", "sac", "pack", "unmap", "exit", "failed",
                  "crashed", "faulted"}
    /\ t \in 1..totaltrace + 1
    /\ TotalDuty \in Nat /\ CompDuty \in Nat
    /\ files \in [Chans -> Seq(Nat \X Nat)]
    /\ fed \in [Chans -> Seq(Nat)]
    /\ saved \subseteq known /\ lost \subseteq known

\* The messages of channel c, all of them good ones that are whole, carry on
\* from each other in time, wherever they stand in the file.
From(o) == disk[o].time - (disk[o].n - 1)
Messages(c) == {o \in DOMAIN disk : disk[o] # Junk /\ disk[o].chan = c}

CleanTank ==
    \A c \in Chans : \A o \in Messages(c) :
        /\ disk[o].consistent /\ disk[o].n >= 1 /\ disk[o].width = disk[o].digit
        /\ ~TooMany(disk[o]) /\ ~TooLarge(disk[o])
        /\ o + Size(disk[o]) <= TankSize
        /\ \A x \in o+1..o+Size(disk[o])-1 : disk[x] = Junk
        /\ \A p \in Messages(c) \ {o} :
              disk[p].time < From(o) \/ disk[o].time < From(p)
        /\ \/ \A p \in Messages(c) : From(o) <= From(p)
           \/ \E p \in Messages(c) : disk[p].time + 1 = From(o)

Earliest(c) == CHOOSE x \in {From(o) : o \in Messages(c)} :
                   \A o \in Messages(c) : x <= From(o)
Latest(c)   == CHOOSE x \in {disk[o].time : o \in Messages(c)} :
                   \A o \in Messages(c) : x >= disk[o].time

\* The words of a file are the samples of channel c from its first to its
\* last, one for each tick and none twice.
IsSeries(c, words) ==
    /\ Len(words) = Latest(c) - Earliest(c) + 1
    /\ \A x \in 1..Len(words) :
          LET o == words[x][1]
          IN  /\ o \in Messages(c) /\ words[x][2] \in 1..disk[o].n
              /\ From(o) + words[x][2] - 1 = Earliest(c) + x - 1

\* Of a file of whole messages whose channels have no gaps, in whatever order
\* the messages stand and however the channels are mixed, the program makes
\* for every channel whose conversion does not fail the series of its samples in
\* order of time; to libmseed it hands the messages in that order
\* (tbconvert.c:75-99, sacproc.c:157-231, msproc.c:91-157).
Delivered ==
    (stage = "exit" /\ CleanTank) =>
        \A c \in Chans : Messages(c) # {} =>
            \/ c \in lost
            \/ ConvFormat = "SAC" /\ c \in saved /\ IsSeries(c, files[c])
            \/ /\ ConvFormat # "SAC"
               /\ {fed[c][k] : k \in DOMAIN fed[c]} = Messages(c)
               /\ \A k \in 2..Len(fed[c]) : From(fed[c][k]) = disk[fed[c][k-1]].time + 1

\* The byte of the mapping where a word of the output was read.
ByteOf(w) == w[1] + HdrLen + (w[2] - 1) * tank[w[1]].width

Written ==
    {p \in Chans \X (1..TankSize) :
        p[2] <= Len(files[p[1]]) /\ files[p[1]][p[2]] # Sac!FillWord}

\* Whatever the file holds, every sample that is written comes from a message
\* of its channel that passes the check, and no byte of the file becomes two
\* samples, neither of one channel nor of two (tbconvert.c:153-249,
\* sacproc.c:157-231).
ConvertedOnce ==
    /\ \A p \in Written :
          LET w == files[p[1]][p[2]]
          IN  /\ w[1] \in Messages(p[1]) /\ tank[w[1]].chan = p[1]
              /\ tank[w[1]].consistent
              /\ w[2] \in 1..tank[w[1]].n
    /\ \A p, q \in Written : p # q =>
          ByteOf(files[p[1]][p[2]]) # ByteOf(files[q[1]][q[2]])

\* The progress never passes 100%, and in the end what it is short of are the
\* traces whose conversion returned -1 (progbar.c:28-41, sacproc.c:252,
\* msproc.c:167, tbconvert.c:72, 84, 99, 111).
ProgressFits ==
    /\ TotalDuty > 0 => CompDuty <= TotalDuty
    /\ stage = "exit" => CompDuty + Cardinality(lost) = TotalDuty

\* The program ends, also when conversions fail (tbconvert.c:67-118).
Finishes == <>(stage \in {"exit", "failed", "crashed", "faulted"})

\* "detach the sample buffer from the miniSEED record" (msproc.c:150): the
\* record that is freed after a trace points to nothing that is not its own.
BufferDetached == ~(stage = "crashed" /\ ConvFormat # "SAC")
=============================================================================
