----------------------------- MODULE MseedReader -----------------------------
(***************************************************************************)
(* Reading a file of miniSEED into a trace list: fileutils.c               *)
(* (ms3_readtracelist_selection(), ms3_readmsr_selection()) with msr3_parse()*)
(* and ms3_detect() of parseutils.c and the selections of selection.c.     *)
(*                                                                         *)
(* Lengths are counted in cells as in RecordScan, whose promise this is to *)
(* keep.  The file is read in pieces into a buffer; a call of the reader   *)
(* returns one record, and the caller adds it to the list.                 *)
(***************************************************************************)
EXTENDS Wanted

CONSTANTS
    MinRecLen, MaxRecLen, HeaderLen, ScanStep, SkipLen,  \* as in RecordScan
    BlockLen,    \* length of blockette 1000
    MaxDigits,   \* digits of an offset in a path name
    Inputs,      \* path, file, flags and selections of a call
    Tried        \* records that the selections are tried on

ASSUME ReaderAssumption ==
    /\ {MinRecLen, MaxRecLen, HeaderLen, ScanStep, SkipLen, BlockLen, MaxDigits} \subseteq Nat \ {0}
    /\ MinRecLen <= HeaderLen /\ HeaderLen <= ScanStep /\ ScanStep < MaxRecLen
    /\ SkipLen <= MinRecLen

VARIABLES
    input,       \* one of Inputs, never changed
    lines,       \* lines of the file of selections that have been read
    selections,  \* the list made of them, <<>> for NULL
    msfp,        \* MS3FileParam: where the stream stands and what is buffered
    parseval,    \* result of the last msr3_parse() of this call
    pc,          \* "select", "loop", "filled" (data has been read), "returned", "done"
    retcode,     \* what ms3_readmsr_selection() returned last
    msr,         \* the record it returned with its place, <<>> for none
    list,        \* the records added to the trace list
    result,      \* what ms3_readtracelist_selection() returns
    spoilt       \* history: a header was misread at the edge of the buffer

vars == <<input, lines, selections, msfp, parseval, pc, retcode, msr, list, result, spoilt>>

\* MS3FileParam_INITIALIZER; the buffer's length is readlength, handle is the
\* place of the file descriptor.
Initializer ==
    [from |-> 0, to |-> 0, streampos |-> 0, buffer |-> <<>>, readoffset |-> 0,
     handle |-> 0, eof |-> FALSE, recordcount |-> 0]

\* The requests stand in a file of selections, or are one for a window of time.
ReaderInit(in) ==
    /\ input = in
    /\ lines = IF in.window THEN 1 ELSE 0
    /\ selections = IF in.window THEN TimeWindow(in.requests[1].start, in.requests[1].end) ELSE <<>>
    /\ msfp = Initializer /\ parseval = 0 /\ pc = "select" /\ retcode = "NOERROR"
    /\ msr = <<>> /\ list = <<>> /\ result = "none" /\ spoilt = FALSE

-----------------------------------------------------------------------------
(* Path names: parse_pathname_range() *)

Digits == [digit \in {"0", "1", "2", "9"} |->
              CASE digit = "0" -> 0 [] digit = "1" -> 1 [] digit = "2" -> 2 [] digit = "9" -> 9]
IsOffset(text) == Len(text) <= MaxDigits /\ \A x \in DOMAIN text : text[x] \in DOMAIN Digits
Offset(text)   == FoldLeft(LAMBDA n, digit : 10 * n + Digits[digit], 0, text)

\* The suffix @START-END, of which anything may be missing; otherwise no range.
PathRange(path) ==
    LET sign == SelectLastInSeq(path, LAMBDA byte : byte = "@")
        tail == SubSeq(path, sign + 1, Len(path))
        dash == SelectInSeq(tail, LAMBDA byte : byte = "-")
        from == IF dash = 0 THEN tail ELSE SubSeq(tail, 1, dash - 1)
        to   == IF dash = 0 THEN <<>> ELSE SubSeq(tail, dash + 1, Len(tail))
    IN  IF sign > 0 /\ IsOffset(from) /\ IsOffset(to)
        THEN [name |-> SubSeq(path, 1, sign - 1), from |-> Offset(from), to |-> Offset(to)]
        ELSE [name |-> path, from |-> 0, to |-> 0]

\* A file is a sequence of cells; a header states a length, and an offset is a
\* number.
CellsOf(in) == {in.cells[p] : p \in DOMAIN in.cells}
ASSUME InputsAssumption ==
    \A in \in Inputs :
        /\ in.cells \in Seq(CellsOf(in))
        /\ \A cell \in CellsOf(in) : cell.kind \in {"v2", "v3"} => cell.rec.len \in Nat
        /\ PathRange(in.path).from \in Nat /\ PathRange(in.path).to \in Nat

\* The lines of a file of selections, or one request for a window of time; the
\* records that the selections are tried on.
ASSUME SelectionAssumption ==
    /\ \A rec \in Tried : RecordOK(rec)
    /\ \A in \in Inputs :
          /\ in.requests \in Seq({in.requests[x] : x \in DOMAIN in.requests})
          /\ \A x \in DOMAIN in.requests : RequestOK(in.requests[x])
          /\ in.window =>
                /\ in.requests = <<BySource(<<AnyBytes>>, in.requests[1].start, in.requests[1].end, 0)>>
                /\ BadDate \notin {in.requests[1].start, in.requests[1].end}

-----------------------------------------------------------------------------
(* Detecting and parsing: ms3_detect(), msr3_parse() *)

\* Following the blockettes of a header of version 2 through the memory there
\* is: what is found, or at the edge of the memory anything.
FollowChain(rec, buflen) ==
    LET follow[offset \in Nat] ==
            IF offset < HeaderLen \/ offset > buflen THEN {"nothing"}
            ELSE IF offset = buflen THEN {"nothing", "invalid"}
            ELSE IF rec.blocks[offset].type = 1000 /\ offset + BlockLen <= buflen THEN {"length"}
            ELSE IF rec.blocks[offset].next # 0 /\ rec.blocks[offset].next <= offset THEN {"invalid"}
            ELSE follow[rec.blocks[offset].next]
    IN  follow[IF rec.blocks = <<>> THEN 0 ELSE HeaderLen]

\* The headers of version 2 that may follow a record.
FollowingHeaders(buf) ==
    {offset \in 1..Len(buf) : /\ offset % ScanStep = 0 /\ offset + HeaderLen < Len(buf)
                              /\ buf[offset + 1].kind = "v2"}

\* ms3_detect(): -1 for no record, 0 for a length that cannot be told.
Detect(buf) ==
    IF buf[1].kind = "v3" THEN {buf[1].rec.len}
    ELSE IF buf[1].kind # "v2" THEN {-1}
    ELSE {CASE found = "length"  -> buf[1].rec.len
            [] found = "invalid" -> -1
            [] OTHER -> Min(FollowingHeaders(buf) \union {Len(buf)}) % Len(buf)
            : found \in FollowChain(buf[1].rec, Len(buf))}

PowerOfTwo(n) == \E k \in 0..17 : 2 ^ k = n
Failed(code) == [code |-> code, need |-> -1, reclen |-> 0]
Unpacked(first, reclen, unpack) ==
    IF first.kind = "v2" /\ reclen < ScanStep THEN Failed("OUTOFRANGE")
    ELSE IF first.rec.sound /\ (unpack => first.rec.data)
    THEN [code |-> "NOERROR", need |-> 0, reclen |-> reclen]
    ELSE Failed("GENERROR")

\* msr3_parse(), for a length that was detected.
Parsed(buf, eof, unpack, detected) ==
    LET reclen == IF detected = 0 /\ eof /\ PowerOfTwo(Len(buf)) /\ Len(buf) <= MaxRecLen
                  THEN Len(buf) ELSE detected
    IN  CASE reclen < 0 -> Failed("NOTSEED")
          [] reclen = 0 -> [code |-> "MORE", need |-> MinRecLen, reclen |-> 0]
          [] reclen > 0 /\ reclen \notin MinRecLen..MaxRecLen -> Failed("OUTOFRANGE")
          [] reclen \in MinRecLen..MaxRecLen /\ reclen > Len(buf) ->
                 [code |-> "MORE", need |-> reclen - Len(buf), reclen |-> 0]
          [] OTHER -> Unpacked(buf[1], reclen, unpack)

-----------------------------------------------------------------------------
(* Reading the selections and opening the file *)

SelectLine ==
    /\ pc = "select" /\ lines < Len(input.requests)
    /\ LET new == ReadLine(selections, input.requests[lines + 1].words)
       IN  IF new = BadLine
           THEN pc' = "done" /\ result' = "GENERROR" /\ UNCHANGED <<lines, selections>>
           ELSE selections' = new /\ lines' = lines + 1 /\ UNCHANGED <<pc, result>>
    /\ UNCHANGED <<input, msfp, parseval, retcode, msr, list, spoilt>>

OpenFile ==
    /\ pc = "select" /\ lines = Len(input.requests)
    /\ LET range == IF input.ranged THEN PathRange(input.path)
                    ELSE [name |-> input.path, from |-> 0, to |-> 0]
       IN  IF range.name = input.name
           THEN /\ msfp' = [msfp EXCEPT !.from = range.from, !.to = range.to,
                                        !.handle = range.from, !.streampos = range.from]
                /\ pc' = "loop" /\ UNCHANGED result
           ELSE pc' = "done" /\ result' = "GENERROR" /\ UNCHANGED msfp
    /\ UNCHANGED <<input, lines, selections, parseval, retcode, msr, list, spoilt>>

-----------------------------------------------------------------------------
(* ms3_readmsr_selection() *)

Return(code) == pc' = "returned" /\ retcode' = code

BufLen   == Len(msfp.buffer) - msfp.readoffset
Unread   == SubSeq(msfp.buffer, msfp.readoffset + 1, Len(msfp.buffer))
RangeEnds == msfp.to > 0 /\ msfp.to + 1 - msfp.streampos < MinRecLen
NeedsData == ~msfp.eof /\ (BufLen < MinRecLen \/ parseval > 0)

AtRangeEnd ==
    /\ pc = "loop" /\ RangeEnds
    /\ Return("ENDOFFILE")
    /\ UNCHANGED <<input, lines, selections, msfp, parseval, msr, list, result, spoilt>>

\* Slip: what is left in the buffer is thrown away, though it was needed.
ThrownAway(m) == [m EXCEPT !.buffer = <<>>, !.readoffset = 0]

\* ms3_shift_msfp(), when there is something left to shift.
Shifted(m) ==
    [m EXCEPT !.buffer = SubSeq(@, m.readoffset + 1, Len(@)), !.readoffset = 0]
Filled(m, n) ==
    [m EXCEPT !.buffer = @ \o SubSeq(input.cells, m.handle + 1, m.handle + n),
              !.handle = @ + n, !.eof = n < MaxRecLen - Len(m.buffer)]

Fill ==
    /\ pc = "loop" /\ ~RangeEnds /\ NeedsData
    /\ LET kept  == Shifted(msfp)
           there == Max({0, Len(input.cells) - msfp.handle})
       IN  msfp' = Filled(kept, Min({there, MaxRecLen - Len(kept.buffer)}))
    /\ pc' = "filled"
    /\ UNCHANGED <<input, lines, selections, parseval, retcode, msr, list, result, spoilt>>

ReadFails ==
    /\ pc = "loop" /\ ~RangeEnds /\ NeedsData /\ "disk" \in input.fails
    /\ msfp' = Shifted(msfp)
    /\ Return("GENERROR")
    /\ UNCHANGED <<input, lines, selections, parseval, msr, list, result, spoilt>>

\* The end of the loop: once more, or the end of the stream.
Again(m) ==
    IF m.eof /\ Len(m.buffer) - m.readoffset < MinRecLen
    THEN Return(IF m.recordcount = 0 THEN "NOTSEED" ELSE "ENDOFFILE")
    ELSE pc' = "loop" /\ UNCHANGED retcode

Ready == pc = "filled" \/ (pc = "loop" /\ ~RangeEnds /\ ~NeedsData)

TooLittle ==
    /\ Ready /\ BufLen < MinRecLen
    /\ Again(msfp)
    /\ UNCHANGED <<input, lines, selections, msfp, parseval, msr, list, result, spoilt>>

\* The data is unpacked by msr3_parse() unless there are selections.
Deferred == input.unpack /\ selections # <<>>
Outcomes ==
    {Parsed(Unread, msfp.eof, input.unpack /\ ~Deferred, detected) : detected \in Detect(Unread)}
Advanced(n) == [msfp EXCEPT !.readoffset = @ + n, !.streampos = @ + n]
Seen(outcome) ==
    /\ parseval' = outcome.need
    /\ spoilt' = (spoilt \/ (Detect(Unread) # {-1} /\ outcome.code = "NOTSEED"))
    /\ UNCHANGED <<input, lines, selections, list, result>>
Selects(rec) == selections = <<>> \/ MatchSelect(selections, rec)
Selected == Selects(Unread[1].rec)

ReturnRecord(outcome) ==
    /\ outcome.code = "NOERROR" /\ Selected
    /\ Deferred => Unread[1].rec.data
    /\ msr' = <<[rec |-> Unread[1].rec, place |-> msfp.streampos]>>
    /\ msfp' = [Advanced(outcome.reclen) EXCEPT !.recordcount = @ + 1]
    /\ Return("NOERROR")
    /\ Seen(outcome)

SkipUnselected(outcome) ==
    /\ outcome.code = "NOERROR" /\ ~Selected
    /\ msfp' = Advanced(outcome.reclen)
    /\ Again(msfp')
    /\ Seen(outcome) /\ UNCHANGED msr

DataUnreadable(outcome) ==
    /\ outcome.code = "NOERROR" /\ Selected
    /\ Deferred /\ ~Unread[1].rec.data
    /\ Return("GENERROR")
    /\ Seen(outcome) /\ UNCHANGED <<msfp, msr>>

\* Slip: a record of unknown length is waited for though the buffer is full.
WaitedFor(outcome) ==
    outcome.code = "MORE" /\ outcome.need > MinRecLen /\ BufLen + outcome.need > MaxRecLen

\* No record, or one that is longer than the buffer: skipped or an error.
TooLong(outcome) == outcome.code = "MORE" /\ BufLen + outcome.need > MaxRecLen
SkipBytes(outcome) ==
    /\ input.skip
    /\ outcome.need < 0 \/ TooLong(outcome)
    /\ msfp' = Advanced(SkipLen)
    /\ Again(msfp')
    /\ Seen(outcome) /\ UNCHANGED msr

ParseError(outcome) ==
    /\ ~input.skip
    /\ outcome.need < 0 \/ TooLong(outcome)
    /\ Return(IF outcome.need < 0 THEN outcome.code ELSE "OUTOFRANGE")
    /\ Seen(outcome) /\ UNCHANGED <<msfp, msr>>

\* A record of which more is needed: read on, unless the file ends here.
Truncated(outcome) ==
    /\ outcome.code = "MORE" /\ ~TooLong(outcome)
    /\ IF msfp.eof THEN Return("ENDOFFILE") ELSE pc' = "loop" /\ UNCHANGED retcode
    /\ Seen(outcome) /\ UNCHANGED <<msfp, msr>>

ReadRecord ==
    /\ Ready /\ BufLen >= MinRecLen
    /\ \E outcome \in Outcomes :
         \/ ReturnRecord(outcome) \/ SkipUnselected(outcome) \/ DataUnreadable(outcome)
         \/ SkipBytes(outcome) \/ ParseError(outcome) \/ Truncated(outcome)

-----------------------------------------------------------------------------
(* ms3_readtracelist_selection() *)

AddRecord ==
    /\ pc = "returned" /\ retcode = "NOERROR"
    /\ list' = list \o msr /\ msr' = <<>>
    /\ pc' = "loop" /\ parseval' = 0
    /\ UNCHANGED <<input, lines, selections, msfp, retcode, result, spoilt>>

\* mstl3_addmsr_recordptr() refuses it.
RefuseRecord ==
    /\ pc = "returned" /\ retcode = "NOERROR" /\ "list" \in input.fails
    /\ pc' = "done" /\ result' = "GENERROR"
    /\ UNCHANGED <<input, lines, selections, msfp, parseval, retcode, msr, list, spoilt>>

Finish ==
    /\ pc = "returned" /\ retcode # "NOERROR"
    /\ pc' = "done" /\ result' = IF retcode = "ENDOFFILE" THEN "NOERROR" ELSE retcode
    /\ UNCHANGED <<input, lines, selections, msfp, parseval, retcode, msr, list, spoilt>>

ReaderNext ==
    \/ SelectLine \/ OpenFile \/ AtRangeEnd \/ Fill \/ ReadFails \/ TooLittle
    \/ ReadRecord \/ AddRecord \/ RefuseRecord \/ Finish

ReaderSpec == (\E in \in Inputs : ReaderInit(in)) /\ [][ReaderNext]_vars

-----------------------------------------------------------------------------
(* Properties *)

Outcome ==
    CASE pc = "select" -> "closed"
      [] pc = "done" -> IF result = "NOERROR" THEN "end" ELSE "failed"
      [] OTHER -> "reading"

Scan == INSTANCE RecordScan WITH at <- msfp.streampos, got <- list \o msr, outcome <- Outcome

\* Wherever the buffer ends, records are returned in order, each where it
\* stands, none twice and none left out that is wanted and can be read, until
\* the end or an error; and the file this program writes is read to its end.
\* What is wanted is known if no request was cut.
RecordsReturned == [][Scan!ScanNext \/ ~NoneCut(input.requests)]_(Scan!scanvars)

\* Every call comes to an end, and so does the file.
ReadingEnds == <>(pc = "done")

\* When the lines have been read, the list selects what they ask for, by
\* pattern, by codes, by time and by version, if none of them was cut.
SelectionFaithful ==
    /\ pc = "loop" /\ msfp.handle = msfp.from
    /\ NoneCut(input.requests)
    =>
        \A rec \in Tried :
            /\ Selects(rec) <=> IsWanted(input.requests, rec)
            /\ \A x \in DOMAIN input.requests :
                  SixCodes(rec.sid) /\ Named(input.requests[x], Sid2Nslc(rec.sid))
                      => Fits(input.requests[x].sid, rec.sid)
=============================================================================
