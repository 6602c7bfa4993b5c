---------------------------- MODULE MseedRecord -----------------------------
(***************************************************************************)
(* A segment packed into miniSEED records (msr3_pack_mseed2/3() with the   *)
(* headers, msr_pack_data() and the encoders) and the records unpacked     *)
(* again (msr3_unpack_mseed2/3(), msr3_unpack_data() and the decoders).    *)
(*                                                                         *)
(* The CRC of version 3 is left out: it is not looked at unless asked for. *)
(***************************************************************************)
EXTENDS Blockettes, SampleRate, Encodings, FiniteSets

CONSTANTS
    FloatParts,   \* a rate in single precision: a multiple of 1 / FloatParts
    ExtraBytes    \* bytes of an extra header as text

ASSUME RecordAssumption == FloatParts \in Nat \ {0} /\ ExtraBytes \in Nat

VARIABLES
    job,     \* the segment: sid, start, rate, samples, encoding, version,
             \* extra headers, flags, publication version pub (tbconvert sets
             \* none of these three); and reclen, the bytes of a record (4096
             \* in tbconvert, here a power of 2 from 128 on), and memory, the
             \* words a new record buffer happens to hold
    phase,   \* "header", "encode", "read", "decode", "done"
    result,  \* what msr3_pack() returns, 0 before that
    hdr,     \* the header in the record buffer
    area,    \* the words behind it, or the samples of a fixed size
    total,   \* totalpackedsamples
    words,   \* the words encoded for this record
    diffs,   \* differences looked ahead at
    next,    \* inputidx
    out,     \* outputsamples
    file,    \* the records handed to the handler
    cur,     \* the record being read
    msr,     \* what its header says
    at,      \* the word being decoded
    got,     \* the samples decoded
    back     \* the records read back

packvars   == <<hdr, area, total, words, diffs, next, out, file>>
readvars   == <<cur, msr, at, got, back>>
recordvars == <<job, phase, result, packvars, readvars>>

None == "none"

RecordInit(j) ==
    /\ job = j /\ phase = "header" /\ result = 0
    /\ hdr = None /\ area = <<>> /\ total = 0
    /\ words = <<>> /\ diffs = <<>> /\ next = 0 /\ out = 0 /\ file = <<>>
    /\ cur = 1 /\ msr = None /\ at = 1 /\ got = <<>> /\ back = <<>>

N == Len(job.samples)
Fails == phase' = "read" /\ result' = -1

-----------------------------------------------------------------------------
(* Headers *)

Codes   == Sid2Nslc(job.sid)
Factors == GenFactMult(job.rate)
Expressible(codes) == codes # NoCodes /\ CodesFit(codes)

\* The time of a record; version 2 keeps tenths of milliseconds.
Stamp(nstime) ==
    IF job.version = 3 THEN NsTime2Time(nstime) ELSE BTime(NsTime2Time(nstime))

\* Blockette 1001 for what is left of the start time in microseconds, and
\* blockette 100 for a rate that factor and multiplier do not express.
Micro == (NsTime2Time(job.start).nsec \div NsPerUs) % UsPerFsec
NotThere == <<>>
FloatOf(rate) == Ratio((2 * rate[1] * FloatParts + rate[2]) \div (2 * rate[2]), FloatParts)

\* Slip: a rate is left to factor and multiplier.
NeverExact(factors) == NotThere

ExactRate(factors) ==
    IF Apart(job.rate, NomSampRate(factors[1], factors[2]), Different)
    THEN FloatOf(job.rate) ELSE NotThere

Timed(extra) == "FDSN.Time.Quality" \in DOMAIN extra \/ Micro # 0
Header2With(factors, extra) ==
    [version |-> 2, codes |-> HeaderCodes(Codes), time |-> Stamp(job.start), numsamples |-> 0,
     factor |-> factors[1], multiplier |-> factors[2],
     encoding |-> IF N = 0 THEN "text" ELSE job.encoding,
     quality |-> Quality(extra),
     act |-> Act(extra, job.flags, At0(extra, "FDSN.Time.LeapSecond")),
     io |-> Io(extra, job.flags), dq |-> Dq(extra, job.flags), correct |-> Correction(extra),
     b1001 |-> Timed(extra), micro |-> Micro, timing |-> At0(extra, "FDSN.Time.Quality"),
     b100 |-> ExactRate(factors), blockettes |-> PackExtras(extra, Micro)]
Header3 ==
    [version |-> 3, sid |-> job.sid, time |-> Stamp(job.start), rate |-> job.rate,
     numsamples |-> 0, encoding |-> IF N = 0 THEN "text" ELSE job.encoding,
     extra |-> job.extra, flags |-> job.flags, pub |-> job.pub]

\* Bytes of the header, and where the data begin.
HeaderWritten(h) == \* before the blockettes of extra headers
    56 + (IF h.b1001 THEN 8 ELSE 0) + (IF h.b100 # NotThere THEN 12 ELSE 0)
HeaderLength(h) ==
    IF h.version = 3 THEN 45 + Len(h.sid) + ExtraBytes * Cardinality(DOMAIN h.extra)
    ELSE HeaderWritten(h) + LengthOf(h.blockettes)
DataOffset(h) ==
    IF h.version = 2 /\ IsSteim(h.encoding) THEN 64 * ((HeaderLength(h) + 63) \div 64)
    ELSE HeaderLength(h)
MaxDataBytes(h) == job.reclen - DataOffset(h)
MaxFrames(h)    == MaxDataBytes(h) \div 64

\* The header, or none: there are no codes or factors for it, an extra header
\* cannot be written, or the record is too small.
NoHeader == {}
Header2(factors) ==
    IF ~Expressible(Codes) \/ factors = NoFactors THEN NoHeader
    ELSE {h \in {Header2With(factors, job.extra)} :
              ExtrasFit(h.blockettes, HeaderWritten(h), job.reclen)}
Header ==
    IF job.version = 2 THEN Header2(Factors) ELSE {h \in {Header3} : HeaderLength(h) <= job.reclen}

PackHeaderFails ==
    /\ phase = "header" /\ Header = NoHeader
    /\ Fails
    /\ UNCHANGED <<job, packvars, readvars>>

\* Slip: the differences looked ahead at are kept for the next record.
KeepAhead ==
    words' = <<>> /\ diffs' = (IF diffs = <<>> THEN <<0>> ELSE diffs) /\ next' = 0 /\ out' = 0

\* diff0 is 0: the first sample of a record does not depend on the last.
StartEncoding == words' = <<>> /\ diffs' = <<0>> /\ next' = 0 /\ out' = 0

\* A new record buffer is not cleared.
PackHeader ==
    /\ phase = "header" /\ N > 0
    /\ \E h \in Header : hdr' = h
    /\ area' = IF IsSteim(job.encoding)
               THEN [x \in 1..Room(MaxFrames(hdr')) |-> job.memory] ELSE <<>>
    /\ phase' = "encode"
    /\ StartEncoding
    /\ UNCHANGED <<job, result, total, file, readvars>>

\* Version 3 leaves the number of samples and the length of the data as the
\* memory held them.
PackEmpty ==
    /\ phase = "header" /\ N = 0
    /\ \E h \in Header, left \in IF job.version = 3 THEN {0, 7} ELSE {0} :
          file' = <<[hdr  |-> [h EXCEPT !.numsamples = left],
                     data |-> <<>>, first |-> 0, last |-> 0]>>
    /\ phase' = "read" /\ result' = 1
    /\ UNCHANGED <<job, hdr, area, total, words, diffs, next, out, readvars>>

-----------------------------------------------------------------------------
(* Records *)

Rest      == N - total
Sample(x) == job.samples[total + x]

\* Differences are added to those left until enough are ahead.
Taken(n) == IF n >= Ahead(job.encoding) THEN 0
            ELSE Min({Ahead(job.encoding) - n, Rest - 1 - next})
Refilled ==
    diffs \o [x \in 1..Taken(Len(diffs)) |-> Sample(next + x + 1) - Sample(next + x)]

Encoding ==
    /\ phase = "encode" /\ IsSteim(job.encoding) /\ MaxFrames(hdr) > 0
    /\ out < Rest /\ Len(words) < Room(MaxFrames(hdr))

PackWord(ahead, p) ==
    /\ words' = Append(words, Word(ahead, p))
    /\ diffs' = SubSeq(ahead, p.n + 1, Len(ahead))
    /\ next' = next + Taken(Len(diffs))
    /\ out' = out + p.n

EncodeWord ==
    /\ Encoding
    /\ Possible(Refilled, job.encoding) # {}
    /\ PackWord(Refilled, Fullest(Possible(Refilled, job.encoding)))
    /\ UNCHANGED <<job, phase, result, hdr, area, total, file, readvars>>

DifferenceTooWide ==
    /\ Encoding
    /\ Possible(Refilled, job.encoding) = {}
    /\ Fails
    /\ UNCHANGED <<job, packvars, readvars>>

\* Not one frame, or not one sample, has room.  (The code does not see this
\* for text, and would write records without samples for ever: no job here
\* has text and a header as long as the record.)
NoRoomFor(h) ==
    IF IsSteim(job.encoding) THEN MaxFrames(h) = 0
    ELSE MaxDataBytes(h) < SampleBytes(job.encoding)
NoRoom ==
    /\ phase = "encode" /\ NoRoomFor(hdr)
    /\ Fails
    /\ UNCHANGED <<job, packvars, readvars>>

\* The rest of the last frame is zero; frames not begun keep what an earlier
\* record left in the buffer.
Zeroed == words \o [x \in 1..(Room(FramesOf(Len(words))) - Len(words)) |-> NullWord]
Overlaid == Zeroed \o SubSeq(area, Len(Zeroed) + 1, Len(area))

\* Slip: the next record is dated by the samples of this one.
DatedByRecord(n) == SampleTime(job.start, n, job.rate)

NextStart(n) == SampleTime(job.start, total + n, job.rate)

AllPacked(n) == total + n >= N

\* A record of n samples is handed on; the header is dated for the next one.
HandOn(n, data) ==
    /\ file' = Append(file, [hdr |-> [hdr EXCEPT !.numsamples = n], data |-> data,
                             first |-> Sample(1), last |-> Sample(n)])
    /\ total' = total + n
    /\ StartEncoding
    /\ IF AllPacked(n)
       THEN phase' = "read" /\ result' = Len(file') /\ UNCHANGED hdr
       ELSE hdr' = [hdr EXCEPT !.time = Stamp(NextStart(n))] /\ UNCHANGED <<phase, result>>

PackSteim ==
    /\ phase = "encode" /\ IsSteim(job.encoding) /\ out > 0
    /\ out = Rest \/ Len(words) = Room(MaxFrames(hdr))
    /\ area' = Overlaid
    /\ HandOn(out, IF job.version = 2 THEN Overlaid ELSE Zeroed)
    /\ UNCHANGED <<job, readvars>>

PackFixed ==
    /\ phase = "encode" /\ ~IsSteim(job.encoding) /\ ~NoRoomFor(hdr)
    /\ LET n == Min({Rest, MaxDataBytes(hdr) \div SampleBytes(job.encoding)})
       IN  HandOn(n, [x \in 1..n |-> Cast(Sample(x), job.encoding)])
    /\ UNCHANGED <<job, area, readvars>>

-----------------------------------------------------------------------------
(* Reading back *)

\* Two bytes in the other order.
Swap16(v) == 256 * (v % 256) + ((v \div 256) % 256)
MsIsValidYearDay(year, day) == year \in 1900..2100 /\ day \in 1..366

\* The header is in big-endian order, and taken for little-endian when year
\* and day make sense as such.
TakenForNative(t) == MsIsValidYearDay(Swap16(t.year), Swap16(t.day))
Swapped(t) == [t EXCEPT !.year = Swap16(t.year), !.day = Swap16(t.day), !.fsec = Swap16(t.fsec)]

\* A time correction is added unless the flags say it is in the start time.
\* Blockettes are found through an offset, which is of two bytes, too.
Corrected(start, h) ==
    IF start = NSTERROR THEN start
    ELSE start + h.micro * NsPerUs + (IF 1 \in h.act THEN 0 ELSE h.correct * NsPerFsec)
StartTime(h) ==
    IF h.version = 3 THEN Time2NsTime(h.time)
    ELSE IF TakenForNative(h.time) THEN BTime2NsTime(Swapped(h.time))
    ELSE Corrected(BTime2NsTime(h.time), h)
Blocks(h) ==
    IF h.version = 3 \/ TakenForNative(h.time) THEN <<>>
    ELSE Chained(h.blockettes, HeaderWritten(h), job.reclen)

Read3(h) ==
    [sid |-> h.sid, start |-> StartTime(h), rate |-> h.rate, samples |-> <<>>,
     extra |-> h.extra, flags |-> h.flags, pub |-> h.pub]
Read2(h) ==
    [sid |-> RecordSid(h.codes), start |-> StartTime(h),
     rate |-> IF h.b100 # NotThere THEN h.b100 ELSE NomSampRate(h.factor, h.multiplier),
     samples |-> <<>>,
     extra |-> Extras(h, Blocks(h)), flags |-> FlagsOf(h), pub |-> PubVersion(h.quality)]

\* Words of the payload.  Frames of zeros at its end do not count; that is
\* looked for as far before the end as the data begin behind the start of the
\* record.  (In version 3 the payload ends with a frame that has words.)
DataWords(r) ==
    IF r.hdr.version = 3 THEN Len(r.data)
    ELSE LET shift == DataOffset(r.hdr) \div 64
             Null(d) == \* the frame looked at when there are still d
                 d > shift /\ \A x \in Room(d - shift - 1) + 1 .. Room(d - shift) : r.data[x] = NullWord
         IN  Room(Max({d \in 0..MaxFrames(r.hdr) : d = 0 \/ ~Null(d)}))

Return(r) == back' = Append(back, r) /\ cur' = cur + 1 /\ phase' = "read"
Failed == [error |-> TRUE]
Reading == phase = "read" /\ cur <= Len(file)
ThisHdr == file[cur].hdr

\* A time that is none is an error, in a blockette as well.  The header of an
\* empty record of version 3 may promise samples; with the bytes in the wrong order the data begin behind the record.
Refused(r) ==
    \/ StartTime(r.hdr) = NSTERROR
    \/ Unmapped(Blocks(r.hdr))
    \/ r.hdr.numsamples > 0 /\ r.hdr.version = 2 /\ TakenForNative(r.hdr.time)
    \/ r.hdr.numsamples > 0 /\ r.data = <<>>

ReadFails ==
    /\ Reading /\ Refused(file[cur])
    /\ Return(Failed)
    /\ UNCHANGED <<job, result, packvars, msr, at, got>>

ReadHeader ==
    /\ Reading /\ ~Refused(file[cur])
    /\ msr' = IF ThisHdr.version = 3 THEN Read3(ThisHdr) ELSE Read2(ThisHdr)
    /\ at' = 1 /\ got' = <<>>
    /\ IF ThisHdr.numsamples = 0 THEN Return(msr')
       ELSE phase' = "decode" /\ UNCHANGED <<cur, back>>
    /\ UNCHANGED <<job, result, packvars>>

ThisWord    == file[cur].data[at]
ThisPacking == CHOOSE p \in TakenFor(ThisWord, ThisHdr.encoding) : TRUE

\* A word that is no packing ends the decoding, as the last one does.
Decoding ==
    /\ phase = "decode" /\ IsSteim(ThisHdr.encoding)
    /\ Len(got) < ThisHdr.numsamples /\ at <= DataWords(file[cur])
    /\ ThisWord.nibble = 0 \/ TakenFor(ThisWord, ThisHdr.encoding) # {}

\* The first sample stands in the frame; then the differences add up, to as
\* many samples as the header says.
Changed(s, d) ==
    IF Len(s) = ThisHdr.numsamples THEN s
    ELSE Append(s, IF s = <<>> THEN file[cur].first ELSE s[Len(s)] + d)
Integrated(sofar, changes) ==
    LET after[x \in 0..Len(changes)] ==
            IF x = 0 THEN sofar ELSE Changed(after[x - 1], changes[x])
    IN  after[Len(changes)]

DecodeWord ==
    /\ Decoding
    /\ got' = IF ThisWord.nibble = 0 THEN got
              ELSE Integrated(got, DiffsOf(ThisWord, ThisPacking))
    /\ at' = at + 1
    /\ UNCHANGED <<job, phase, result, packvars, cur, msr, back>>

DecodeFixed ==
    /\ phase = "decode" /\ ~IsSteim(ThisHdr.encoding)
    /\ Return([msr EXCEPT !.samples = SubSeq(file[cur].data, 1, ThisHdr.numsamples)])
    /\ UNCHANGED <<job, result, packvars, msr, at, got>>

\* Fewer samples than promised are an error.
DecodeEnds ==
    /\ phase = "decode" /\ IsSteim(ThisHdr.encoding) /\ ~Decoding
    /\ Return(IF Len(got) = ThisHdr.numsamples THEN [msr EXCEPT !.samples = got] ELSE Failed)
    /\ UNCHANGED <<job, result, packvars, msr, at, got>>

Finish ==
    /\ phase = "read" /\ cur > Len(file)
    /\ phase' = "done"
    /\ UNCHANGED <<job, result, packvars, readvars>>

RecordNext ==
    \/ PackHeaderFails \/ PackHeader \/ PackEmpty
    \/ EncodeWord \/ DifferenceTooWide \/ NoRoom \/ PackSteim \/ PackFixed
    \/ ReadFails \/ ReadHeader \/ DecodeWord \/ DecodeFixed \/ DecodeEnds
    \/ Finish

RecordSpec == RecordInit(job) /\ [][RecordNext]_recordvars

-----------------------------------------------------------------------------
(* What was packed is what is read. *)

\* What a caller hands over; samples to be written as 16 bits fit in them, and
\* texts of times have numbers.  An identifier has room for a zero behind it.
\* A record of no more bytes than this never holds more samples than can be
\* counted in 16 bits, which is what version 2 does; the code takes longer ones.
MostBytes == 32768
IsSequence(s) == s \in Seq({s[x] : x \in DOMAIN s})
JobOK ==
    /\ job.samples \in Seq(Int) /\ job.start \in Int
    /\ job.rate[1] \in Nat /\ job.rate[2] \in Nat \ {0}
    /\ job.encoding \in {Steim1, Steim2, "text", "int16", "int32", "float32", "float64"}
    /\ job.encoding = "int16" => \A x \in DOMAIN job.samples : FitsIn(job.samples[x], 16)
    /\ job.version \in {2, 3} /\ job.reclen \in 0..MostBytes
    /\ IsSequence(job.sid) /\ Len(job.sid) < SidLen /\ IsFiniteSet(DOMAIN job.extra)
    /\ \A list \in Lists :
          /\ IsSequence(List(job.extra, list))
          /\ \A x \in DOMAIN List(job.extra, list) :
                LET object == List(job.extra, list)[x]
                IN  \A key \in Times \intersect DOMAIN object : TimeStr2NsTime(object[key]) \in Int

\* While there are records to pack there are samples to pack; no more records
\* are read than were packed.
RecordTypeOK ==
    /\ JobOK
    /\ phase \in {"header", "encode", "read", "decode", "done"} /\ result \in Nat \union {-1}
    /\ total \in 0..N /\ (phase = "encode" => total < N)
    /\ next \in Nat /\ out \in Nat /\ diffs \in Seq(Int)
    /\ IsSequence(words) /\ IsSequence(area) /\ IsSequence(file)
    /\ cur \in 1..Len(file) + 1 /\ at \in Nat \ {0}
    /\ IsSequence(back) /\ Len(back) = cur - 1
    /\ phase = "decode" => cur <= Len(file)

\* Samples before record x, and the time of its first one.
Before(x)    == Total([y \in 1..x - 1 |-> file[y].hdr.numsamples])
TrueStart(x) == SampleTime(job.start, Before(x), job.rate)

\* Starts that cannot be read: the one that means "no time", years out of
\* range and, in version 2, the days whose year and number make sense with
\* their bytes in the other order as well; the empty record of version 3; and
\* records with an extra header that should have a time and has none, or one
\* of those.
Kept(nstime) ==
    IF job.version = 3 THEN nstime ELSE NsPerFsec * (nstime \div NsPerFsec)
Ambiguous(year, day) == year % 256 = 8 /\ day \in {1, 256, 257}
Unclear(t) == ~ValidYear(t.year) \/ (job.version = 2 /\ Ambiguous(t.year, t.day))
Misread(x) ==
    \/ Kept(TrueStart(x)) = NSTERROR \/ Unclear(NsTime2Time(TrueStart(x)))
    \/ job.version = 3 /\ N = 0
    \/ job.version = 2 /\ Untimed(job.extra)
Readable == {x \in DOMAIN back : ~Misread(x)}

\* Reads of samples and words keep to the arrays: as many samples are read as
\* are encoded or looked ahead at, and a record takes no more than it has
\* room for.
WithinBuffers ==
    phase = "encode" =>
        /\ next + 1 = out + Len(diffs) /\ next < Rest /\ Len(diffs) <= 7
        /\ IsSteim(job.encoding) => Len(words) <= Len(area)

\* Every record whose times are accepted gives back the samples of its place,
\* and together they are all samples, unless the header does not fit, a record
\* has no room for a frame, or a difference is wider than Steim-2 can write.
Unencodable ==
    \/ Header = NoHeader
    \/ NoRoomFor(hdr)
    \/ /\ job.encoding = Steim2
       /\ \E x \in 2..N : ~FitsIn(job.samples[x] - job.samples[x - 1], 30)
SamplesBack ==
    phase = "done" =>
        /\ \A x \in DOMAIN back :
              IF Refused(file[x]) THEN back[x] = Failed
              ELSE /\ back[x] # Failed
                   /\ back[x].samples =
                         SubSeq(job.samples, Before(x) + 1, Before(x) + file[x].hdr.numsamples)
        /\ N > 0 /\ Before(Len(file) + 1) # N => result = -1 /\ Unencodable

\* No record is lost but for the starts named above, and every one is dated by
\* its first sample: to the nanosecond in version 3; in version 2 to the
\* microsecond for the first and, as blockette 1001 is not renewed, to the
\* tenth of a millisecond for the others.
TimesBack ==
    phase = "done" =>
        \A x \in Readable :
            /\ back[x] # Failed
            /\ LET late == TrueStart(x) - back[x].start
               IN  CASE job.version = 3 -> late = 0
                     [] job.version = 2 /\ x = 1 -> late \in 0..NsPerUs - 1
                     [] OTHER -> Abs(late) < NsPerFsec

\* The identifier comes back, in version 2 if it is of whole characters other
\* than spaces and colons and its channel is not taken for three codes when it
\* is one or two of them with the marks between; and the rate as it was, in
\* version 2 to a ten-thousandth or in single precision.
Plain(sid) ==
    /\ Whole(sid, Len(sid)) /\ \A x \in DOMAIN sid : sid[x] \notin {Space, ":"}
    /\ LET chan == Sid2Nslc(sid).chan IN \A x \in DOMAIN chan : chan[x] # Mark
HeaderBack ==
    phase = "done" =>
        \A x \in Readable \ {y \in DOMAIN back : back[y] = Failed} :
            IF job.version = 3 THEN back[x].sid = job.sid /\ back[x].rate = job.rate
            ELSE /\ Plain(job.sid) => back[x].sid = job.sid
                 /\ \/ back[x].rate = FloatOf(job.rate)
                    \/ ~Apart(job.rate, back[x].rate, Different)

\* The extra headers, flags and publication version come back: all of them in
\* version 3; in version 2 all that flags and blockettes have room for, and the
\* letter for the quality of the data as publication version.
ExtrasBack ==
    phase = "done" =>
        \A x \in Readable \ {y \in DOMAIN back : back[y] = Failed} :
            /\ back[x].flags = job.flags
            /\ IF job.version = 3 THEN back[x].extra = job.extra /\ back[x].pub = job.pub
               ELSE /\ back[x].pub = PubVersion(Quality(job.extra))
                    /\ SameExtras(job.extra, back[x].extra)
=============================================================================
