----------------------------- MODULE Blockettes -----------------------------
(***************************************************************************)
(* Flags and blockettes of miniSEED 2: written from the extra headers by   *)
(* msr3_pack_header2() (pack.c), and mapped back to extra headers by       *)
(* msr3_unpack_mseed2() (unpack.c).  A blockette is a record of its        *)
(* fields; a byte of flags is the set of the bits that are on.             *)
(***************************************************************************)
EXTENDS ExtraHeaders

CONSTANT CutShort  \* the n for which n / 10000.0 * 10000 is cut to n - 1

ASSUME CutAssumption == CutShort \subseteq Nat \ {0}

\* Bits that stand for switches of the extra headers.
ActSwitches ==
    {<<2, "FDSN.Event.Begin">>, <<3, "FDSN.Event.End">>, <<6, "FDSN.Event.InProgress">>}
IoSwitches ==
    {<<0, "FDSN.Flags.StationVolumeParityError">>, <<1, "FDSN.Flags.LongRecordRead">>,
     <<2, "FDSN.Flags.ShortRecordRead">>, <<3, "FDSN.Flags.StartOfTimeSeries">>,
     <<4, "FDSN.Flags.EndOfTimeSeries">>}
DqSwitches ==
    {<<0, "FDSN.Flags.AmplifierSaturation">>, <<1, "FDSN.Flags.DigitizerClipping">>,
     <<2, "FDSN.Flags.Spikes">>, <<3, "FDSN.Flags.Glitches">>, <<4, "FDSN.Flags.MissingData">>,
     <<5, "FDSN.Flags.TelemetrySyncError">>, <<6, "FDSN.Flags.FilterCharging">>}

\* The bits that are on: one for a condition, those of switches.
Bit(x, condition) == {y \in {x} : condition}
SwitchedOn(extra, switches) == {x \in 0..7 : \E s \in switches : s[1] = x /\ On(extra, s[2])}
Act(extra, flags, leap) ==
    SwitchedOn(extra, ActSwitches)
        \union Bit(0, "calibration" \in flags) \union Bit(1, "FDSN.Time.Correction" \in DOMAIN extra)
        \union Bit(4, leap > 0) \union Bit(5, leap < 0)
Io(extra, flags) == SwitchedOn(extra, IoSwitches) \union Bit(5, "locked" \in flags)
Dq(extra, flags) == SwitchedOn(extra, DqSwitches) \union Bit(7, "questionable" \in flags)

\* Seconds are multiplied, and the product is cut towards zero.
Cut(n) == IF n \in CutShort THEN n - 1 ELSE IF -n \in CutShort THEN n + 1 ELSE n
Correction(extra) == Cut(At0(extra, "FDSN.Time.Correction"))

\* The letter for the quality of the data.
Quality(extra) ==
    IF "FDSN.DataQuality" \in DOMAIN extra /\ extra["FDSN.DataQuality"][1] \in {"D", "R", "Q", "M"}
    THEN extra["FDSN.DataQuality"][1] ELSE "D"

-----------------------------------------------------------------------------
(* Packing *)

\* The time of a record or blockette, in tenths of milliseconds; a field not
\* written is zero, a text that is no time makes the packing fail.
BTime(t) ==
    [year |-> t.year, day |-> t.day, hour |-> t.hour, min |-> t.min,
     sec |-> t.sec, fsec |-> t.nsec \div NsPerFsec]
ZeroTime == [year |-> 0, day |-> 0, hour |-> 0, min |-> 0, sec |-> 0, fsec |-> 0]
BadTime  == [ZeroTime EXCEPT !.year = -1]
TimeField(nstime) == IF nstime = NSTERROR THEN BadTime ELSE BTime(NsTime2Time(nstime))
Time(object, key) ==
    IF key \in DOMAIN object THEN TimeField(TimeStr2NsTime(object[key])) ELSE ZeroTime

\* Blockette 500; the microseconds are those of the record.
B500(e, model, micro) ==
    [type |-> 500, length |-> 200, vco |-> At0(e, "VCOCorrection"), time |-> Time(e, "Time"),
     micro |-> micro, quality |-> At0(e, "ReceptionQuality"), count |-> At0(e, "Count"),
     exception |-> Text(e, "Type", 16), model |-> model, status |-> Text(e, "ClockStatus", 128)]

\* Blockettes 200 and 201.
Detection(d) ==
    [amplitude |-> At0(d, "SignalAmplitude"), period |-> At0(d, "SignalPeriod"),
     background |-> At0(d, "BackgroundEstimate"), time |-> Time(d, "OnsetTime"),
     detector |-> Text(d, "Detector", 24)]
B200(d) ==
    [type |-> 200, length |-> 52,
     bits |-> Bit(0, Says(d, "Wave", "DILATATION")) \union Bit(2, "Wave" \notin DOMAIN d)
                \union Bit(1, "Units" \in DOMAIN d /\ ~Says(d, "Units", "COUNTS"))]
B201(d) ==
    [type |-> 201, length |-> 60, bits |-> Bit(0, Says(d, "Wave", "DILATATION")),
     medsnr |-> [x \in 1..6 |-> At0(List(d, "MEDSNR"), x)],
     lookback |-> At0(d, "MEDLookback"), algorithm |-> At0(d, "MEDPickAlgorithm")]
EventBlockette(d) ==
    With(Detection(d), IF Says(d, "Type", "MURDOCK") THEN B201(d) ELSE B200(d))

\* Blockettes 300, 310, 320 and 390.
Calibration(c) ==
    [bits      |-> Bit(2, Says(c, "Trigger", "AUTOMATIC")) \union Bit(3, On(c, "Continued")),
     duration  |-> Cut(At0(c, "Duration")),
     amplitude |-> At0(c, "Amplitude"),
     channel   |-> Text(c, "InputChannel", 3)]
Filtered(c) == \* what blockette 390 does not have
    [reference |-> At0(c, "ReferenceAmplitude"),
     coupling |-> Text(c, "Coupling", 12), rolloff |-> Text(c, "Rolloff", 12)]
B300(c) ==
    With([type |-> 300, length |-> 60, steps |-> At0(c, "Steps"),
          sign |-> Bit(0, On(c, "StepFirstPulsePositive")) \union Bit(1, On(c, "StepAlternateSign")),
          between |-> Cut(At0(c, "StepBetween"))], Filtered(c))

\* The texts of blockette 310 are written where blockette 320 has them, four
\* bytes too early: over the reference amplitude and over each other.
Spelled == -1     \* an amplitude made of four letters
SineTexts(c) == Text(c, "Coupling", 12) \o Text(c, "Rolloff", 12) \o [x \in 1..4 |-> "nul"]
B310(c) ==
    [type |-> 310, length |-> 60,
     range |-> Bit(4, Says(c, "AmplitudeRange", "PEAKTOPEAK"))
                 \union Bit(5, Says(c, "AmplitudeRange", "ZEROTOPEAK"))
                 \union Bit(6, Says(c, "AmplitudeRange", "RMS")),
     period |-> At0(c, "SinePeriod"),
     reference |-> IF "Coupling" \in DOMAIN c THEN Spelled ELSE At0(c, "ReferenceAmplitude"),
     coupling |-> SubSeq(SineTexts(c), 5, 16), rolloff |-> SubSeq(SineTexts(c), 17, 28)]
B320(c) ==
    With([type |-> 320, length |-> 64, range |-> Bit(4, Says(c, "AmplitudeRange", "RANDOM")),
          noise |-> Text(c, "Noise", 8)], Filtered(c))
B390 == [type |-> 390, length |-> 28]

Begun(c, blockette) == <<With(With(blockette, Calibration(c)), [time |-> Time(c, "BeginTime")])>>
Untyped == <<[type |-> 0, length |-> 0, time |-> BadTime]>>
CalibrationOf(c) ==
    CASE Says(c, "Type", "STEP")         -> Begun(c, B300(c))
      [] Says(c, "Type", "SINE")         -> Begun(c, B310(c))
      [] Says(c, "Type", "PSEUDORANDOM") -> Begun(c, B320(c))
      [] Says(c, "Type", "GENERIC")      -> Begun(c, B390)
      [] "Type" \notin DOMAIN c /\ "EndTime" \in DOMAIN c -> <<>>
      [] OTHER -> Untyped
B395(c) ==
    IF "EndTime" \in DOMAIN c
    THEN <<[type |-> 395, length |-> 16, time |-> Time(c, "EndTime")]>> ELSE <<>>

Mapped(objects, Op(_)) == [x \in DOMAIN objects |-> Op(objects[x])]
PackExtras(extra, micro) ==
    Mapped(List(extra, Exceptions),
           LAMBDA e : B500(e, Text(extra, "FDSN.Clock.Model", 32), micro))
    \o Mapped(List(extra, Detections), EventBlockette)
    \o FlattenSeq(Mapped(List(extra, Calibrations), LAMBDA c : CalibrationOf(c) \o B395(c)))

Total(n) ==
    LET upto[x \in 0..Len(n)] == IF x = 0 THEN 0 ELSE upto[x - 1] + n[x]
    IN  upto[Len(n)]
LengthOf(blockettes) == Total([x \in DOMAIN blockettes |-> blockettes[x].length])

\* Only these blockettes are measured against the record.
ExtrasFit(blockettes, written, reclen) ==
    /\ \A x \in DOMAIN blockettes : blockettes[x].time # BadTime
    /\ blockettes # <<>> => written + LengthOf(blockettes) <= reclen

-----------------------------------------------------------------------------
(* Unpacking *)

SwitchesOf(bits, switches) ==
    [path \in {s[2] : s \in {t \in switches : t[1] \in bits}} |-> TRUE]
LeapSecond(act) ==
    IF 5 \in act THEN Entry("FDSN.Time.LeapSecond", -1)
    ELSE IF 4 \in act THEN Entry("FDSN.Time.LeapSecond", 1) ELSE NoExtra
CorrectionExtra(n) == IF n # 0 THEN Entry("FDSN.Time.Correction", n) ELSE NoExtra

FlagsOf(h) ==
    {f \in {"calibration", "locked", "questionable"} :
        \/ f = "calibration" /\ 0 \in h.act
        \/ f = "locked" /\ 5 \in h.io
        \/ f = "questionable" /\ 7 \in h.dq}

PubVersion(quality) ==
    CASE quality = "M" -> 4 [] quality = "Q" -> 3 [] quality = "D" -> 2 [] quality = "R" -> 1
      [] OTHER -> 0

Wave(b) ==
    IF b.type = 200 /\ 2 \notin b.bits THEN <<>>
    ELSE IF 0 \in b.bits THEN <<"DILATATION">> ELSE <<"COMPRESSION">>
DetectionOf(b) ==
    [Type |-> IF b.type = 201 THEN <<"MURDOCK">> ELSE <<"GENERIC">>,
     Detector |-> TextOf(b.detector), SignalAmplitude |-> b.amplitude,
     SignalPeriod |-> b.period, BackgroundEstimate |-> b.background, Wave |-> Wave(b),
     Units |-> IF b.type = 201 THEN <<>> ELSE IF 1 \in b.bits THEN <<"DECONVOLVED">> ELSE <<"COUNTS">>,
     OnsetTime |-> BTime2NsTime(b.time),
     MEDSNR |-> IF b.type = 201 THEN b.medsnr ELSE [x \in 1..6 |-> 0],
     MEDLookback |-> IF b.type = 201 THEN b.lookback ELSE -1,
     MEDPickAlgorithm |-> IF b.type = 201 THEN b.algorithm ELSE -1]

\* What all calibrations have, and what some have more.
Switch(bit, bits) == IF bit \in bits THEN 1 ELSE -1
Started(b, type) ==
    [Type |-> <<type>>, BeginTime |-> BTime2NsTime(b.time),
     Trigger |-> IF 2 \in b.bits THEN <<"AUTOMATIC">> ELSE <<"MANUAL">>,
     Continued |-> Switch(3, b.bits), Duration |-> b.duration, Amplitude |-> b.amplitude,
     InputChannel |-> TextOf(b.channel)]

\* Slip: the rolloff is read where the coupling stands.
RolloffMoved(b) ==
    [ReferenceAmplitude |-> b.reference, Coupling |-> TextOf(b.rolloff), Rolloff |-> TextOf(b.coupling)]

FilteredOf(b) ==
    [ReferenceAmplitude |-> b.reference, Coupling |-> TextOf(b.coupling), Rolloff |-> TextOf(b.rolloff)]
StepOf(b) ==
    With([Steps |-> b.steps, FirstPulsePositive |-> Switch(0, b.sign),
          AlternateSign |-> Switch(1, b.sign), StepBetween |-> b.between],
         With(FilteredOf(b), Started(b, "STEP")))
SineRange(bits) ==
    IF 4 \in bits THEN <<"PEAKTOPEAK">> ELSE IF 5 \in bits THEN <<"ZEROTOPEAK">>
    ELSE IF 6 \in bits THEN <<"RMS">> ELSE <<>>
SineOf(b) ==
    With([AmplitudeRange |-> SineRange(b.range), SinePeriod |-> b.period],
         With(FilteredOf(b), Started(b, "SINE")))
RandomOf(b) ==
    With([AmplitudeRange |-> IF 4 \in b.range THEN <<"RANDOM">> ELSE <<>>, Noise |-> TextOf(b.noise)],
         With(FilteredOf(b), Started(b, "PSEUDORANDOM")))
AbortOf(b) == [Type |-> <<"ABORT">>, EndTime |-> BTime2NsTime(b.time)]

ExceptionOf(b) ==
    [VCOCorrection |-> b.vco, Time |-> BTime2NsTime(b.time), ReceptionQuality |-> b.quality,
     Count |-> b.count, Type |-> TextOf(b.exception), ClockStatus |-> TextOf(b.status)]

\* One blockette is mapped; the model of the clock even if it is blank.
MapBlockette(extra, b) ==
    CASE b.type \in {200, 201} -> AddEventDetection(extra, DetectionOf(b))
      [] b.type = 300 -> AddCalibration(extra, StepOf(b))
      [] b.type = 310 -> AddCalibration(extra, SineOf(b))
      [] b.type = 320 -> AddCalibration(extra, RandomOf(b))
      [] b.type = 390 -> AddCalibration(extra, Started(b, "GENERIC"))
      [] b.type = 395 -> AddCalibration(extra, AbortOf(b))
      [] b.type = 500 -> SetPath(AddTimingException(extra, ExceptionOf(b)),
                                 "FDSN.Clock.Model", TextOf(b.model))

\* ms2_blktlen(): what a blockette must have room for in the record.
BlktLen(type) ==
    CASE type = 100 -> 12 [] type \in {395, 400} -> 16 [] type = 201 -> 36
      [] type \in {200, 320, 390} -> 28 [] type \in {300, 310} -> 32
      [] type \in {500, 1000, 1001} -> 8 [] OTHER -> 0

\* Blockettes up to the first that would not be within the record.
Chained(blockettes, written, reclen) ==
    SubSeq(blockettes, 1,
           Max({n \in 0..Len(blockettes) : \A x \in 1..n :
                   written + LengthOf(SubSeq(blockettes, 1, x - 1)) + BlktLen(blockettes[x].type)
                       <= reclen}))

\* A time that is none is an error; otherwise the extra headers of a record.
Unmapped(blockettes) == \E x \in DOMAIN blockettes : BTime2NsTime(blockettes[x].time) = NSTERROR
FieldsOf(h) ==
    With(LeapSecond(h.act),
         With(CorrectionExtra(h.correct),
              IF h.b1001 THEN Entry("FDSN.Time.Quality", h.timing) ELSE NoExtra))
Extras(h, blockettes) ==
    FoldLeft(MapBlockette,
             With(SwitchesOf(h.act, ActSwitches),
                  With(SwitchesOf(h.io, IoSwitches),
                       With(SwitchesOf(h.dq, DqSwitches), FieldsOf(h)))),
             blockettes)

-----------------------------------------------------------------------------
(* What should come back *)

\* The keys that a blockette has a field for.  Not among them, though packed:
\* the wave of blockette 200, read only with a bit that is not set for it; the
\* signs of steps, packed under other names than they are read; the reference
\* amplitude and texts of blockette 310.
Calibrated == {"Type", "BeginTime", "Trigger", "Continued", "Duration", "Amplitude", "InputChannel"}
Filters    == {"ReferenceAmplitude", "Coupling", "Rolloff"}
Fields(list, object) ==
    CASE list = Exceptions ->
             {"Time", "VCOCorrection", "ReceptionQuality", "Count", "Type", "ClockStatus"}
      [] list = Detections ->
             {"OnsetTime", "SignalAmplitude", "SignalPeriod", "BackgroundEstimate", "Detector"}
             \union IF Says(object, "Type", "MURDOCK")
                    THEN {"Type", "Wave", "MEDSNR", "MEDLookback", "MEDPickAlgorithm"} ELSE {"Units"}
      [] Says(object, "Type", "STEP")  -> Calibrated \union Filters \union {"Steps", "StepBetween"}
      [] Says(object, "Type", "SINE")  -> Calibrated \union {"AmplitudeRange", "SinePeriod"}
      [] Says(object, "Type", "PSEUDORANDOM") ->
             Calibrated \union Filters \union {"AmplitudeRange", "Noise"}
      [] Says(object, "Type", "ABORT") -> {"Type", "EndTime"}
      [] OTHER -> Calibrated

\* Keys read that were not there: fields that cannot be left blank.
Defaults(object) ==
    {"Type", "Trigger", "Wave", "Units", "Steps", "VCOCorrection", "ReceptionQuality",
     "MEDLookback", "MEDPickAlgorithm"}
    \union (IF Says(object, "Type", "SINE") THEN Filters ELSE {})
    \union (IF Says(object, "Type", "STEP") THEN {"FirstPulsePositive", "AlternateSign"} ELSE {})

Blank(key, v) ==
    CASE key \in Times -> FALSE
      [] key \in Switches -> ~v
      [] key \in Counts -> v < 0
      [] key \in Amounts -> v = 0
      [] key = "MEDSNR" -> \A x \in DOMAIN v : v[x] = 0
      [] OTHER -> v = <<>>
SameTime(given, read) == read = NsPerFsec * (given \div NsPerFsec)
Same(key, given, read) ==
    CASE key \in Times -> SameTime(TimeStr2NsTime(given), TimeStr2NsTime(read))
      [] key \in {"Duration", "StepBetween"} -> read \in {given - 1, given}
      [] key = "MEDSNR" -> \A x \in 1..6 : read[x] = At0(given, x)
      [] key \in Switches \union Counts \union Amounts -> read = given
      [] OTHER -> read # <<>> /\ IsPrefix(read, given)

SameObject(list, given, read) ==
    /\ \A key \in Fields(list, given) \intersect DOMAIN given :
          \/ Blank(key, given[key])
          \/ key \in DOMAIN read /\ Same(key, given[key], read[key])
    /\ DOMAIN read \subseteq DOMAIN given \union Defaults(given)

\* The end of a calibration becomes an entry of its own.
Ended(c) ==
    (IF "Type" \in DOMAIN c THEN <<Restrict(c, DOMAIN c \ {"EndTime"})>> ELSE <<>>)
    \o (IF "EndTime" \in DOMAIN c THEN <<With(Entry("Type", <<"ABORT">>), Entry("EndTime", c["EndTime"]))>> ELSE <<>>)
Expected(extra, list) ==
    IF list = Calibrations THEN FlattenSeq(Mapped(List(extra, list), Ended)) ELSE List(extra, list)
SameLists(list, given, read) ==
    Len(given) = Len(read) /\ \A x \in DOMAIN given : SameObject(list, given[x], read[x])

Lists   == {Exceptions, Detections, Calibrations}
Numbers == {"FDSN.Time.Quality", "FDSN.Time.Correction", "FDSN.Time.LeapSecond"}
Others  == {"FDSN.DataQuality", "FDSN.Clock.Model"}
SameNumber(path, given, read) ==
    CASE path = "FDSN.Time.LeapSecond" -> given * read > 0
      [] path = "FDSN.Time.Correction" -> read - given \in -1..1
      [] OTHER -> read = given
SameExtras(given, read) ==
    /\ \A list \in Lists : SameLists(list, Expected(given, list), List(read, list))
    /\ \A path \in DOMAIN given \ (Lists \union Numbers \union Others) : On(given, path) = On(read, path)
    /\ \A path \in DOMAIN given \intersect Numbers :
          IF path \in DOMAIN read THEN SameNumber(path, given[path], read[path])
          ELSE given[path] = 0
    /\ DOMAIN read \subseteq DOMAIN given \union {"FDSN.Time.Quality", "FDSN.Clock.Model"}

\* Times that must be there for a record to be read: not after they are cut to
\* tenths of milliseconds the one that means "no time", nor out of range.
Lost(object, key) ==
    \/ key \notin DOMAIN object
    \/ LET t == TimeStr2NsTime(object[key])
       IN  NsPerFsec * (t \div NsPerFsec) = NSTERROR \/ ~ValidYear(NsTime2Time(t).year)
Untimed(extra) ==
    \E list \in Lists : \E x \in DOMAIN List(extra, list) :
        LET object == List(extra, list)[x]
        IN  \/ list = Exceptions /\ Lost(object, "Time")
            \/ list = Detections /\ Lost(object, "OnsetTime")
            \/ list = Calibrations /\ "Type" \in DOMAIN object /\ Lost(object, "BeginTime")
            \/ list = Calibrations /\ "EndTime" \in DOMAIN object /\ Lost(object, "EndTime")
=============================================================================
