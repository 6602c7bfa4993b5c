---------------------------- MODULE MCMseedRecord ---------------------------
(***************************************************************************)
(* Small segments for MseedRecord.  A day has eight seconds and a second   *)
(* forty nanoseconds, five times four times two (Record.cfg).              *)
(***************************************************************************)
EXTENDS MseedRecord

\* An identifier is four codes; "SPZ" stands for S_P_Z.
Sid(net, sta, loc, chan) == net \o <<"_">> \o sta \o <<"_">> \o loc \o <<"_">> \o chan
BHZ == <<"B", "_", "H", "_", "Z">>
Usual == Sid(<<"T", "W">>, <<"A", "B">>, <<>>, BHZ)

Segment(sid, start, rate, samples, encoding, version, reclen, memory) ==
    [sid |-> sid, start |-> start, rate |-> rate, samples |-> samples, encoding |-> encoding,
     version |-> version, reclen |-> reclen, memory |-> memory,
     extra |-> NoExtra, flags |-> {}, pub |-> 1]

\* Samples with these differences, the first one among them.
Sums(changes) ==
    FoldLeft(LAMBDA s, d : Append(s, (IF s = <<>> THEN 0 ELSE Last(s)) + d), <<>>, changes)
Repeat(n, d) == [x \in 1..n |-> d]

\* Differences on either side of a width: all sequences of them, of eight.
Edges == {<<7, 8>>, <<-8, -9>>, <<15, -17>>, <<31, 32>>, <<127, -129>>, <<511, 512>>,
          <<-16384, -16385>>, <<32767, 32768>>}
Patterns == UNION {[1..8 -> {e[1], e[2]}] : e \in Edges}
\* Samples whose differences take thirty bits, or one more.
Wide == [1..4 -> {-Power(29), -1, 0, Power(29) - 1}]

\* Longer than a frame and than a record, with small and large differences;
\* and with one too wide in a first record, where one begins, and in a later.
Alternating(n, d) == [x \in 1..n |-> IF x % 2 = 0 THEN d ELSE -d]
Long ==
    {Repeat(100, 1), Alternating(20, 20000), Alternating(14, 20000) \o Repeat(20, 3),
     Repeat(40, 1) \o Alternating(30, 600), Repeat(91, 0) \o <<5>>,
     Alternating(45, 20000) \o Repeat(8, 1)}
Jump(n) == Alternating(n, 20000) \o <<-Power(28)>> \o <<Power(29)>> \o Repeat(3, 1)

Encoded ==
    \E samples \in {Sums(p) : p \in Patterns} \union Wide, e \in {Steim1, Steim2}, v \in {2, 3} :
        RecordInit(Segment(Usual, 0, <<1, 1>>, samples, e, v, 128, NullWord))
Records ==
    \E rate \in {<<1, 1>>, <<22, 7>>}, changes \in Long \union {Jump(n) : n \in {10, 12, 16}},
       e \in {Steim1, Steim2}, v \in {2, 3}, len \in {128, 256}, memory \in {NullWord, JunkWord} :
        RecordInit(Segment(Usual, 0, rate, Sums(changes), e, v, len, memory))

\* Starts at the ends of years, leap days and around the times that mean
\* something else, and the rates the records after the first are dated by.
Day(n) == n * SecPerDay * NSTMODULUS
Starts ==
    {Day(d) + x : d \in {-24837, -719, 0, 59, 364, 789, 13879, 11016, 31411, 31412, 31666, 31667,
                         31668, -106300, 106750, -106752, 107000},
                  x \in {-1, 0, 1, NSTMODULUS - 1, NSTMODULUS + NsPerFsec}}
Dated ==
    \E start \in Starts, rate \in {<<1, 1>>, <<3, 7>>}, v \in {2, 3} :
        RecordInit(Segment(Usual, start, rate, [x \in 1..20 |-> x], "float64", v, 128, NullWord))

\* Rates with and without blockette 100.
Rates == {<<0, 1>>, <<1, 1>>, <<50, 1>>, <<16, 1>>, <<17, 1>>, <<221, 1>>, <<225, 1>>, <<226, 1>>,
          <<1, 10>>, <<1, 16>>, <<2, 3>>, <<3, 2>>, <<31, 2>>, <<15, 2>>, <<22, 7>>, <<100, 3>>, <<7, 100>>}
Sids ==
    {Usual, Sid(<<"X">>, <<"A", "B", "C", "D", "E">>, <<"0", "1">>, BHZ),
     Sid(<<"X", "Y", "Z">>, <<"A">>, <<>>, BHZ), Sid(<<"X">>, <<"A", "B", "C", "D", "E", "F">>, <<>>, BHZ),
     Sid(<<"X">>, <<"A">>, <<"0", "0", "1">>, BHZ), Sid(<<"X">>, <<"A">>, <<>>, <<"B", "H">>),
     Sid(<<"X", ":">>, <<"A">>, <<>>, BHZ), Sid(<<"X">>, <<"A", " ", "B">>, <<>>, BHZ),
     Sid(<<"X">>, <<"A", "_">>, <<>>, BHZ), Sid(<<"X">>, <<"lead", "cont", "A">>, <<>>, BHZ),
     Sid(<<"X">>, <<"A", "B", "C", "D", "lead">>, <<>>, BHZ), Sid(<<>>, <<>>, <<>>, BHZ),
     Sid(<<"X">>, <<"A">>, <<>>, <<"B", "_", "_">>), Sid(<<"X">>, <<"A">>, <<>>, <<"_", "H", "_", "Z">>)}
Headed ==
    \E v \in {2, 3} :
        \/ \E sid \in Sids, samples \in {<<>>, <<1, 2>>},
              e \in {Steim2, "text", "int16", "int32", "float32"} :
              RecordInit(Segment(sid, 3, <<1, 1>>, samples, e, v, 128, JunkWord))
        \/ \E start \in {0, 7}, rate \in Rates, samples \in {<<>>, Sums(Repeat(100, 1))},
              len \in {128, 256} :
              RecordInit(Segment(Usual, start, rate, samples, Steim2, v, len, JunkWord))

\* Extra headers: with all that a blockette has room for, with little, with
\* what is not understood, and too many of them.
Leap   == TimeStr("monthday", <<2008, 2, 29, 1, 0, 1>>, 163)
Later  == TimeStr("ordinal", <<2010, 1>>, NoFraction)
NoTime == TimeStr("monthday", <<2008, 2, 30>>, NoFraction)
Barely == TimeStr("ordinal", <<1902, 1>>, 10)   \* none, when it is cut
Beyond == TimeStr("epoch", <<-107000 * SecPerDay>>, NoFraction)
FullException ==
    "Time" :> Leap @@ "VCOCorrection" :> 50 @@ "ReceptionQuality" :> 3 @@ "Count" :> 4
        @@ "Type" :> <<"MISSING">> @@ "ClockStatus" :> <<"o", " ", "k">>
FullDetection(type) ==
    "Type" :> <<type>> @@ "OnsetTime" :> Leap @@ "SignalAmplitude" :> 7 @@ "SignalPeriod" :> 8
        @@ "BackgroundEstimate" :> 9 @@ "Wave" :> <<"DILATATION">> @@ "Detector" :> <<"d", "lead", "cont">>
        @@ "MEDSNR" :> <<1, 2, 3, 4>> @@ "MEDLookback" :> 2 @@ "MEDPickAlgorithm" :> 1
FullCalibration(type, range, trigger, ticks) ==
    "Type" :> <<type>> @@ "BeginTime" :> Leap @@ "EndTime" :> Later @@ "Steps" :> 5
        @@ "Trigger" :> <<trigger>> @@ "Continued" :> (ticks > 5) @@ "Amplitude" :> 11
        @@ "AmplitudeRange" :> <<range>> @@ "Duration" :> ticks @@ "SinePeriod" :> 12
        @@ "StepBetween" :> ticks + 5 @@ "InputChannel" :> <<"B", "H", "Z", "Z">>
        @@ "ReferenceAmplitude" :> 13 @@ "Coupling" :> <<"c">> @@ "Rolloff" :> <<"r", "o">>
        @@ "Noise" :> <<"White">> @@ "StepAlternateSign" :> TRUE
Flagged == {"FDSN.Event.Begin", "FDSN.Event.End", "FDSN.Event.InProgress",
            "FDSN.Flags.StationVolumeParityError", "FDSN.Flags.LongRecordRead",
            "FDSN.Flags.ShortRecordRead", "FDSN.Flags.StartOfTimeSeries", "FDSN.Flags.EndOfTimeSeries",
            "FDSN.Flags.AmplifierSaturation", "FDSN.Flags.DigitizerClipping", "FDSN.Flags.Spikes",
            "FDSN.Flags.Glitches", "FDSN.Flags.MissingData", "FDSN.Flags.TelemetrySyncError",
            "FDSN.Flags.FilterCharging"}
ExceptionLists   == {<<FullException>>, <<FullException, "Time" :> Later>>, <<"Count" :> 1>>}
DetectionLists   ==
    {<<FullDetection(type)>> : type \in {"MURDOCK", "GENERIC"}}
    \union {<<"OnsetTime" :> Later, "Type" :> <<"MURDOCK">> @@ "OnsetTime" :> Leap>>,
            <<"OnsetTime" :> Leap @@ "Units" :> <<"COUNTS">>>>,
            <<"OnsetTime" :> Leap @@ "Units" :> <<"DECONVOLVED">>>>, <<"OnsetTime" :> NoTime>>,
            <<"OnsetTime" :> Barely>>, <<"OnsetTime" :> Beyond>>}
CalibrationLists ==
    {<<FullCalibration(kind[1], kind[2], trigger, ticks)>> :
        kind \in {"SINE"} \X {"PEAKTOPEAK", "ZEROTOPEAK", "RMS"}
                 \union {"STEP", "PSEUDORANDOM", "GENERIC", "ABORT"} \X {"RANDOM"},
        trigger \in {"AUTOMATIC", "MANUAL"}, ticks \in {0, 1, 6}}
    \union {<<"Type" :> <<type>> @@ "BeginTime" :> Later>> :
                type \in {"STEP", "SINE", "PSEUDORANDOM", "GENERIC"}}
    \union {<<"EndTime" :> Later, "EndTime" :> Leap>>, <<"Amplitude" :> 1>>, <<"EndTime" :> Barely>>,
            <<"Type" :> <<"SINE">> @@ "BeginTime" :> Leap @@ "ReferenceAmplitude" :> 3>>}
SomeExtras ==
    {path :> TRUE : path \in Flagged} \union {[path \in Flagged |-> x] : x \in BOOLEAN}
    \union {Exceptions :> list : list \in ExceptionLists}
    \union {Detections :> list : list \in DetectionLists}
    \union {Calibrations :> list : list \in CalibrationLists}
    \union {"FDSN.Time.Quality" :> 80, "FDSN.Clock.Model" :> <<"m">>,
            "FDSN.Clock.Model" :> <<"m">> @@ Exceptions :> <<FullException>> @@ "FDSN.Time.Quality" :> 1
                @@ Detections :> <<FullDetection("GENERIC")>> @@ "FDSN.Time.LeapSecond" :> -1
                @@ Calibrations :> <<FullCalibration("STEP", "RMS", "MANUAL", 1)>>}
    \union {"FDSN.DataQuality" :> <<letter>> : letter \in {"D", "R", "Q", "M", "X"}}
    \union {"FDSN.Time.Correction" :> x : x \in {-5, -3, 0, 1, 3, 5}}
    \union {"FDSN.Time.LeapSecond" :> x : x \in -1..1}
WithExtras ==
    \E extra \in SomeExtras, v \in {2, 3}, flags \in {{}, {"calibration"}, {"locked", "questionable"}},
       start \in {0, 7}, len \in {128, 256, 512} :
        RecordInit([Segment(Usual, start, <<1, 1>>, <<1, 2>>, "int32", v, len, JunkWord)
                        EXCEPT !.extra = extra, !.flags = flags, !.pub = 3])

MCInit == Encoded \/ Records \/ Dated \/ Headed \/ WithExtras
\* It never stops before it is done: deadlock is checked.
Stopped == phase = "done" /\ UNCHANGED recordvars
MCSpec == MCInit /\ [][RecordNext \/ Stopped]_recordvars
=============================================================================
