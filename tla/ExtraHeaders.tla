---------------------------- MODULE ExtraHeaders ----------------------------
(***************************************************************************)
(* The extra headers of a record (extraheaders.c): a JSON object, here a   *)
(* function from dotted paths to values.  A value is a number, a switch    *)
(* (BOOLEAN), a text (a sequence of letters, one of which may stand for a  *)
(* word, as in <<"STEP">>), a time as text, or a sequence of objects.      *)
(* Durations and corrections count ten-thousandths of a second.            *)
(***************************************************************************)
EXTENDS TimeString, SourceId

NoExtra == [path \in {} |-> 0]
Entry(key, value) == [k \in {key} |-> value]
\* Two objects in one; a key of both has the value of the first.
With(object, rest) ==
    [key \in DOMAIN object \union DOMAIN rest |->
        IF key \in DOMAIN object THEN object[key] ELSE rest[key]]

\* mseh_set_path(): a value at a path, or an object added to a list there.
SetPath(extra, path, value) == With(Entry(path, value), extra)
AddPath(extra, path, object) ==
    SetPath(extra, path, (IF path \in DOMAIN extra THEN extra[path] ELSE <<>>) \o <<object>>)

\* What is known of an event, a calibration or a timing exception is a record
\* with a value for every key; the values that mean "not included" depend on
\* the key.
Times    == {"Time", "OnsetTime", "BeginTime", "EndTime"}
Switches == {"FirstPulsePositive", "AlternateSign", "Continued"}
Counts   == {"VCOCorrection", "ReceptionQuality", "Steps", "MEDLookback", "MEDPickAlgorithm"}
Amounts  == {"SignalAmplitude", "SignalPeriod", "BackgroundEstimate", "Amplitude", "Duration",
             "SinePeriod", "StepBetween", "ReferenceAmplitude", "Count"}

Included(key, v) ==
    CASE key \in Times -> v # NSTERROR
      [] key \in Switches \union Counts -> v >= 0
      [] key \in Amounts -> v # 0
      [] key = "MEDSNR" -> v # [x \in 1..6 |-> 0]
      [] OTHER -> v # <<>>
Value(key, v) ==
    CASE key \in Times -> NsTime2TimeStr(v, "ISOMONTHDAY", "NANO_MICRO_NONE")
      [] key \in Switches -> v = 1
      [] OTHER -> v
Object(known) ==
    [key \in {k \in DOMAIN known : Included(k, known[k])} |-> Value(key, known[key])]

\* mseh_add_event_detection(), mseh_add_calibration(),
\* mseh_add_timing_exception().
Detections   == "FDSN.Event.Detection"
Calibrations == "FDSN.Calibration.Sequence"
Exceptions   == "FDSN.Time.Exception"
AddEventDetection(extra, detection)  == AddPath(extra, Detections, Object(detection))
AddCalibration(extra, calibration)   == AddPath(extra, Calibrations, Object(calibration))
AddTimingException(extra, exception) == AddPath(extra, Exceptions, Object(exception))

-----------------------------------------------------------------------------
(* Reading an object; a number or text that is not there is zero bytes. *)

At0(object, key) == IF key \in DOMAIN object THEN object[key] ELSE 0
On(object, key)  == key \in DOMAIN object /\ object[key]
Says(object, key, word) == key \in DOMAIN object /\ object[key] = <<word>>
List(object, key) == IF key \in DOMAIN object THEN object[key] ELSE <<>>
Text(object, key, width) ==
    IF key \in DOMAIN object THEN Open(object[key], width) ELSE [x \in 1..width |-> "nul"]

\* A text ends with its field or at a zero byte.
TextOf(field) ==
    CleanTail(SubSeq(field, 1, Min({x \in DOMAIN field : field[x] = "nul"}
                                     \union {Len(field) + 1}) - 1), Len(field))
=============================================================================
