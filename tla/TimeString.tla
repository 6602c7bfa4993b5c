----------------------------- MODULE TimeString -----------------------------
(***************************************************************************)
(* Times as text (genutils.c).  A time string is what its form and its     *)
(* numbers are: "monthday" for 2008-02-29T01:00:01.5, "ordinal" for        *)
(* 2008,060,01:00:01.5 and 2008-060T..., "epoch" for 1204246801.5.  Parts  *)
(* may be missing from the end on.  The fraction is a count of tenths of a *)
(* nanosecond, so that text can be finer than a time.                      *)
(***************************************************************************)
EXTENDS Calendar

NoFraction == -1
TimeStr(form, parts, fraction) == [form |-> form, parts |-> parts, fraction |-> fraction]

\* Digits behind the point, of ms_subseconds_t.
Digits(subseconds, nanosec) ==
    LET micro == nanosec \div NsPerUs  sub == nanosec % NsPerUs
    IN  IF \/ subseconds = "NONE"
           \/ subseconds = "MICRO_NONE" /\ micro = 0
           \/ subseconds \in {"NANO_NONE", "NANO_MICRO_NONE"} /\ nanosec = 0
        THEN "none"
        ELSE IF \/ subseconds \in {"MICRO", "MICRO_NONE"}
                \/ subseconds \in {"NANO_MICRO", "NANO_MICRO_NONE"} /\ sub = 0
        THEN "micro" ELSE "nano"
Fraction(nanosec, digits) ==
    CASE digits = "none"  -> NoFraction
      [] digits = "micro" -> 10 * NsPerUs * (nanosec \div NsPerUs)
      [] digits = "nano"  -> 10 * nanosec

Civil(tms, form, fraction) ==
    TimeStr(form,
            (IF form = "monthday" THEN <<tms.year, tms.mon + 1, tms.mday>>
             ELSE <<tms.year, tms.yday + 1>>) \o <<tms.hour, tms.min, tms.sec>>,
            fraction)

\* ms_nstime2timestr().  Which digits there are is decided by nanoseconds that
\* count up from a whole second; an epoch value shows those that count away
\* from zero, and no sign when its seconds are zero.
NsTime2TimeStr(nstime, format, subseconds) ==
    LET isec    == EpochParts(nstime)[1]
        nanosec == EpochParts(nstime)[2]
        rawisec == CQuot(nstime, NSTMODULUS)
        rawnano == IF nstime < 0 THEN rawisec * NSTMODULUS - nstime ELSE nanosec
        digits  == Digits(subseconds, nanosec)
    IN  CASE format \in {"ISOMONTHDAY", "ISOMONTHDAY_SPACE"} ->
                 Civil(GmTime(isec), "monthday", Fraction(nanosec, digits))
          [] format = "SEEDORDINAL" -> Civil(GmTime(isec), "ordinal", Fraction(nanosec, digits))
          [] format = "UNIXEPOCH" -> TimeStr("epoch", <<rawisec>>, Fraction(rawnano, digits))
          [] format = "NANOSECONDEPOCH" -> TimeStr("epoch", <<nstime>>, NoFraction)

-----------------------------------------------------------------------------
PartOr(parts, x, default) == IF x <= Len(parts) THEN parts[x] ELSE default
Nanos(fraction) == IF fraction = NoFraction THEN 0 ELSE (fraction + 5) \div 10

At(year, yday, s, x) ==
    [year |-> year, day |-> yday, hour |-> PartOr(s.parts, x, 0),
     min |-> PartOr(s.parts, x + 1, 0), sec |-> PartOr(s.parts, x + 2, 0),
     nsec |-> Nanos(s.fraction)]

\* ms_mdtimestr2nstime(): the day of the year is not looked at again.
OfDay(t) == IF t.day # -1 /\ ValidClock(t) THEN Time2NsTimeInt(t) ELSE NSTERROR
MdTimeStr2NsTime(s) ==
    OfDay(At(s.parts[1], Md2Doy(s.parts[1], PartOr(s.parts, 2, 1), PartOr(s.parts, 3, 1)), s, 4))

\* ms_seedtimestr2nstime().
SeedTimeStr2NsTime(s) == Time2NsTime(At(s.parts[1], PartOr(s.parts, 2, 1), s, 3))

\* Four digits without a sign are a year.
YearLike(s) == s.form = "epoch" /\ s.fraction = NoFraction /\ s.parts[1] \in 1000..9999

\* ms_timestr2nstime(): a fraction counts away from zero, as the seconds do.
TimeStr2NsTime(s) ==
    CASE s.form = "monthday" -> MdTimeStr2NsTime(s)
      [] s.form = "ordinal" \/ YearLike(s) -> SeedTimeStr2NsTime(s)
      [] OTHER ->
             s.parts[1] * NSTMODULUS + (IF s.parts[1] >= 0 THEN 1 ELSE -1) * Nanos(s.fraction)
=============================================================================
