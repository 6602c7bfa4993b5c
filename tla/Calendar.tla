------------------------------ MODULE Calendar ------------------------------
(***************************************************************************)
(* Times of libmseed (genutils.c, gmtime64.c): a signed count of           *)
(* nanoseconds since 1970, its parts, and back.  Years, months and days    *)
(* are the real ones; the parts of a day are constants, so that a day is   *)
(* few units long (in the code 24, 60, 60, 10000, 100 and 1000).           *)
(***************************************************************************)
EXTENDS Integers, Sequences, FiniteSetsExt

CONSTANTS HourPerDay, MinPerHour, SecPerMin, FsecPerSec, UsPerFsec, NsPerUs

ASSUME ScaleAssumption ==
    {HourPerDay, MinPerHour, SecPerMin, FsecPerSec, UsPerFsec, NsPerUs} \subseteq Nat \ {0}

NsPerFsec  == NsPerUs * UsPerFsec
NSTMODULUS == NsPerFsec * FsecPerSec
SecPerDay  == HourPerDay * MinPerHour * SecPerMin

\* 1902-01-01, which also stands for "no time".
NSTERROR == -24837 * SecPerDay * NSTMODULUS

\* Division as in C: cut towards zero, the remainder signed as the dividend.
CQuot(a, b) == IF a >= 0 THEN a \div b ELSE -((-a) \div b)
CRem(a, b)  == a - b * CQuot(a, b)

-----------------------------------------------------------------------------
DaysInMonth(leap) == <<31, 28 + leap, 31, 30, 31, 30, 31, 31, 30, 31, 30, 31>>
\* Days of the year before month `mon', of 0 .. 11.
JulianDays(leap, mon) ==
    <<0, 31, 59 + leap, 90 + leap, 120 + leap, 151 + leap, 181 + leap, 212 + leap,
      243 + leap, 273 + leap, 304 + leap, 334 + leap>>[mon + 1]

LeapYear(year)   == IF (year % 4 = 0 /\ year % 100 # 0) \/ year % 400 = 0 THEN 1 ELSE 0
YearLength(year) == 365 + LeapYear(year)

CheatDays == 13879       \* 2008-01-01
CycleDays == 365 * 400 + 100 - 4 + 1

DaysOfYears(from, to) == 365 * (to - from + 1) + Cardinality({y \in from..to : LeapYear(y) = 1})

\* From day m of a year on: the year and the day of it, counted from its
\* first day, and backwards, counted from its end.  (The years the loops end
\* with; each passes 365 or 366 days.)
YearsUp(m, year) ==
    CHOOSE found \in {<<y, m - DaysOfYears(year, y - 1)>> :
                           y \in year + (m \div 366) .. year + (m \div 365)} :
        found[2] \in 0..YearLength(found[1]) - 1
YearsDown(m, year) ==
    CHOOSE found \in {<<y, m + DaysOfYears(y + 1, year)>> :
                           y \in year - ((-m - 1) \div 365) .. year - ((-m - 1) \div 366)} :
        found[2] \in -YearLength(found[1])..-1

\* The month of a day of a year, and the day of it; the day may be counted
\* backwards from the end of the year, too.  (The months the loops end with.)
MonthsUp(m, leap) ==
    LET mon == Max({x \in 0..11 : JulianDays(leap, x) <= m})
    IN  <<mon, m - JulianDays(leap, mon)>>
MonthsDown(m, leap) == MonthsUp(m + 365 + leap, leap)

FromStart(found) == <<found[1]>> \o MonthsUp(found[2], LeapYear(found[1]))
FromEnd(found)   == <<found[1]>> \o MonthsDown(found[2], LeapYear(found[1]))
UpFrom(day, year) ==
    FromStart(YearsUp(day % CycleDays, year + 400 * (day \div CycleDays)))
DownFrom(day, cycles) ==
    FromEnd(YearsDown(day - cycles * CycleDays, 1969 + 400 * cycles))

DateOf(day) ==
    IF day >= CheatDays THEN UpFrom(day - CheatDays, 2008)
    ELSE IF day >= 0 THEN UpFrom(day, 1970)
    ELSE DownFrom(day, CQuot(day, CycleDays) + 1)

\* A part below zero borrows from the next one.
Borrow(v)         == IF v < 0 THEN 1 ELSE 0
Borrowed(v, unit) == v + unit * Borrow(v)

Broken(date, hour, min, sec) ==
    [year |-> date[1], mon |-> date[2], mday |-> date[3] + 1,
     yday |-> JulianDays(LeapYear(date[1]), date[2]) + date[3],
     hour |-> hour, min |-> min, sec |-> sec]

\* ms_gmtime64_r(): the parts of a count of seconds.
GmTime(time) ==
    LET mins  == CQuot(time, SecPerMin)
        hours == CQuot(mins, MinPerHour)
        sec   == CRem(time, SecPerMin)
        min   == CRem(mins, MinPerHour) - Borrow(sec)
        hour  == CRem(hours, HourPerDay) - Borrow(min)
    IN  Broken(DateOf(CQuot(hours, HourPerDay) - Borrow(hour)),
               Borrowed(hour, HourPerDay), Borrowed(min, MinPerHour), Borrowed(sec, SecPerMin))

\* Seconds, and nanoseconds that are not negative.
EpochParts(nstime) ==
    LET isec   == CQuot(nstime, NSTMODULUS)
        ifract == nstime - isec * NSTMODULUS
    IN  IF nstime < 0 /\ ifract # 0 THEN <<isec - 1, NSTMODULUS + ifract>>
        ELSE <<isec, ifract>>

\* ms_nstime2time().
WithNanos(tms, nsec) ==
    [year |-> tms.year, day |-> tms.yday + 1, hour |-> tms.hour,
     min |-> tms.min, sec |-> tms.sec, nsec |-> nsec]
NsTime2Time(nstime) ==
    WithNanos(GmTime(EpochParts(nstime)[1]), EpochParts(nstime)[2])

-----------------------------------------------------------------------------
\* ms_time2nstime_int().
DaysSince1970(year, yday) ==
    LET short == year - 1900
        a4    == (short \div 4) + 475 - (IF short % 4 = 0 THEN 1 ELSE 0)
        a100  == CQuot(a4, 25) - Borrow(CRem(a4, 25))
        a400  == a100 \div 4
    IN  365 * (short - 70) + (a4 - 492) - (a100 - 19) + (a400 - 4) + (yday - 1)

Time2NsTimeInt(t) ==
    ((((DaysSince1970(t.year, t.day) * HourPerDay) + t.hour) * MinPerHour + t.min)
         * SecPerMin + t.sec) * NSTMODULUS + t.nsec

ValidYear(year)         == year \in 1678..2262
ValidYearDay(year, day) == day \in 1..YearLength(year)
ValidClock(t) ==
    /\ t.hour \in 0..HourPerDay - 1 /\ t.min \in 0..MinPerHour - 1
    /\ t.sec \in 0..SecPerMin /\ t.nsec \in 0..NSTMODULUS - 1

\* ms_time2nstime().
Time2NsTime(t) ==
    IF ValidYear(t.year) /\ ValidYearDay(t.year, t.day) /\ ValidClock(t)
    THEN Time2NsTimeInt(t) ELSE NSTERROR

\* ms_doy2md() and ms_md2doy(): day 0 of a month is let through.
Doy2Md(year, yday) ==
    IF ~ValidYear(year) \/ ~ValidYearDay(year, yday) THEN <<>>
    ELSE LET found == MonthsUp(yday - 1, LeapYear(year))
         IN  <<found[1] + 1, found[2] + 1>>
Md2Doy(year, month, mday) ==
    IF ~ValidYear(year) \/ month \notin 1..12
         \/ mday \notin 0..DaysInMonth(LeapYear(year))[month] THEN -1
    ELSE JulianDays(LeapYear(year), month - 1) + mday

\* ms_sampletime(), at p / q samples a second and no list of leap seconds: the
\* span is rounded to a nanosecond.
SampleTime(time, offset, rate) ==
    IF offset <= 0 \/ rate[1] = 0 THEN time
    ELSE time + (2 * offset * rate[2] * NSTMODULUS + rate[1]) \div (2 * rate[1])

\* ms_btime2nstime(): the fraction counts tenths of milliseconds.
BTime2NsTime(t) ==
    Time2NsTime([year |-> t.year, day |-> t.day, hour |-> t.hour, min |-> t.min,
                 sec |-> t.sec, nsec |-> t.fsec * NsPerFsec])
=============================================================================
