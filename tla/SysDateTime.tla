---------------------------- MODULE SysDateTime ----------------------------
(***************************************************************************)
(* SysDateTime and SysDateTimeDiff of filter-ground/extra: an instant, set *)
(* and moved through its local date and time.  The instant is kept in      *)
(* nanoseconds since the epoch; local time is UTC plus a constant, as in   *)
(* the zone this system runs in.                                           *)
(***************************************************************************)
EXTENDS SysTime

CONSTANTS UtcOffset,       \* tm_gmtoff, in seconds
          Years, Months,   \* bounds: the dates the checks move in
          Steps            \* bounds: the amounts they add or set

ASSUME OffsetAssumption == UtcOffset \in -(SecsPerDay - 1) .. SecsPerDay - 1
ASSUME BoundsAssumption == /\ Years \subseteq Int /\ Months \subseteq Int
                           /\ Steps \subseteq Int

VARIABLES clock,  \* clock_
          null    \* null_

vars == <<clock, null>>

\* duration_cast truncates towards zero.
Cast(amount, unit) == IF amount >= 0 THEN amount \div unit ELSE -((-amount) \div unit)
-----------------------------------------------------------------------------
ToTimeT(c) == Cast(c, Nanos)
Nanosec(c) == c - ToTimeT(c) * Nanos
MillisecOf(c) == Cast(c, NanosPerMilli) - ToTimeT(c) * Millis
MicrosecOf(c) == Cast(c, NanosPerMicro) - ToTimeT(c) * Micros

\* localtime() and mktime() of a time_t.
LocalTime(t) == LET date == CivilDate((t + UtcOffset) \div SecsPerDay)
                    time == Clock(t + UtcOffset)
                IN [year |-> date.year, month |-> date.month, day |-> date.day,
                    hour |-> time.hour, min |-> time.min, sec |-> time.sec]
MkTime(tm) == DayNumber(tm.year, tm.month, tm.day) * SecsPerDay
              + (tm.hour * Mins + tm.min) * Secs + tm.sec - UtcOffset

Tm(c) == LocalTime(ToTimeT(c))

\* year() to sec()
FieldOf(c, field) == Tm(c)[field]
DayOfWeek(c) == Weekday((ToTimeT(c) + UtcOffset) \div SecsPerDay)

DateOf(c) == LET tm == Tm(c) IN SetDate(tm.year, tm.month, tm.day)
TimeOf(c) == LET tm == Tm(c) IN SetTime(tm.hour, tm.min, tm.sec, Nanosec(c))

\* What the setters make of clock_.
WithDateTime(c, year, month, day, hour, min, sec, nano) ==
    MkTime([year |-> year, month |-> month, day |-> day,
            hour |-> hour, min |-> min, sec |-> sec]) * Nanos + nano
WithDate(c, year, month, day) ==
    LET tm == Tm(c) IN WithDateTime(c, year, month, day, tm.hour, tm.min, tm.sec, Nanosec(c))

\* Seeded bug: the nanoseconds are kept, not set.
WithTime_KeepsNanos(c, hour, min, sec, nano) ==
    LET tm == Tm(c) IN WithDateTime(c, tm.year, tm.month, tm.day, hour, min, sec, Nanosec(c))

WithTime(c, hour, min, sec, nano) ==
    LET tm == Tm(c) IN WithDateTime(c, tm.year, tm.month, tm.day, hour, min, sec, nano)
With(c, field, value) == MkTime([Tm(c) EXCEPT ![field] = value]) * Nanos + Nanosec(c)
WithNano(c, value) == ToTimeT(c) * Nanos + value
WithMilli(c, value) == (ToTimeT(c) * Millis + value) * NanosPerMilli
WithMicro(c, value) == (ToTimeT(c) * Micros + value) * NanosPerMicro

\* SysDateTime(date, time): set from the epoch.
Join(date, time) ==
    WithTime(WithDate(0, date.civil.year, date.civil.month, date.civil.day),
             time.clock.hour, time.clock.min, time.clock.sec, time.nano)

Plus(c, unit, k) ==
    CASE unit = "year"  -> With(c, "year", Tm(c).year + k)
      [] unit = "month" -> With(c, "month", Tm(c).month + k)
      [] unit = "day"   -> c + k * SecsPerDay * Nanos
      [] unit = "hour"  -> c + k * Mins * Secs * Nanos
      [] unit = "min"   -> c + k * Secs * Nanos
      [] unit = "sec"   -> c + k * Nanos
      [] unit = "milli" -> c + k * NanosPerMilli
      [] unit = "micro" -> c + k * NanosPerMicro
      [] unit = "nano"  -> c + k

\* utc() and to_utc()
ToUtc(c) == Plus(c, "sec", -UtcOffset)

\* to_timespec(), to_timeval() and the assignments from them
TimeSpec(c) == [tv_sec |-> ToTimeT(c), tv_nsec |-> Nanosec(c)]
TimeVal(c) == [tv_sec |-> ToTimeT(c), tv_usec |-> MicrosecOf(c)]
FromTimeSpec(ts) == ts.tv_sec * Nanos + ts.tv_nsec
FromTimeVal(tv) == (tv.tv_sec * Micros + tv.tv_usec) * NanosPerMicro
-----------------------------------------------------------------------------
FirstDay(c) == With(c, "day", 1)
FirstTimeOfDay(c) == WithTime(c, 0, 0, 0, 0)
FirstTimeOfMonth(c) == FirstTimeOfDay(FirstDay(c))

LastTimeOfDay(c) == WithTime(c, Hours - 1, Mins - 1, Secs - 1, Nanos - 1)

\* Seeded bug: the month of the table is one too far.
LastDay_NextMonth(c) ==
    LET tm == Tm(c) IN
    (ToTimeT(c) + (Ytab(tm.year - 1900, (tm.month % 12) + 1) - tm.day) * SecsPerDay) * Nanos + Nanosec(c)

\* last_day_of_month(): moved by days, with tm_year in the place of the year.
LastDay(c) ==
    LET tm == Tm(c) IN
    (ToTimeT(c) + (Ytab(tm.year - 1900, tm.month) - tm.day) * SecsPerDay) * Nanos + Nanosec(c)

LastTimeOfMonth(c) == LastTimeOfDay(LastDay(c))

\* SysDate::now(adjust_sec) and SysTime::now(adjust_sec) when the clock of the
\* system stands at c, ...
DateNow(c, adjust) ==
    LET tm == LocalTime(ToTimeT(c) + adjust) IN SetDate(tm.year, tm.month, tm.day)
TimeNow(c, adjust) ==
    LET t == ToTimeT(c) + adjust
        tm == LocalTime(t)
    IN SetTime(tm.hour, tm.min, tm.sec, c - t * Nanos)

\* ... SysDateTime::current(adjust_sec) then, ...
Current(c, adjust) == Plus(c, "sec", adjust)

\* ... SysDate::set_utc() and SysTime::set_utc(), and SysTime's operator=(time_t).
UtcDate(c) == DateNow(c, -UtcOffset)
UtcTime(t) == AddSec(t, -UtcOffset)
TimeOfTimeT(t) == [clock |-> Clock(t + UtcOffset), nano |-> 0]

\* strftime(), ...
Text(c, format) ==
    [f \in format |-> CASE f = "milli" -> MillisecOf(c)
                         [] f = "micro" -> MicrosecOf(c)
                         [] f = "nano"  -> Nanosec(c)
                         [] OTHER -> Tm(c)[f]]

\* ... strptime(), whose fraction is zero and which leaves null alone when it fails, ...
Read(c, text) == IF Readable(text) THEN MkTime(GetTime(text)) * Nanos ELSE c

\* ... and from_string().
FromText(text) == Read(0, text)

\* SysDateTimeDiff::Components
Components(diff) ==
    LET hour == Mins * Secs * Nanos
        min  == Secs * Nanos
        d == Cast(Cast(diff, hour), Hours)
        h == Cast(diff, hour) - d * Hours
        m == Cast(diff, min) - (d * Hours * Mins + h * Mins)
        s == Cast(diff, Nanos) - (d * Hours * Mins * Secs + h * Mins * Secs + m * Secs)
    IN [days |-> d, hours |-> h, minutes |-> m, seconds |-> s,
        nanosecs |-> diff - (((d * Hours + h) * Mins + m) * Secs + s) * Nanos]
-----------------------------------------------------------------------------
Init == clock = 0 /\ null = TRUE

\* The checks stay within the bounds.
InBounds(c) == Tm(c).year \in Years /\ Tm(c).month \in Months

\* Every setter stores an instant and ends null.
Store(c) == InBounds(c) /\ clock' = c /\ null' = FALSE

SetDateOf == \E y \in Years, m \in Months, d \in Steps : Store(WithDate(clock, y, m, d))
SetTimeOf == \E h \in 0..Hours, s \in Steps, n \in 0 .. Nanos - 1 : Store(WithTime(clock, h, 0, s, n))
SetAll    == \E y \in Years, m \in Months, n \in 0 .. Nanos - 1 :
                 Store(WithDateTime(clock, y, m, 1, Hours - 1, Mins - 1, Secs - 1, n))
SetField  == \E k \in Steps, f \in {"month", "day", "hour", "min", "sec"} : Store(With(clock, f, k))
SetYear   == \E y \in Years : Store(With(clock, "year", y))
SetNano   == \E k \in Steps : Store(WithNano(clock, k))
SetMilli  == \E k \in Steps : Store(WithMilli(clock, k))
SetMicro  == \E k \in Steps : Store(WithMicro(clock, k))
Move      == \E k \in Steps, u \in {"year", "month", "day", "hour", "min", "sec",
                                    "milli", "micro", "nano"} : Store(Plus(clock, u, k))

\* What was printed is read again, with a format that may name a fraction.
ReadAgain == \E fields \in SUBSET (DateFields \cup {"hour", "sec", "milli"}) :
                LET text == Text(clock, fields) IN
                IF Readable(text) THEN Store(Read(clock, text)) ELSE UNCHANGED vars

Null == clock' = 0 /\ null' = TRUE

Next == SetDateOf \/ SetTimeOf \/ SetAll \/ SetField \/ SetYear \/ SetNano \/ SetMilli \/ SetMicro
        \/ Move \/ ReadAgain \/ Null

SafeSpec == Init /\ [][Next]_vars
-----------------------------------------------------------------------------
(***************************************************************************)
(* clock_ is a number, before the epoch or after it.                       *)
(***************************************************************************)
TypeOK == clock \in Int /\ null \in BOOLEAN

(***************************************************************************)
(* An instant is the pair of its date() and its time() again, to the       *)
(* nanosecond, whatever the comment on the constructor says                *)
(* (JoinedToTheSecond, below).  Before the epoch this holds of whole       *)
(* seconds only: there the fraction is counted back from the second after  *)
(* it, and date() may be the day after.                                    *)
(***************************************************************************)
SplitsAndRejoins ==
    (clock >= 0 \/ Nanosec(clock) = 0) => Join(DateOf(clock), TimeOf(clock)) = clock

(***************************************************************************)
(* The comment on SysDateTime(date, time), SysDateTime.h:35-36: "nanosec   *)
(* is zero".  The code does not keep it: time(time) passes the nanoseconds *)
(* of the time of day on (:113).                                           *)
(***************************************************************************)
JoinedToTheSecond == Nanosec(Join(DateOf(clock), TimeOf(clock))) = 0

\* Where tm_year and the year disagree on leap years.
LeapMismatch(c) == Tm(c).month = 2 /\ Tm(c).year % 100 = 0

(***************************************************************************)
(* The first and last times of the day and of the month enclose an         *)
(* instant, and the next day or month begins right after them: the pairs   *)
(* are used as the ends of a period.  (In the February of a century,       *)
(* SysDateTime.inc:61, the last day is wrong.)                             *)
(***************************************************************************)
PeriodsAreComplete ==
    clock >= 0 =>
        /\ FirstTimeOfDay(clock) <= clock /\ clock <= LastTimeOfDay(clock)
        /\ LastTimeOfDay(clock) + 1 = FirstTimeOfDay(Plus(clock, "day", 1))
        /\ FirstTimeOfMonth(clock) <= clock
        /\ ~LeapMismatch(clock) =>
              /\ clock <= LastTimeOfMonth(clock)
              /\ LastTimeOfMonth(clock) + 1 = FirstTimeOfMonth(Plus(FirstDay(clock), "month", 1))

(***************************************************************************)
(* To add to an instant and take its date or its time of day, or to take   *)
(* them and add, is the same.  So it is with SysDate::now(k) and           *)
(* SysDateTime::current(k); SysTime::now(k) is looked at with k = 0 only,  *)
(* because it counts its nanoseconds from the adjusted second.             *)
(***************************************************************************)
ArithmeticAgrees ==
    clock >= 0 =>
        LET date == DateOf(clock)
            time == TimeOf(clock)
        IN /\ date.day_of_week = DayOfWeek(clock)
           /\ \A f \in ClockFields : FieldOf(clock, f) = time.clock[f]
           /\ \A f \in DateFields : FieldOf(clock, f) = date.civil[f]
           /\ Millisec(time) = MillisecOf(clock) /\ Microsec(time) = MicrosecOf(clock)
           /\ FromTimeSpec(TimeSpec(clock)) = clock
           /\ FromTimeVal(TimeVal(clock)) = WithMicro(clock, MicrosecOf(clock))
           /\ SameDate(LastDayOfMonth(date), DateOf(LastDay(clock)))
           /\ FirstDay(clock) >= 0 => SameDate(FirstDayOfMonth(date), DateOf(FirstDay(clock)))
           /\ SameTime(TimeNow(clock, 0), time)
           /\ TimeOfTimeT(ToTimeT(clock)) = TimeOf(WithNano(clock, 0))
           /\ ToUtc(clock) >= 0 => /\ SameDate(UtcDate(clock), DateOf(ToUtc(clock)))
                                   /\ SameTime(UtcTime(time), TimeOf(ToUtc(clock)))
           /\ \A k \in Steps :
                 LET Moves(unit) == Plus(clock, unit, k) >= 0 IN
                 /\ Moves("year")  => AddYear(date, k)  = DateOf(Plus(clock, "year", k))
                 /\ Moves("month") => AddMonth(date, k) = DateOf(Plus(clock, "month", k))
                 /\ Moves("day")   => AddDay(date, k)   = DateOf(Plus(clock, "day", k))
                 /\ Moves("hour")  => AddHour(time, k)  = TimeOf(Plus(clock, "hour", k))
                 /\ Moves("min")   => AddMin(time, k)   = TimeOf(Plus(clock, "min", k))
                 /\ Moves("sec")   => /\ AddSec(time, k) = TimeOf(Plus(clock, "sec", k))
                                      /\ DateNow(clock, k) = DateOf(Current(clock, k))
                 /\ Moves("milli") => AddMilli(time, k) = TimeOf(Plus(clock, "milli", k))
                 /\ Moves("micro") => AddMicro(time, k) = TimeOf(Plus(clock, "micro", k))
                 /\ Moves("nano")  => AddNano(time, k)  = TimeOf(Plus(clock, "nano", k))

(***************************************************************************)
(* The orders of dates and of times of day are those of their instants.    *)
(***************************************************************************)
OrdersAgree ==
    \A k \in Steps, unit \in {"year", "month", "day", "sec"} :
        LET other == Plus(clock, unit, k)
            midnight == FirstTimeOfDay(clock)
            midnight2 == FirstTimeOfDay(other)
            date == DateOf(clock)
            date2 == DateOf(other)
            time == TimeOf(clock)
            time2 == TimeOf(other)
        IN clock >= 0 /\ other >= 0 =>
             /\ DateBefore(date, date2) <=> midnight < midnight2
             /\ DateNotAfter(date, date2) <=> midnight <= midnight2
             /\ TimeBefore(time, time2) <=> clock - midnight < other - midnight2
             /\ TimeNotAfter(time, time2) <=> clock - midnight <= other - midnight2

(***************************************************************************)
(* An instant prints the date and the time of day that its date() and its  *)
(* time() print; a text that gives all their fields is read back as what   *)
(* was printed, to the second (a date without its day of the week); and a  *)
(* text with a fraction is not read at all.                                *)
(***************************************************************************)
PrintingAgrees ==
    clock >= 0 =>
        LET date == DateOf(clock)
            time == TimeOf(clock)
        IN /\ Text(clock, DateFields) = DateText(date, DateFields)
           /\ Text(clock, ClockFields \cup Fractions) = TimeText(time, ClockFields \cup Fractions)
           /\ FromText(Text(clock, DateFields \cup ClockFields)) = WithNano(clock, 0)
           /\ SameDate(DateFromText(DateText(date, DateFields)), date)
           /\ SameTime(TimeRead(time, TimeText(time, ClockFields)), TimeOf(WithNano(clock, 0)))
           /\ \A f \in Fractions : /\ ~Readable(TimeText(time, ClockFields \cup {f}))
                                   /\ FromText(Text(clock, DateFields \cup {f})) = 0

(***************************************************************************)
(* The components of a difference add up to it, have its sign, and each    *)
(* stays below the next larger unit.                                       *)
(***************************************************************************)
DiffAddsUp ==
    \A k \in Steps, unit \in {"month", "day", "hour", "min", "nano"} :
        LET diff == clock - Plus(clock, unit, k)
            c == Components(diff)
            sign == IF diff < 0 THEN -1 ELSE 1
        IN /\ diff = (((c.days * Hours + c.hours) * Mins + c.minutes) * Secs + c.seconds) * Nanos
                     + c.nanosecs
           /\ sign * c.days >= 0
           /\ sign * c.hours \in 0 .. Hours - 1
           /\ sign * c.minutes \in 0 .. Mins - 1
           /\ sign * c.seconds \in 0 .. Secs - 1
           /\ sign * c.nanosecs \in 0 .. Nanos - 1

(***************************************************************************)
(* The classes, each with its own arithmetic, comparisons, printing and    *)
(* reading, tell the same story.                                           *)
(***************************************************************************)
ClassesAgree == ArithmeticAgrees /\ OrdersAgree /\ PrintingAgrees /\ DiffAddsUp
=============================================================================
