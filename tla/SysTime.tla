------------------------------ MODULE SysTime ------------------------------
(***************************************************************************)
(* SysTime of filter-ground/extra: a time of day that wraps at midnight.   *)
(* The units of the code (24, 60, 60, 1000, 1000000 and 1000000000) are    *)
(* constants.                                                              *)
(***************************************************************************)
EXTENDS SysDate

CONSTANTS Hours,  \* in a day
          Mins,   \* in an hour
          Secs,   \* in a minute
          Millis, \* in a second
          Micros, \* in a second
          Nanos   \* in a second

ASSUME UnitAssumption == /\ Hours \in Nat \ {0} /\ Mins \in Nat \ {0}
                         /\ Secs \in Nat \ {0} /\ Nanos \in Nat \ {0}
                         /\ Millis \in 1..Nanos /\ Nanos % Millis = 0
                         /\ Micros \in 1..Nanos /\ Nanos % Micros = 0

SecsPerDay == Hours * Mins * Secs

NanosPerMilli == Nanos \div Millis
NanosPerMicro == Nanos \div Micros

\* Seeded bug: a negative rest does not borrow another second.
Carry_NoBorrow(nano) == IF nano >= 0 THEN nano \div Nanos ELSE -((-nano) \div Nanos)

\* What set() adds to the seconds for nanoseconds out of their range, ...
Carry(nano) ==
    IF nano >= 0 THEN nano \div Nanos
    ELSE -((-nano) \div Nanos + (IF (-nano) % Nanos > 0 THEN 1 ELSE 0))

\* ... and what it leaves of them.
Rest(nano) == IF nano >= 0 THEN nano % Nanos ELSE (-Carry(nano)) * Nanos - (-nano)

\* The hour, minute and second that localtime() finds in a number of seconds.
Clock(secs) == [hour |-> (secs \div (Mins * Secs)) % Hours,
                min  |-> (secs \div Secs) % Mins,
                sec  |-> secs % Secs]

\* set(hour, min, sec, nano), the way every other setter goes.
SetTime(hour, min, sec, nano) ==
    [clock |-> Clock((hour * Mins + min) * Secs + sec + Carry(nano)), nano |-> Rest(nano)]

AddHour(t, k) == SetTime(t.clock.hour + k, t.clock.min, t.clock.sec, t.nano)
AddMin(t, k)  == SetTime(t.clock.hour, t.clock.min + k, t.clock.sec, t.nano)
AddSec(t, k)  == SetTime(t.clock.hour, t.clock.min, t.clock.sec + k, t.nano)
AddNano(t, k) == SetTime(t.clock.hour, t.clock.min, t.clock.sec, t.nano + k)
AddMilli(t, k) == AddNano(t, k * NanosPerMilli)
AddMicro(t, k) == AddNano(t, k * NanosPerMicro)

Millisec(t) == t.nano \div NanosPerMilli
Microsec(t) == t.nano \div NanosPerMicro

\* operator<
TimeBefore(a, b) ==
    IF a.clock = b.clock THEN a.nano < b.nano
    ELSE IF a.clock.hour = b.clock.hour /\ a.clock.min = b.clock.min THEN a.clock.sec < b.clock.sec
    ELSE IF a.clock.hour = b.clock.hour THEN a.clock.min < b.clock.min
    ELSE a.clock.hour < b.clock.hour

\* operator<=
TimeNotAfter(a, b) ==
    IF a.clock = b.clock THEN a.nano <= b.nano
    ELSE IF a.clock.hour = b.clock.hour /\ a.clock.min = b.clock.min THEN a.clock.sec <= b.clock.sec
    ELSE IF a.clock.hour = b.clock.hour THEN a.clock.min <= b.clock.min
    ELSE a.clock.hour <= b.clock.hour

\* operator==
SameTime(a, b) == a.clock = b.clock /\ a.nano = b.nano
-----------------------------------------------------------------------------
\* The fields that strftime() replaces itself, for %L, %K and %N: get_time() does
\* not know them.
Fractions == {"milli", "micro", "nano"}

TimeText(t, format) ==
    [f \in format |-> CASE f = "milli" -> Millisec(t)
                         [] f = "micro" -> Microsec(t)
                         [] f = "nano"  -> t.nano
                         [] f \in ClockFields -> t.clock[f]
                         [] OTHER -> 0]

\* strptime(): the fraction becomes zero.
TimeRead(t, text) ==
    IF Readable(text) THEN [clock |-> [f \in ClockFields |-> GetTime(text)[f]], nano |-> 0] ELSE t
=============================================================================
