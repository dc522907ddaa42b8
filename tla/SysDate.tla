------------------------------ MODULE SysDate ------------------------------
(***************************************************************************)
(* SysDate of filter-ground/extra: a day of the calendar, kept as year,    *)
(* month and day.  Every setter goes through mktime() and localtime(),     *)
(* which turn a month or a day out of its range into a later or an earlier *)
(* day; they are the C library's and modelled by the Gregorian calendar,   *)
(* with days counted from 1970-01-01.                                      *)
(***************************************************************************)
EXTENDS Integers

IsLeap(y) == y % 4 = 0 /\ (y % 100 # 0 \/ y % 400 = 0)

MonthDays == <<31, 28, 31, 30, 31, 30, 31, 31, 30, 31, 30, 31>>
DaysBefore == <<0, 31, 59, 90, 120, 151, 181, 212, 243, 273, 304, 334>>

DaysIn(y, m) == IF m = 2 /\ IsLeap(y) THEN 29 ELSE MonthDays[m]

FirstOfYear(y) == 365 * (y - 1970) + (y - 1) \div 4 - (y - 1) \div 100 + (y - 1) \div 400 - 477

FirstOfMonth(y, m) == DaysBefore[m] + (IF m > 2 /\ IsLeap(y) THEN 1 ELSE 0)

\* The day that mktime() makes of a year, a month and a day out of their ranges.
DayNumber(year, month, day) ==
    LET y == year + (month - 1) \div 12
        m == ((month - 1) % 12) + 1
    IN FirstOfYear(y) + FirstOfMonth(y, m) + day - 1

\* The date that localtime() makes of a day.
CivilDate(n) ==
    LET near == 1970 + (n * 400) \div 146097
        y == CHOOSE k \in near - 1 .. near + 1 : FirstOfYear(k) <= n /\ n < FirstOfYear(k + 1)
        rest == n - FirstOfYear(y)
        m == CHOOSE k \in 1..12 : rest - FirstOfMonth(y, k) \in 0 .. DaysIn(y, k) - 1
    IN [year |-> y, month |-> m, day |-> rest - FirstOfMonth(y, m) + 1]

Weekday(n) == (n + 4) % 7
-----------------------------------------------------------------------------
\* set(year, month, day), the way every other setter goes.
SetDate(year, month, day) ==
    LET n == DayNumber(year, month, day)
    IN [civil |-> CivilDate(n), day_of_week |-> Weekday(n)]

AddYear(date, k)  == SetDate(date.civil.year + k, date.civil.month, date.civil.day)
AddMonth(date, k) == SetDate(date.civil.year, date.civil.month + k, date.civil.day)
AddDay(date, k)   == SetDate(date.civil.year, date.civil.month, date.civil.day + k)

FirstDayOfMonth(date) == SetDate(date.civil.year, date.civil.month, 1)

\* The table of last_day_of_month(): the leap year is that of year - 1900.
Ytab(tm_year, month) == IF month = 2 /\ IsLeap(tm_year) THEN 29 ELSE MonthDays[month]

LastDayOfMonth(date) ==
    SetDate(date.civil.year, date.civil.month, Ytab(date.civil.year - 1900, date.civil.month))

\* operator< (and operator> with its arguments exchanged)
DateBefore(a, b) ==
    IF a.civil.year = b.civil.year /\ a.civil.month = b.civil.month THEN a.civil.day < b.civil.day
    ELSE IF a.civil.year = b.civil.year THEN a.civil.month < b.civil.month
    ELSE a.civil.year < b.civil.year

\* operator<= (and operator>=)
DateNotAfter(a, b) ==
    IF a.civil.year = b.civil.year /\ a.civil.month = b.civil.month THEN a.civil.day <= b.civil.day
    ELSE IF a.civil.year = b.civil.year THEN a.civil.month <= b.civil.month
    ELSE a.civil.year <= b.civil.year

\* operator==
SameDate(a, b) == a.civil = b.civil
-----------------------------------------------------------------------------
(***************************************************************************)
(* Printing and reading.  A text is abstracted to the fields its format    *)
(* names and the numbers printed for them: put_time() prints the named     *)
(* fields of a struct tm, and get_time() reads the fields of its format    *)
(* into one, leaves the others as they are and fails on a field it does    *)
(* not know.                                                               *)
(***************************************************************************)
DateFields == {"year", "month", "day"}
ClockFields == {"hour", "min", "sec"}

\* A struct tm filled with zeros, its year and month counted as SysDate does.
BlankTm == [year |-> 1900, month |-> 1, day |-> 0, hour |-> 0, min |-> 0, sec |-> 0]

PutTime(tm, format) == [f \in format |-> tm[f]]
Readable(text) == DOMAIN text \subseteq DOMAIN BlankTm
GetTime(text) == [f \in DOMAIN BlankTm |-> IF f \in DOMAIN text THEN text[f] ELSE BlankTm[f]]

\* SysDate(), which is null, ...
NoDate == [civil |-> [year |-> 1970, month |-> 1, day |-> 1], day_of_week |-> 0]

\* ... strftime(), ...
DateText(date, format) == PutTime([f \in DOMAIN BlankTm |-> IF f \in DateFields THEN date.civil[f] ELSE 0], format)

\* ... strptime(): what was read is kept as it is, without a day of the week; ...
DateRead(date, text) ==
    IF Readable(text)
    THEN [civil |-> [f \in DateFields |-> GetTime(text)[f]], day_of_week |-> 0]
    ELSE date

\* ... and from_string().
DateFromText(text) == DateRead(NoDate, text)
=============================================================================
