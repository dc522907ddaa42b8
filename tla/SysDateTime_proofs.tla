------------------------ MODULE SysDateTime_proofs ------------------------
(***************************************************************************)
(* For all units of a time of day, every offset from UTC and every instant: *)
(* the classes of dates and times agree with each other, their periods are *)
(* complete, and the compact parser reads what was printed.  The day of a  *)
(* date and the date of a day are taken over all years; an instant is one  *)
(* day, one time of day and one fraction of a second, and every property is *)
(* shown of that.                                                          *)
(***************************************************************************)
EXTENDS SysDateTime, CompactFormat, TLAPS, WellFoundedInduction, SequenceTheorems

-----------------------------------------------------------------------------
(* Numbers, the calendar and the clock *)

\* Division rounds down.
LEMMA DivMod ==
  ASSUME NEW a \in Int, NEW b \in Nat \ {0}
  PROVE  /\ a \div b \in Int /\ a % b \in 0 .. b - 1
         /\ a = b * (a \div b) + (a % b)
OBVIOUS

\* Every number is a multiple and a rest, ...
LEMMA Quotient ==
  ASSUME NEW a \in Int, NEW b \in Nat \ {0}
  PROVE  \E q \in Int, r \in 0 .. b - 1 : a = b * q + r
BY DivMod

\* Multiplying keeps the order.
LEMMA MulMonotone ==
  ASSUME NEW a \in Int, NEW b \in Int, NEW c \in Nat, a <= b
  PROVE  c * a <= c * b
OBVIOUS

\* ... and its quotient and rest are those of any such sum.
LEMMA DivUnique ==
  ASSUME NEW b \in Nat \ {0}, NEW q \in Int, NEW r \in 0 .. b - 1, NEW a \in Int, a = b * q + r
  PROVE  a \div b = q /\ a % b = r
<1>1. a \div b \in Int /\ a % b \in 0 .. b - 1 /\ a = b * (a \div b) + (a % b)
  BY DivMod
<1>2. \/ a \div b = q \/ a \div b <= q - 1 \/ q + 1 <= a \div b
  BY <1>1
<1>3. CASE a \div b <= q - 1
  <2>1. b * (a \div b) <= b * (q - 1)
    BY <1>1, <1>3, MulMonotone
  <2>2. b * (q - 1) = b * q - b
    OBVIOUS
  <2> QED
    BY <1>1, <2>1, <2>2
<1>4. CASE q + 1 <= a \div b
  <2>1. b * (q + 1) <= b * (a \div b)
    BY <1>1, <1>4, MulMonotone
  <2>2. b * (q + 1) = b * q + b
    OBVIOUS
  <2> QED
    BY <1>1, <2>1, <2>2
<1> QED
  BY <1>1, <1>2, <1>3, <1>4

\* A year begins as long after the year before as that one has days.
LEMMA YearLength ==
  ASSUME NEW y \in Int
  PROVE  /\ FirstOfYear(y) \in Int
         /\ FirstOfYear(y + 1) = FirstOfYear(y) + (IF IsLeap(y) THEN 366 ELSE 365)
BY DEF FirstOfYear, IsLeap

\* The year of a day is one of three.
LEMMA YearNear ==
  ASSUME NEW n \in Int
  PROVE LET near == 1970 + (n * 400) \div 146097 IN
        FirstOfYear(near - 1) <= n /\ n < FirstOfYear(near + 2)
BY DEF FirstOfYear

\* Every day of a year is in a month, ...
LEMMA MonthOf ==
  ASSUME NEW y \in Int, NEW d \in 0 .. (IF IsLeap(y) THEN 365 ELSE 364)
  PROVE  \E k \in 1..12 : d - FirstOfMonth(y, k) \in 0 .. DaysIn(y, k) - 1
BY DEF FirstOfMonth, DaysIn, DaysBefore, MonthDays

\* ... and in no other.
LEMMA MonthOnce ==
  ASSUME NEW y \in Int, NEW d \in Int, NEW k \in 1..12, NEW l \in 1..12,
         d - FirstOfMonth(y, k) \in 0 .. DaysIn(y, k) - 1,
         d - FirstOfMonth(y, l) \in 0 .. DaysIn(y, l) - 1
  PROVE  k = l
BY DEF FirstOfMonth, DaysIn, DaysBefore, MonthDays
\* A year has ended when a later one begins.
LEMMA YearsInOrder ==
  ASSUME NEW y \in Int, NEW z \in Int, y < z
  PROVE  FirstOfYear(y + 1) <= FirstOfYear(z)
BY DEF FirstOfYear

\* A day that is a day of a month of a year has that date, ...
LEMMA CivilDateIs ==
  ASSUME NEW n \in Int, NEW y \in Int, NEW m \in 1..12, NEW d \in 1 .. DaysIn(y, m),
         n = FirstOfYear(y) + FirstOfMonth(y, m) + d - 1
  PROVE  CivilDate(n) = [year |-> y, month |-> m, day |-> d]
<1> DEFINE near == 1970 + (n * 400) \div 146097
           k == CHOOSE k \in near - 1 .. near + 1 : FirstOfYear(k) <= n /\ n < FirstOfYear(k + 1)
           rest == n - FirstOfYear(y)
           l == CHOOSE l \in 1..12 : rest - FirstOfMonth(y, l) \in 0 .. DaysIn(y, l) - 1
<1>1. /\ near \in Int
      /\ FirstOfYear(near - 1) <= n /\ n < FirstOfYear(near + 2)
  BY YearNear
<1>2. DaysIn(y, m) \in Nat /\ FirstOfMonth(y, m) \in Nat
      /\ FirstOfMonth(y, m) + DaysIn(y, m) <= (IF IsLeap(y) THEN 366 ELSE 365)
  BY DEF FirstOfMonth, DaysIn, DaysBefore, MonthDays
<1>3. /\ FirstOfYear(y) \in Int
      /\ FirstOfYear(y + 1) = FirstOfYear(y) + (IF IsLeap(y) THEN 366 ELSE 365)
  BY YearLength
<1>4. FirstOfYear(y) <= n /\ n < FirstOfYear(y + 1)
  BY <1>2, <1>3
<1>5. y \in near - 1 .. near + 1
  <2>1. ASSUME y < near - 1 PROVE FALSE
    BY <2>1, <1>1, <1>4, <1>3, YearsInOrder, YearLength
  <2>2. ASSUME near + 1 < y PROVE FALSE
    <3>1. near + 1 \in Int /\ near + 1 + 1 = near + 2
      BY <1>1
    <3>2. FirstOfYear(near + 1 + 1) <= FirstOfYear(y)
      BY <2>2, <3>1, YearsInOrder
    <3> QED
      BY <3>1, <3>2, <1>1, <1>3, <1>4, YearLength
  <2> QED
    BY <1>1, <2>1, <2>2
<1>6. ASSUME NEW z \in near - 1 .. near + 1, FirstOfYear(z) <= n, n < FirstOfYear(z + 1)
      PROVE  z = y
  <2>1. z \in Int
    BY <1>1
  <2>2. ASSUME z < y PROVE FALSE
    BY <2>1, <2>2, <1>4, <1>6, <1>3, YearsInOrder, YearLength
  <2>3. ASSUME y < z PROVE FALSE
    BY <2>1, <2>3, <1>4, <1>6, <1>3, YearsInOrder, YearLength
  <2> QED
    BY <2>1, <2>2, <2>3
<1>7. k = y
  BY <1>4, <1>5, <1>6
<1>8. rest \in Int /\ rest - FirstOfMonth(y, m) = d - 1 /\ d - 1 \in 0 .. DaysIn(y, m) - 1
  BY <1>2, <1>3
<1>9. l = m
  BY <1>8, MonthOnce
<1> DEFINE Date(x) == LET at == n - FirstOfYear(x)
                          j == CHOOSE j \in 1..12 : at - FirstOfMonth(x, j) \in 0 .. DaysIn(x, j) - 1
                      IN  [year |-> x, month |-> j, day |-> at - FirstOfMonth(x, j) + 1]
<1>10. CivilDate(n) = Date(k)
  BY DEF CivilDate
<1>11. Date(y) = [year |-> y, month |-> l, day |-> rest - FirstOfMonth(y, l) + 1]
  OBVIOUS
<1> HIDE DEF Date, k, l, rest
<1> QED
  BY <1>7, <1>8, <1>9, <1>10, <1>11

\* ... and every day is one.
LEMMA CivilOf ==
  ASSUME NEW n \in Int
  PROVE  \E y \in Int : \E m \in 1..12 : \E d \in 1 .. DaysIn(y, m) :
            /\ n = FirstOfYear(y) + FirstOfMonth(y, m) + d - 1
            /\ CivilDate(n) = [year |-> y, month |-> m, day |-> d]
<1> DEFINE near == 1970 + (n * 400) \div 146097
<1>1. /\ near \in Int
      /\ FirstOfYear(near - 1) <= n /\ n < FirstOfYear(near + 2)
  BY YearNear
<1>2. PICK y \in Int : FirstOfYear(y) <= n /\ n < FirstOfYear(y + 1)
  <2> HIDE DEF near
  <2>1. /\ near - 1 \in Int /\ near + 1 \in Int /\ near - 1 + 1 = near /\ near + 1 + 1 = near + 2
        /\ FirstOfYear(near) \in Int /\ FirstOfYear(near + 1) \in Int
    BY <1>1, YearLength
  <2> QED
    BY <1>1, <2>1
<1>3. n - FirstOfYear(y) \in 0 .. (IF IsLeap(y) THEN 365 ELSE 364)
  BY <1>2, YearLength
<1>4. PICK m \in 1..12 : n - FirstOfYear(y) - FirstOfMonth(y, m) \in 0 .. DaysIn(y, m) - 1
  BY <1>3, MonthOf
<1> DEFINE d == n - FirstOfYear(y) - FirstOfMonth(y, m) + 1
<1>5. FirstOfMonth(y, m) \in Nat /\ DaysIn(y, m) \in Nat /\ FirstOfYear(y) \in Int
  BY YearLength DEF FirstOfMonth, DaysIn, DaysBefore, MonthDays
<1>6. d \in 1 .. DaysIn(y, m) /\ n = FirstOfYear(y) + FirstOfMonth(y, m) + d - 1
  BY <1>4, <1>5
<1> HIDE DEF d
<1>7. CivilDate(n) = [year |-> y, month |-> m, day |-> d]
  BY <1>6, CivilDateIs
<1> QED
  BY <1>6, <1>7

\* The day of a date, and the days after it.
LEMMA DayNumberIs ==
  ASSUME NEW y \in Int, NEW m \in Int, NEW d \in Int
  PROVE  /\ DayNumber(y, m, d) \in Int
         /\ m \in 1..12 => DayNumber(y, m, d) = FirstOfYear(y) + FirstOfMonth(y, m) + d - 1
         /\ \A k \in Int : DayNumber(y, m, d + k) = DayNumber(y, m, d) + k
<1> DEFINE z == y + (m - 1) \div 12
           l == ((m - 1) % 12) + 1
<1>1. z \in Int /\ l \in 1..12 /\ (m \in 1..12 => z = y /\ l = m)
  OBVIOUS
<1> HIDE DEF z, l
<1>2. FirstOfYear(z) \in Int /\ FirstOfMonth(z, l) \in Int
  BY <1>1, YearLength DEF FirstOfMonth, DaysBefore
<1>3. \A x : DayNumber(y, m, x) = FirstOfYear(z) + FirstOfMonth(z, l) + x - 1
  BY DEF DayNumber, z, l
<1> QED
  BY <1>1, <1>2, <1>3

\* What the units are and make.
LEMMA Units ==
  /\ Hours \in Nat \ {0} /\ Mins \in Nat \ {0} /\ Secs \in Nat \ {0} /\ Nanos \in Nat \ {0}
  /\ Mins * Secs \in Nat \ {0} /\ SecsPerDay \in Nat \ {0}
  /\ SecsPerDay = Hours * (Mins * Secs)
  /\ UtcOffset \in Int
<1>1. Hours \in Nat \ {0} /\ Mins \in Nat \ {0} /\ Secs \in Nat \ {0} /\ Nanos \in Nat \ {0}
  BY UnitAssumption
<1>2. Mins * Secs \in Nat \ {0} /\ SecsPerDay = Hours * (Mins * Secs)
  BY <1>1 DEF SecsPerDay
<1>3. Hours * (Mins * Secs) \in Nat \ {0}
  BY <1>1, <1>2
<1>4. UtcOffset \in Int
  BY <1>2, <1>3, OffsetAssumption
<1> QED
  BY <1>1, <1>2, <1>3, <1>4

\* The range of a number of two digits, the higher with the base b.
LEMMA Digit ==
  ASSUME NEW a \in Nat, NEW b \in Nat, NEW x \in 0 .. a - 1, NEW y \in 0 .. b - 1
  PROVE  b * x + y \in 0 .. (a * b) - 1
<1>1. b * x <= b * (a - 1)
  BY MulMonotone
<1>2. b * (a - 1) = a * b - b /\ b * x \in Nat /\ a * b \in Nat
  OBVIOUS
<1> QED
  BY <1>1, <1>2

\* A number of seconds shows the hour, minute and second it is made of, ...
LEMMA ClockOf ==
  ASSUME NEW q \in Int, NEW h \in 0 .. Hours - 1, NEW m \in 0 .. Mins - 1, NEW x \in 0 .. Secs - 1
  PROVE  Clock(SecsPerDay * q + (h * Mins + m) * Secs + x) = [hour |-> h, min |-> m, sec |-> x]
<1> DEFINE s == SecsPerDay * q + (h * Mins + m) * Secs + x
           b == Hours * q + h
           a == Mins * b + m
<1>1. b \in Int /\ a \in Int
  BY Units
<1>2. s = Secs * a + x
  BY Units
<1>3. s = (Mins * Secs) * b + (Secs * m + x)
  BY Units
<1>4. Secs * m + x \in 0 .. (Mins * Secs) - 1
  BY Units, Digit
<1>5. b % Hours = h
  BY Units, <1>1, DivUnique
<1> HIDE DEF b
<1>6. a % Mins = m
  BY Units, <1>1, DivUnique
<1> HIDE DEF a
<1>7. s \in Int
  BY <1>1, <1>2, Units
<1> HIDE DEF s
<1>8. s \div Secs = a /\ s % Secs = x
  BY Units, <1>1, <1>2, <1>7, DivUnique
<1>9. s \div (Mins * Secs) = b
  BY Units, <1>1, <1>3, <1>4, <1>7, DivUnique
<1>10. Clock(s) = [hour |-> h, min |-> m, sec |-> x]
  BY <1>5, <1>6, <1>8, <1>9 DEF Clock
<1> QED
  BY <1>10 DEF s

\* ... and is made of some.
LEMMA ClockIs ==
  ASSUME NEW s \in Int
  PROVE  \E q \in Int : \E h \in 0 .. Hours - 1 : \E m \in 0 .. Mins - 1 : \E x \in 0 .. Secs - 1 :
            /\ s = SecsPerDay * q + (h * Mins + m) * Secs + x
            /\ Clock(s) = [hour |-> h, min |-> m, sec |-> x]
<1>1. PICK a \in Int, x \in 0 .. Secs - 1 : s = Secs * a + x
  BY Units, Quotient
<1>2. PICK b \in Int, m \in 0 .. Mins - 1 : a = Mins * b + m
  BY Units, Quotient
<1>3. PICK q \in Int, h \in 0 .. Hours - 1 : b = Hours * q + h
  BY Units, Quotient
<1>4. s = SecsPerDay * q + (h * Mins + m) * Secs + x
  BY <1>1, <1>2, <1>3, Units
<1> QED
  BY <1>4, ClockOf

\* The second, and the instant, of a day, a time of day and a fraction.
SecondOf(n, h, i, x) == SecsPerDay * n + (h * Mins + i) * Secs + x - UtcOffset
Instant(n, h, i, x, f) == SecondOf(n, h, i, x) * Nanos + f

\* The second of any fields is a number.
LEMMA SecondIsInt ==
  ASSUME NEW n \in Int, NEW h \in Int, NEW i \in Int, NEW x \in Int
  PROVE  SecondOf(n, h, i, x) \in Int
BY Units DEF SecondOf

\* Every second has a day and a time of day.
LEMMA EachSecond ==
  ASSUME NEW t \in Int
  PROVE  \E n \in Int : \E h \in 0 .. Hours - 1 : \E i \in 0 .. Mins - 1 : \E x \in 0 .. Secs - 1 :
            t = SecondOf(n, h, i, x)
<1> DEFINE s == t + UtcOffset
<1>1. s \in Int /\ t = s - UtcOffset
  BY Units
<1> HIDE DEF s
<1>2. PICK n \in Int : \E h \in 0 .. Hours - 1 : \E i \in 0 .. Mins - 1 : \E x \in 0 .. Secs - 1 :
            s = SecsPerDay * n + (h * Mins + i) * Secs + x
  <2>1. \E n \in Int : \E h \in 0 .. Hours - 1 : \E i \in 0 .. Mins - 1 : \E x \in 0 .. Secs - 1 :
            /\ s = SecsPerDay * n + (h * Mins + i) * Secs + x
            /\ Clock(s) = [hour |-> h, min |-> i, sec |-> x]
    BY <1>1, ClockIs
  <2> QED
    BY <2>1, Zenon
<1>3. PICK h \in 0 .. Hours - 1, i \in 0 .. Mins - 1, x \in 0 .. Secs - 1 :
            s = SecsPerDay * n + (h * Mins + i) * Secs + x
  BY <1>2
<1>4. t = SecondOf(n, h, i, x)
  BY <1>1, <1>3, Units DEF SecondOf
<1> QED
  BY <1>4

\* From the epoch on, or without a fraction, an instant is split where it was joined.
LEMMA CastOf ==
  ASSUME NEW t \in Int, NEW f \in 0 .. Nanos - 1, t >= 0 \/ f = 0
  PROVE  ToTimeT(t * Nanos + f) = t /\ Nanosec(t * Nanos + f) = f
<1> DEFINE c == t * Nanos + f
<1>1. c \in Int
  BY Units
<1>2. CASE t >= 0
  <2>1. t * Nanos >= 0
    BY <1>2, Units
  <2>2. c >= 0
    BY <2>1, Units
  <2>3. c = Nanos * t + f
    BY Units
  <2> HIDE DEF c
  <2>4. c \div Nanos = t
    BY <1>1, <2>3, Units, DivUnique
  <2>5. ToTimeT(c) = t
    BY <2>2, <2>4 DEF ToTimeT, Cast
  <2>6. Nanosec(c) = f
    BY <2>3, <2>5, Units DEF Nanosec
  <2> QED
    BY <2>5, <2>6 DEF c
<1>3. CASE t < 0 /\ f = 0
  <2>1. (-t) * Nanos >= 0 /\ -c = (-t) * Nanos
    BY <1>3, Units
  <2>2. -c = Nanos * (-t) + 0 /\ -c \in Int /\ -t \in Int /\ 0 \in 0 .. Nanos - 1
    BY <1>3, Units
  <2>3. (-c) \div Nanos = -t
    <3> HIDE DEF c
    <3> QED
      BY <1>1, <2>2, Units, DivUnique
  <2>4. t * Nanos # 0
    BY <1>3, Units
  <2>5. ToTimeT(c) = t
    <3>1. ~(c >= 0)
      BY <1>3, <2>1, <2>4, Units
    <3> HIDE DEF c
    <3> QED
      BY <1>1, <2>3, <3>1 DEF ToTimeT, Cast
  <2>6. Nanosec(c) = f
    BY <1>3, <2>5, Units DEF Nanosec
  <2> QED
    BY <2>5, <2>6
<1> QED
  BY <1>2, <1>3

\* Such an instant is made of a second and a fraction.
LEMMA EachInstant ==
  ASSUME NEW c \in Int, c >= 0 \/ Nanosec(c) = 0
  PROVE  \E t \in Int, f \in 0 .. Nanos - 1 :
            c = t * Nanos + f /\ (c >= 0 => t >= 0) /\ (t >= 0 \/ f = 0)
<1>1. CASE c >= 0
  <2>1. PICK t \in Int, f \in 0 .. Nanos - 1 : c = Nanos * t + f
    BY Units, Quotient
  <2>2. ASSUME t <= -1 PROVE FALSE
    <3>1. Nanos * t <= Nanos * (-1)
      BY <2>2, Units, MulMonotone
    <3> QED
      BY <1>1, <2>1, <3>1, Units
  <2>3. c = t * Nanos + f
    BY <2>1, Units
  <2> QED
    BY <2>1, <2>2, <2>3
<1>2. CASE c < 0 /\ Nanosec(c) = 0
  <2>1. ToTimeT(c) \in Int
    BY <1>2, Units, DivMod DEF ToTimeT, Cast
  <2>2. c = ToTimeT(c) * Nanos + 0 /\ 0 \in 0 .. Nanos - 1
    BY <1>2, <2>1, Units DEF Nanosec
  <2> QED
    BY <1>2, <2>1, <2>2
<1> QED
  BY <1>1, <1>2

-----------------------------------------------------------------------------
(* The fields of an instant *)

\* A struct tm with these fields.
TmWith(y, m, d, h, i, x) == [year |-> y, month |-> m, day |-> d, hour |-> h, min |-> i, sec |-> x]

\* The struct tm of a day and a time of day.
TmOf(n, h, i, x) == TmWith(CivilDate(n).year, CivilDate(n).month, CivilDate(n).day, h, i, x)

\* The fields of a day's date, which is the date of that day only.
LEMMA CivilFields ==
  ASSUME NEW n \in Int
  PROVE  /\ CivilDate(n).year \in Int /\ CivilDate(n).month \in 1..12
         /\ CivilDate(n).day \in 1 .. DaysIn(CivilDate(n).year, CivilDate(n).month)
         /\ CivilDate(n).day \in Int
         /\ CivilDate(n) = [year |-> CivilDate(n).year, month |-> CivilDate(n).month, day |-> CivilDate(n).day]
         /\ DayNumber(CivilDate(n).year, CivilDate(n).month, CivilDate(n).day) = n
<1>1. PICK y \in Int : \E m \in 1..12 : \E d \in 1 .. DaysIn(y, m) :
            /\ n = FirstOfYear(y) + FirstOfMonth(y, m) + d - 1
            /\ CivilDate(n) = [year |-> y, month |-> m, day |-> d]
  BY CivilOf
<1>2. PICK m \in 1..12 : \E d \in 1 .. DaysIn(y, m) :
            /\ n = FirstOfYear(y) + FirstOfMonth(y, m) + d - 1
            /\ CivilDate(n) = [year |-> y, month |-> m, day |-> d]
  BY <1>1
<1>3. PICK d \in 1 .. DaysIn(y, m) :
            /\ n = FirstOfYear(y) + FirstOfMonth(y, m) + d - 1
            /\ CivilDate(n) = [year |-> y, month |-> m, day |-> d]
  BY <1>2
<1>4. d \in Int
  BY DEF DaysIn, MonthDays
<1>5. DayNumber(y, m, d) = n
  BY <1>3, <1>4, DayNumberIs
<1> QED
  BY <1>3, <1>4, <1>5

\* A time of day is less than a day.
LEMMA DayRest ==
  ASSUME NEW h \in 0 .. Hours - 1, NEW i \in 0 .. Mins - 1, NEW x \in 0 .. Secs - 1
  PROVE  (h * Mins + i) * Secs + x \in 0 .. SecsPerDay - 1
<1>1. Mins * h + i \in 0 .. Hours * Mins - 1
  BY Units, Digit
<1> DEFINE g == Mins * h + i
<1>2. Hours * Mins \in Nat /\ (Hours * Mins) * Secs = SecsPerDay
  BY Units DEF SecsPerDay
<1> HIDE DEF g
<1>3. Secs * g + x \in 0 .. (Hours * Mins) * Secs - 1
  BY <1>1, <1>2, Units, Digit DEF g
<1>4. Secs * g + x = (h * Mins + i) * Secs + x
  BY Units DEF g
<1> QED
  BY <1>2, <1>3, <1>4

\* localtime() finds the day and the time of day of a second, ...
LEMMA LocalTimeIs ==
  ASSUME NEW n \in Int, NEW h \in 0 .. Hours - 1, NEW i \in 0 .. Mins - 1, NEW x \in 0 .. Secs - 1
  PROVE  /\ LocalTime(SecondOf(n, h, i, x)) = TmOf(n, h, i, x)
         /\ Clock(SecondOf(n, h, i, x) + UtcOffset) = [hour |-> h, min |-> i, sec |-> x]
         /\ (SecondOf(n, h, i, x) + UtcOffset) \div SecsPerDay = n
<1> DEFINE r == (h * Mins + i) * Secs + x
           s == SecondOf(n, h, i, x) + UtcOffset
<1>1. r \in 0 .. SecsPerDay - 1
  BY DayRest
<1>2. s \in Int /\ s = SecsPerDay * n + r
  BY <1>1, Units DEF SecondOf
<1>3. Clock(s) = [hour |-> h, min |-> i, sec |-> x]
  <2>1. s = SecsPerDay * n + (h * Mins + i) * Secs + x
    BY <1>2, Units
  <2> HIDE DEF s, r
  <2> QED
    BY <2>1, ClockOf
<1>4. s \div SecsPerDay = n
  <2> HIDE DEF s, r
  <2> QED
    BY <1>1, <1>2, Units, DivUnique
<1>5. LocalTime(SecondOf(n, h, i, x)) = TmOf(n, h, i, x)
  BY <1>3, <1>4 DEF LocalTime, TmOf, TmWith
<1> QED
  BY <1>3, <1>4, <1>5

\* ... and mktime() makes a second of any fields.
LEMMA MkTimeIs ==
  ASSUME NEW y \in Int, NEW m \in Int, NEW d \in Int, NEW h \in Int, NEW i \in Int, NEW x \in Int
  PROVE  MkTime(TmWith(y, m, d, h, i, x))
           = SecondOf(DayNumber(y, m, d), h, i, x)
<1> DEFINE n == DayNumber(y, m, d)
<1>1. n \in Int
  BY DayNumberIs
<1>2. MkTime(TmWith(y, m, d, h, i, x))
        = n * SecsPerDay + (h * Mins + i) * Secs + x - UtcOffset
  BY DEF MkTime, TmWith
<1> HIDE DEF n
<1>3. n * SecsPerDay + (h * Mins + i) * Secs + x - UtcOffset = SecondOf(n, h, i, x)
  BY <1>1, Units DEF SecondOf
<1> QED
  BY <1>2, <1>3 DEF n

\* The parts of a time of day are numbers.
LEMMA Ranges ==
  /\ \A h \in 0 .. Hours - 1 : h \in Int
  /\ \A i \in 0 .. Mins - 1 : i \in Int
  /\ \A x \in 0 .. Secs - 1 : x \in Int
  /\ \A f \in 0 .. Nanos - 1 : f \in Int
BY Units

\* How the fields of an instant are found.
Fielded(n, h, i, x, f) ==
  /\ n \in Int /\ h \in 0 .. Hours - 1 /\ i \in 0 .. Mins - 1 /\ x \in 0 .. Secs - 1
  /\ f \in 0 .. Nanos - 1
  /\ SecondOf(n, h, i, x) >= 0 \/ f = 0

\* The fields, the date and the time that are found for an instant.
LEMMA FieldsOf ==
  ASSUME NEW n, NEW h, NEW i, NEW x, NEW f, Fielded(n, h, i, x, f)
  PROVE  /\ Instant(n, h, i, x, f) \in Int
         /\ ToTimeT(Instant(n, h, i, x, f)) = SecondOf(n, h, i, x)
         /\ Nanosec(Instant(n, h, i, x, f)) = f
         /\ Tm(Instant(n, h, i, x, f)) = TmOf(n, h, i, x)
         /\ DateOf(Instant(n, h, i, x, f)) = [civil |-> CivilDate(n), day_of_week |-> Weekday(n)]
         /\ TimeOf(Instant(n, h, i, x, f)) = [clock |-> [hour |-> h, min |-> i, sec |-> x], nano |-> f]
         /\ DayOfWeek(Instant(n, h, i, x, f)) = Weekday(n)
<1> DEFINE t == SecondOf(n, h, i, x)
           c == Instant(n, h, i, x, f)
<1>1. t \in Int /\ c = t * Nanos + f /\ f \in 0 .. Nanos - 1 /\ (t >= 0 \/ f = 0)
  BY SecondIsInt, Ranges DEF Fielded, Instant
<1>2. LocalTime(t) = TmOf(n, h, i, x) /\ (t + UtcOffset) \div SecsPerDay = n
  BY LocalTimeIs DEF Fielded
<1> HIDE DEF t
<1>3. c \in Int /\ ToTimeT(c) = t /\ Nanosec(c) = f
  <2>1. ToTimeT(t * Nanos + f) = t /\ Nanosec(t * Nanos + f) = f
    BY <1>1, CastOf
  <2> HIDE DEF c
  <2>2. c \in Int
    BY <1>1, Units
  <2> QED
    BY <1>1, <2>1, <2>2
<1> HIDE DEF c
<1>4. Tm(c) = TmOf(n, h, i, x)
  BY <1>2, <1>3 DEF Tm
<1>5. DateOf(c) = [civil |-> CivilDate(n), day_of_week |-> Weekday(n)]
  <2>1. DayNumber(CivilDate(n).year, CivilDate(n).month, CivilDate(n).day) = n
    BY CivilFields DEF Fielded
  <2> QED
    BY <1>4, <2>1 DEF DateOf, SetDate, TmOf, TmWith
<1>6. DayOfWeek(c) = Weekday(n)
  BY <1>2, <1>3 DEF DayOfWeek
<1>7. TimeOf(c) = [clock |-> [hour |-> h, min |-> i, sec |-> x], nano |-> f]
  <2>1. Carry(f) = 0 /\ Rest(f) = f
    <3>1. f \in Int /\ f >= 0 /\ f = Nanos * 0 + f
      BY <1>1, Units
    <3>2. f \div Nanos = 0 /\ f % Nanos = f
      BY <1>1, <3>1, Units, DivUnique
    <3> QED
      BY <3>1, <3>2 DEF Carry, Rest
  <2>2. TimeOf(c) = SetTime(h, i, x, f)
    BY <1>3, <1>4 DEF TimeOf, TmOf, TmWith
  <2>3. (h * Mins + i) * Secs + x + 0 = SecsPerDay * 0 + (h * Mins + i) * Secs + x
    BY Units, Ranges DEF Fielded
  <2>4. Clock((h * Mins + i) * Secs + x + 0) = [hour |-> h, min |-> i, sec |-> x]
    BY <2>3, ClockOf DEF Fielded
  <2> QED
    BY <2>1, <2>2, <2>4 DEF SetTime
<1> QED
  BY <1>3, <1>4, <1>5, <1>6, <1>7 DEF c, t

\* From the epoch on, or without a fraction, every instant has fields that are found.
LEMMA EachFielded ==
  ASSUME NEW c \in Int, c >= 0 \/ Nanosec(c) = 0
  PROVE  \E n, h, i, x, f :
            /\ Fielded(n, h, i, x, f) /\ c = Instant(n, h, i, x, f)
            /\ c >= 0 => SecondOf(n, h, i, x) >= 0
<1>1. PICK t \in Int, f \in 0 .. Nanos - 1 :
         c = t * Nanos + f /\ (c >= 0 => t >= 0) /\ (t >= 0 \/ f = 0)
  BY EachInstant
<1>2. PICK n \in Int : \E h \in 0 .. Hours - 1 : \E i \in 0 .. Mins - 1 : \E x \in 0 .. Secs - 1 :
            t = SecondOf(n, h, i, x)
  BY EachSecond
<1>3. PICK h \in 0 .. Hours - 1, i \in 0 .. Mins - 1, x \in 0 .. Secs - 1 : t = SecondOf(n, h, i, x)
  BY <1>2
<1>4. Fielded(n, h, i, x, f) /\ c = Instant(n, h, i, x, f)
  BY <1>1, <1>3 DEF Fielded, Instant
<1> QED
  BY <1>1, <1>3, <1>4

(***************************************************************************)
(* An instant is joined of its date and its time.                          *)
(***************************************************************************)
LEMMA Rejoins ==
  ASSUME NEW c \in Int, c >= 0 \/ Nanosec(c) = 0
  PROVE  Join(DateOf(c), TimeOf(c)) = c
<1>1. PICK n, h, i, x, f : Fielded(n, h, i, x, f) /\ c = Instant(n, h, i, x, f)
  BY EachFielded
<1>2. /\ DateOf(c) = [civil |-> CivilDate(n), day_of_week |-> Weekday(n)]
      /\ TimeOf(c) = [clock |-> [hour |-> h, min |-> i, sec |-> x], nano |-> f]
  BY <1>1, FieldsOf
<1> DEFINE y == CivilDate(n).year
           m == CivilDate(n).month
           d == CivilDate(n).day
           base == WithDate(0, y, m, d)
<1>3. y \in Int /\ m \in Int /\ d \in Int /\ DayNumber(y, m, d) = n
  BY <1>1, CivilFields DEF Fielded
<1> HIDE DEF y, m, d
<1>4. Join(DateOf(c), TimeOf(c)) = WithTime(base, h, i, x, f)
  BY <1>2 DEF Join, y, m, d
<1>5. Nanosec(0) = 0
  BY Units, CastOf
<1>6. PICK n0, h0, i0, x0, f0 : Fielded(n0, h0, i0, x0, f0) /\ 0 = Instant(n0, h0, i0, x0, f0)
  BY <1>5, EachFielded
<1>7. Tm(0) = TmOf(n0, h0, i0, x0) /\ f0 = 0
  BY <1>5, <1>6, FieldsOf
<1>8. h0 \in Int /\ i0 \in Int /\ x0 \in Int /\ h \in Int /\ i \in Int /\ x \in Int
  BY <1>1, <1>6, Ranges DEF Fielded
<1>9. base = Instant(n, h0, i0, x0, 0)
  <2>1. base = MkTime(TmWith(y, m, d, h0, i0, x0)) * Nanos + 0
    BY <1>5, <1>7 DEF WithDate, WithDateTime, TmOf, TmWith
  <2> QED
    BY <1>3, <1>8, <2>1, MkTimeIs DEF Instant
<1>10. Fielded(n, h0, i0, x0, 0)
  BY <1>1, <1>6, Units DEF Fielded
<1>11. Tm(base) = TmOf(n, h0, i0, x0)
  BY <1>9, <1>10, FieldsOf
<1> HIDE DEF base
<1>12. WithTime(base, h, i, x, f) = MkTime(TmWith(y, m, d, h, i, x)) * Nanos + f
  BY <1>11 DEF WithTime, WithDateTime, TmOf, TmWith, y, m, d
<1>13. WithTime(base, h, i, x, f) = SecondOf(n, h, i, x) * Nanos + f
  BY <1>3, <1>8, <1>12, MkTimeIs
<1> QED
  BY <1>1, <1>4, <1>13 DEF Instant

-----------------------------------------------------------------------------
(* The arithmetic of the classes *)

\* The fields of an instant, found or not.
InRange(n, h, i, x, f) ==
  /\ n \in Int /\ h \in 0 .. Hours - 1 /\ i \in 0 .. Mins - 1 /\ x \in 0 .. Secs - 1
  /\ f \in 0 .. Nanos - 1

\* From the epoch on, the fields of an instant are found.
LEMMA NotNegative ==
  ASSUME NEW n, NEW h, NEW i, NEW x, NEW f, InRange(n, h, i, x, f), Instant(n, h, i, x, f) >= 0
  PROVE  Fielded(n, h, i, x, f) /\ SecondOf(n, h, i, x) >= 0
<1> DEFINE t == SecondOf(n, h, i, x)
<1>1. t \in Int /\ f \in 0 .. Nanos - 1 /\ t * Nanos + f >= 0
  BY SecondIsInt, Ranges DEF InRange, Instant
<1> HIDE DEF t
<1>2. t >= 0
  <2>1. ASSUME t <= -1 PROVE FALSE
    <3>1. Nanos * t <= Nanos * (-1)
      BY <1>1, <2>1, Units, MulMonotone
    <3> QED
      BY <1>1, <3>1, Units
  <2> QED
    BY <1>1, <2>1
<1> QED
  BY <1>2 DEF Fielded, InRange, t

\* One number is not two different sums.
LEMMA OneQuotient ==
  ASSUME NEW b \in Nat \ {0}, NEW q \in Int, NEW p \in Int,
         NEW r \in 0 .. b - 1, NEW s \in 0 .. b - 1, b * q + r = b * p + s
  PROVE  q = p /\ r = s
<1> DEFINE a == b * q + r
<1>1. a \in Int /\ a = b * q + r /\ a = b * p + s
  OBVIOUS
<1> HIDE DEF a
<1>2. a \div b = q /\ a % b = r
  BY <1>1, DivUnique
<1>3. a \div b = p /\ a % b = s
  BY <1>1, DivUnique
<1> QED
  BY <1>2, <1>3

\* set() takes nanoseconds apart as a division does that rounds down.
LEMMA CarryRest ==
  ASSUME NEW v \in Int
  PROVE  Carry(v) \in Int /\ Rest(v) \in 0 .. Nanos - 1 /\ v = Nanos * Carry(v) + Rest(v)
<1>1. CASE v >= 0
  BY <1>1, Units, DivMod DEF Carry, Rest
<1>2. CASE v < 0
  <2>1. -v \in Int
    OBVIOUS
  <2>2. PICK p \in Int, s \in 0 .. Nanos - 1 : -v = Nanos * p + s
    BY <2>1, Units, Quotient
  <2>3. (-v) \div Nanos = p /\ (-v) % Nanos = s
    <3> DEFINE w == -v
    <3> HIDE DEF w
    <3>1. w = Nanos * p + s /\ w \in Int
      BY <2>1, <2>2 DEF w
    <3>2. w \div Nanos = p /\ w % Nanos = s
      BY <3>1, Units, DivUnique
    <3> QED
      BY <3>2 DEF w
  <2>4. CASE s = 0
    <3>1. Carry(v) = -p /\ Rest(v) = p * Nanos - (-v)
      BY <1>2, <2>3, <2>4 DEF Carry, Rest
    <3> QED
      BY <2>2, <2>4, <3>1, Units
  <2>5. CASE s > 0
    <3>1. Carry(v) = -(p + 1) /\ Rest(v) = (-(-(p + 1))) * Nanos - (-v)
      BY <1>2, <2>3, <2>5 DEF Carry, Rest
    <3>2. (-(-(p + 1))) * Nanos = Nanos * p + Nanos /\ Nanos * (-(p + 1)) = -(Nanos * p) - Nanos
      BY Units
    <3> QED
      BY <2>2, <2>5, <3>1, <3>2, Units
  <2> QED
    BY <2>4, <2>5, Units
<1> QED
  BY <1>1, <1>2

\* Numbers, whatever their ranges.
IntDate(y, m, d) == y \in Int /\ m \in Int /\ d \in Int
AllInt(n, h, i, x, f) == n \in Int /\ h \in Int /\ i \in Int /\ x \in Int /\ f \in Int

\* A time set with numbers out of their ranges is that of the instant they make.
LEMMA SetTimeIs ==
  ASSUME NEW q, NEW g, NEW j, NEW y, NEW v, AllInt(q, g, j, y, v), Instant(q, g, j, y, v) >= 0
  PROVE  SetTime(g, j, y, v) = TimeOf(Instant(q, g, j, y, v))
<1> DEFINE c == Instant(q, g, j, y, v)
           s == SecondOf(q, g, j, y)
<1>1. q \in Int /\ g \in Int /\ j \in Int /\ y \in Int /\ v \in Int
  BY DEF AllInt
<1>2. s \in Int /\ c = s * Nanos + v
  BY <1>1, SecondIsInt DEF Instant
<1>3. c \in Int
  BY <1>1, <1>2, Units
<1>4. PICK n, h, i, x, f : Fielded(n, h, i, x, f) /\ c = Instant(n, h, i, x, f)
  <2> HIDE DEF c
  <2>1. c >= 0
    BY DEF c
  <2> QED
    BY <1>3, <2>1, EachFielded
<1> DEFINE t == SecondOf(n, h, i, x)
           w == Carry(v)
<1>5. t \in Int /\ c = t * Nanos + f /\ f \in 0 .. Nanos - 1
  BY <1>4, SecondIsInt, Ranges DEF Instant, Fielded
<1>6. w \in Int /\ Rest(v) \in 0 .. Nanos - 1 /\ v = Nanos * w + Rest(v)
  BY <1>1, CarryRest
<1>7. s + w = t /\ Rest(v) = f
  <2> HIDE DEF c, s, t, w
  <2>1. c = Nanos * (s + w) + Rest(v) /\ s + w \in Int
    BY <1>2, <1>6, Units
  <2>2. c = Nanos * t + f
    BY <1>5, Units
  <2> QED
    <3> DEFINE u == s + w
               r == Rest(v)
    <3> HIDE DEF u, r
    <3>1. u \in Int /\ r \in 0 .. Nanos - 1 /\ Nanos * u + r = Nanos * t + f
      BY <1>6, <2>1, <2>2 DEF u, r
    <3>2. u = t /\ r = f
      BY <1>5, <3>1, Units, OneQuotient
    <3> QED
      BY <3>2 DEF u, r
<1>8. (g * Mins + j) * Secs + y + w = SecsPerDay * (n - q) + (h * Mins + i) * Secs + x
  <2> HIDE DEF w
  <2>1. s + w = SecsPerDay * q + (g * Mins + j) * Secs + y - UtcOffset + w
    BY DEF SecondOf
  <2>2. t = SecsPerDay * n + (h * Mins + i) * Secs + x - UtcOffset
    BY DEF SecondOf
  <2>3. n \in Int /\ h \in Int /\ i \in Int /\ x \in Int
    BY <1>4, Ranges DEF Fielded
  <2> QED
    BY <1>1, <1>6, <1>7, <2>1, <2>2, <2>3, Units
<1> HIDE DEF w
<1>9. Clock((g * Mins + j) * Secs + y + w) = [hour |-> h, min |-> i, sec |-> x]
  <2> DEFINE p == n - q
  <2>1. p \in Int
    BY <1>1, <1>4 DEF Fielded
  <2>2. (g * Mins + j) * Secs + y + w = SecsPerDay * p + (h * Mins + i) * Secs + x
    BY <1>8
  <2> HIDE DEF p
  <2>3. Clock(SecsPerDay * p + (h * Mins + i) * Secs + x) = [hour |-> h, min |-> i, sec |-> x]
    BY <1>4, <2>1, ClockOf DEF Fielded
  <2> QED
    BY <2>2, <2>3
<1>10. SetTime(g, j, y, v) = [clock |-> [hour |-> h, min |-> i, sec |-> x], nano |-> f]
  BY <1>7, <1>9 DEF SetTime, w
<1> QED
  BY <1>4, <1>10, FieldsOf

\* The fields that are found for an instant, and its fraction.
Located(c, n, h, i, x, g) ==
  /\ n \in Int /\ h \in 0 .. Hours - 1 /\ i \in 0 .. Mins - 1 /\ x \in 0 .. Secs - 1
  /\ Tm(c) = TmOf(n, h, i, x) /\ Nanosec(c) = g

\* What the setters make of an instant.
LEMMA SettersOf ==
  ASSUME NEW c, NEW n, NEW h, NEW i, NEW x, NEW f, Located(c, n, h, i, x, f), NEW k \in Int
  PROVE  LET y == CivilDate(n).year
             m == CivilDate(n).month
             d == CivilDate(n).day
         IN /\ With(c, "year", k) = Instant(DayNumber(k, m, d), h, i, x, f)
            /\ With(c, "month", k) = Instant(DayNumber(y, k, d), h, i, x, f)
            /\ With(c, "day", k) = Instant(DayNumber(y, m, k), h, i, x, f)
            /\ WithTime(c, 0, 0, 0, 0) = Instant(n, 0, 0, 0, 0)
            /\ WithTime(c, Hours - 1, Mins - 1, Secs - 1, Nanos - 1)
                 = Instant(n, Hours - 1, Mins - 1, Secs - 1, Nanos - 1)
<1> DEFINE y == CivilDate(n).year
           m == CivilDate(n).month
           d == CivilDate(n).day
<1>1. y \in Int /\ m \in Int /\ d \in Int /\ DayNumber(y, m, d) = n
  BY CivilFields DEF Located
<1>2. h \in Int /\ i \in Int /\ x \in Int
  BY Ranges DEF Located
<1>3. Tm(c) = TmWith(y, m, d, h, i, x) /\ Nanosec(c) = f
  BY DEF Located, TmOf
<1> HIDE DEF y, m, d
<1>4. With(c, "year", k) = Instant(DayNumber(k, m, d), h, i, x, f)
  <2>1. [TmWith(y, m, d, h, i, x) EXCEPT !["year"] = k] = TmWith(k, m, d, h, i, x)
    BY DEF TmWith
  <2>2. With(c, "year", k) = MkTime([TmWith(y, m, d, h, i, x) EXCEPT !["year"] = k]) * Nanos + f
    BY <1>3, Zenon DEF With
  <2>3. With(c, "year", k) = MkTime(TmWith(k, m, d, h, i, x)) * Nanos + f
    BY <2>1, <2>2, Zenon
  <2> QED
    BY <1>1, <1>2, <2>3, MkTimeIs DEF Instant
<1>5. With(c, "month", k) = Instant(DayNumber(y, k, d), h, i, x, f)
  <2>1. [TmWith(y, m, d, h, i, x) EXCEPT !["month"] = k] = TmWith(y, k, d, h, i, x)
    BY DEF TmWith
  <2>2. With(c, "month", k) = MkTime([TmWith(y, m, d, h, i, x) EXCEPT !["month"] = k]) * Nanos + f
    BY <1>3, Zenon DEF With
  <2>3. With(c, "month", k) = MkTime(TmWith(y, k, d, h, i, x)) * Nanos + f
    BY <2>1, <2>2, Zenon
  <2> QED
    BY <1>1, <1>2, <2>3, MkTimeIs DEF Instant
<1>6. With(c, "day", k) = Instant(DayNumber(y, m, k), h, i, x, f)
  <2>1. [TmWith(y, m, d, h, i, x) EXCEPT !["day"] = k] = TmWith(y, m, k, h, i, x)
    BY DEF TmWith
  <2>2. With(c, "day", k) = MkTime([TmWith(y, m, d, h, i, x) EXCEPT !["day"] = k]) * Nanos + f
    BY <1>3, Zenon DEF With
  <2>3. With(c, "day", k) = MkTime(TmWith(y, m, k, h, i, x)) * Nanos + f
    BY <2>1, <2>2, Zenon
  <2> QED
    BY <1>1, <1>2, <2>3, MkTimeIs DEF Instant
<1>7. ASSUME NEW h2 \in Int, NEW i2 \in Int, NEW x2 \in Int, NEW f2
      PROVE  WithTime(c, h2, i2, x2, f2) = Instant(n, h2, i2, x2, f2)
  <2>1. WithTime(c, h2, i2, x2, f2) = MkTime(TmWith(y, m, d, h2, i2, x2)) * Nanos + f2
    BY <1>3 DEF WithTime, WithDateTime, TmWith
  <2> QED
    BY <1>1, <2>1, MkTimeIs DEF Instant
<1>8. Hours - 1 \in Int /\ Mins - 1 \in Int /\ Secs - 1 \in Int
  BY Units
<1> QED
  BY <1>4, <1>5, <1>6, <1>7, <1>8 DEF y, m, d

\* The fields that make an instant are the ones found for it.
LEMMA FieldedLocated ==
  ASSUME NEW c, NEW n, NEW h, NEW i, NEW x, NEW f, Fielded(n, h, i, x, f), c = Instant(n, h, i, x, f)
  PROVE  Located(c, n, h, i, x, f)
BY FieldsOf DEF Fielded, Located

\* What the units below a second are.
LEMMA SmallUnits ==
  /\ NanosPerMilli \in Nat \ {0} /\ NanosPerMicro \in Nat \ {0}
  /\ Millis \in Nat \ {0} /\ Micros \in Nat \ {0}
  /\ Nanos = Millis * NanosPerMilli /\ Nanos = Micros * NanosPerMicro
<1>1. Millis \in Nat \ {0} /\ Micros \in Nat \ {0} /\ Nanos \in Nat \ {0}
      /\ Nanos % Millis = 0 /\ Nanos % Micros = 0
  BY UnitAssumption
<1>2. Nanos = Millis * (Nanos \div Millis) + (Nanos % Millis) /\ Nanos \div Millis \in Int
  BY <1>1, DivMod
<1>3. Nanos = Micros * (Nanos \div Micros) + (Nanos % Micros) /\ Nanos \div Micros \in Int
  BY <1>1, DivMod
<1>4. ASSUME NEW a \in Nat \ {0}, NEW q \in Int, NEW b \in Nat \ {0}, b = a * q PROVE q \in Nat \ {0}
  <2>1. ASSUME q <= 0 PROVE FALSE
    <3>1. a * q <= a * 0
      BY <1>4, <2>1, MulMonotone
    <3> QED
      BY <1>4, <3>1
  <2> QED
    BY <1>4, <2>1
<1> QED
  BY <1>1, <1>2, <1>3, <1>4 DEF NanosPerMilli, NanosPerMicro

\* Adding days, hours, minutes, seconds or less adds to one of the fields.
LEMMA PlusOf ==
  ASSUME NEW n, NEW h, NEW i, NEW x, NEW f, AllInt(n, h, i, x, f), NEW k \in Int,
         NEW c, c = Instant(n, h, i, x, f)
  PROVE  /\ Plus(c, "day", k) = Instant(n + k, h, i, x, f)
         /\ Plus(c, "hour", k) = Instant(n, h + k, i, x, f)
         /\ Plus(c, "min", k) = Instant(n, h, i + k, x, f)
         /\ Plus(c, "sec", k) = Instant(n, h, i, x + k, f)
         /\ Plus(c, "milli", k) = Instant(n, h, i, x, f + k * NanosPerMilli)
         /\ Plus(c, "micro", k) = Instant(n, h, i, x, f + k * NanosPerMicro)
         /\ Plus(c, "nano", k) = Instant(n, h, i, x, f + k)
<1> USE DEF AllInt
<1> DEFINE s == SecondOf(n, h, i, x)
<1>1. s \in Int /\ c = s * Nanos + f
  BY SecondIsInt DEF Instant
<1>2. \A z \in Int, v \in Int : (s + z) * Nanos + (f + v) = c + z * Nanos + v
  <2> HIDE DEF s
  <2> QED
    BY <1>1, Units
<1>3. \A z \in Int : (s + z) * Nanos + f = c + z * Nanos
  <2> HIDE DEF s
  <2> QED
    BY <1>1, Units
<1>4. /\ SecondOf(n + k, h, i, x) = s + k * SecsPerDay
      /\ SecondOf(n, h + k, i, x) = s + k * Mins * Secs
      /\ SecondOf(n, h, i + k, x) = s + k * Secs
      /\ SecondOf(n, h, i, x + k) = s + k
  BY Units DEF SecondOf
<1>5. /\ k * SecsPerDay \in Int /\ k * Mins * Secs \in Int /\ k * Secs \in Int
      /\ k * NanosPerMilli \in Int /\ k * NanosPerMicro \in Int
  BY Units, SmallUnits
<1> HIDE DEF s
<1>6. Plus(c, "day", k) = Instant(n + k, h, i, x, f)
  BY <1>3, <1>4, <1>5 DEF Plus, Instant
<1>7. Plus(c, "hour", k) = Instant(n, h + k, i, x, f)
  BY <1>3, <1>4, <1>5 DEF Plus, Instant
<1>8. Plus(c, "min", k) = Instant(n, h, i + k, x, f)
  BY <1>3, <1>4, <1>5 DEF Plus, Instant
<1>9. Plus(c, "sec", k) = Instant(n, h, i, x + k, f)
  BY <1>3, <1>4 DEF Plus, Instant
<1>10. \A v \in Int : s * Nanos + (f + v) = c + v
  BY <1>1, Units
<1>11. Plus(c, "milli", k) = Instant(n, h, i, x, f + k * NanosPerMilli)
  BY <1>5, <1>10 DEF Plus, Instant, s
<1>12. Plus(c, "micro", k) = Instant(n, h, i, x, f + k * NanosPerMicro)
  BY <1>5, <1>10 DEF Plus, Instant, s
<1>13. Plus(c, "nano", k) = Instant(n, h, i, x, f + k)
  BY <1>10 DEF Plus, Instant, s
<1> QED
  BY <1>6, <1>7, <1>8, <1>9, <1>11, <1>12, <1>13

\* The date of an instant that has one.
LEMMA DateOfNonNegative ==
  ASSUME NEW n, NEW h, NEW i, NEW x, NEW f, InRange(n, h, i, x, f), Instant(n, h, i, x, f) >= 0
  PROVE  DateOf(Instant(n, h, i, x, f)) = [civil |-> CivilDate(n), day_of_week |-> Weekday(n)]
BY NotNegative, FieldsOf

(***************************************************************************)
(* Dates and times of day move as their instant does.                      *)
(***************************************************************************)
LEMMA MovesAgree ==
  ASSUME NEW c \in Nat, NEW k \in Int
  PROVE  LET date == DateOf(c)
             time == TimeOf(c)
             Moves(unit) == Plus(c, unit, k) >= 0
         IN /\ Moves("year")  => AddYear(date, k)  = DateOf(Plus(c, "year", k))
            /\ Moves("month") => AddMonth(date, k) = DateOf(Plus(c, "month", k))
            /\ Moves("day")   => AddDay(date, k)   = DateOf(Plus(c, "day", k))
            /\ Moves("hour")  => AddHour(time, k)  = TimeOf(Plus(c, "hour", k))
            /\ Moves("min")   => AddMin(time, k)   = TimeOf(Plus(c, "min", k))
            /\ Moves("sec")   => /\ AddSec(time, k) = TimeOf(Plus(c, "sec", k))
                                 /\ DateNow(c, k) = DateOf(Current(c, k))
            /\ Moves("milli") => AddMilli(time, k) = TimeOf(Plus(c, "milli", k))
            /\ Moves("micro") => AddMicro(time, k) = TimeOf(Plus(c, "micro", k))
            /\ Moves("nano")  => AddNano(time, k)  = TimeOf(Plus(c, "nano", k))
<1>1. PICK n, h, i, x, f : Fielded(n, h, i, x, f) /\ c = Instant(n, h, i, x, f)
  BY EachFielded
<1> DEFINE y == CivilDate(n).year
           m == CivilDate(n).month
           d == CivilDate(n).day
           date == DateOf(c)
           time == TimeOf(c)
           Moves(unit) == Plus(c, unit, k) >= 0
<1>2. /\ date = [civil |-> CivilDate(n), day_of_week |-> Weekday(n)]
      /\ time = [clock |-> [hour |-> h, min |-> i, sec |-> x], nano |-> f]
      /\ Tm(c) = TmWith(y, m, d, h, i, x)
      /\ ToTimeT(c) = SecondOf(n, h, i, x)
  BY <1>1, FieldsOf DEF TmOf
<1>3. /\ n \in Int /\ h \in Int /\ i \in Int /\ x \in Int /\ f \in Int
      /\ InRange(n, h, i, x, f) /\ f \in 0 .. Nanos - 1 /\ AllInt(n, h, i, x, f)
  BY <1>1, Ranges DEF Fielded, InRange, AllInt
<1>4. y \in Int /\ m \in Int /\ d \in Int /\ DayNumber(y, m, d) = n
  BY <1>3, CivilFields
<1>5. date.civil.year = y /\ date.civil.month = m /\ date.civil.day = d
      /\ Tm(c).year = y /\ Tm(c).month = m
      /\ time.clock.hour = h /\ time.clock.min = i /\ time.clock.sec = x /\ time.nano = f
  BY <1>2 DEF TmWith
<1> HIDE DEF y, m, d, date, time
<1>6. ASSUME NEW y2, NEW m2, NEW d2, IntDate(y2, m2, d2),
             Instant(DayNumber(y2, m2, d2), h, i, x, f) >= 0
      PROVE  DateOf(Instant(DayNumber(y2, m2, d2), h, i, x, f)) = SetDate(y2, m2, d2)
  <2>1. DayNumber(y2, m2, d2) \in Int
    BY <1>6, DayNumberIs DEF IntDate
  <2>2. InRange(DayNumber(y2, m2, d2), h, i, x, f)
    BY <1>3, <2>1 DEF InRange
  <2> QED
    BY <1>6, <2>2, DateOfNonNegative DEF SetDate
<1>7. /\ Plus(c, "day", k) = Instant(n + k, h, i, x, f)
      /\ Plus(c, "hour", k) = Instant(n, h + k, i, x, f)
      /\ Plus(c, "min", k) = Instant(n, h, i + k, x, f)
      /\ Plus(c, "sec", k) = Instant(n, h, i, x + k, f)
      /\ Plus(c, "milli", k) = Instant(n, h, i, x, f + k * NanosPerMilli)
      /\ Plus(c, "micro", k) = Instant(n, h, i, x, f + k * NanosPerMicro)
      /\ Plus(c, "nano", k) = Instant(n, h, i, x, f + k)
  BY <1>1, <1>3, PlusOf
<1>8. /\ AllInt(n, h + k, i, x, f) /\ AllInt(n, h, i + k, x, f) /\ AllInt(n, h, i, x + k, f)
      /\ AllInt(n, h, i, x, f + k)
      /\ AllInt(n, h, i, x, f + k * NanosPerMilli) /\ AllInt(n, h, i, x, f + k * NanosPerMicro)
  BY <1>3, SmallUnits DEF AllInt
<1>9. /\ AddHour(time, k) = SetTime(h + k, i, x, f)
      /\ AddMin(time, k) = SetTime(h, i + k, x, f)
      /\ AddSec(time, k) = SetTime(h, i, x + k, f)
      /\ AddMilli(time, k) = SetTime(h, i, x, f + k * NanosPerMilli)
      /\ AddMicro(time, k) = SetTime(h, i, x, f + k * NanosPerMicro)
      /\ AddNano(time, k) = SetTime(h, i, x, f + k)
  BY <1>5 DEF AddHour, AddMin, AddSec, AddMilli, AddMicro, AddNano
<1>10. Moves("year") => AddYear(date, k) = DateOf(Plus(c, "year", k))
  <2>1. y + k \in Int /\ IntDate(y + k, m, d)
    BY <1>4 DEF IntDate
  <2>2. Plus(c, "year", k) = Instant(DayNumber(y + k, m, d), h, i, x, f)
    BY <1>1, <1>5, <2>1, FieldedLocated, SettersOf DEF Plus, y, m, d
  <2> QED
    BY <1>5, <1>6, <2>1, <2>2 DEF AddYear
<1>11. Moves("month") => AddMonth(date, k) = DateOf(Plus(c, "month", k))
  <2>1. m + k \in Int /\ IntDate(y, m + k, d)
    BY <1>4 DEF IntDate
  <2>2. Plus(c, "month", k) = Instant(DayNumber(y, m + k, d), h, i, x, f)
    BY <1>1, <1>5, <2>1, FieldedLocated, SettersOf DEF Plus, y, m, d
  <2> QED
    BY <1>5, <1>6, <2>1, <2>2 DEF AddMonth
<1>12. Moves("day") => AddDay(date, k) = DateOf(Plus(c, "day", k))
  <2>1. IntDate(y, m, d + k) /\ DayNumber(y, m, d + k) = n + k
    BY <1>4, DayNumberIs DEF IntDate
  <2>2. Plus(c, "day", k) = Instant(DayNumber(y, m, d + k), h, i, x, f)
    BY <1>7, <2>1
  <2> QED
    BY <1>5, <1>6, <2>1, <2>2 DEF AddDay
<1>13. ASSUME NEW q, NEW g, NEW j, NEW z, NEW v, AllInt(q, g, j, z, v), NEW e, e = Instant(q, g, j, z, v), e >= 0
      PROVE  SetTime(g, j, z, v) = TimeOf(e)
  BY <1>13, SetTimeIs
<1>14. Moves("hour") => AddHour(time, k) = TimeOf(Plus(c, "hour", k))
  BY <1>7, <1>8, <1>9, <1>13
<1>15. Moves("min") => AddMin(time, k) = TimeOf(Plus(c, "min", k))
  BY <1>7, <1>8, <1>9, <1>13
<1>16. Moves("sec") => AddSec(time, k) = TimeOf(Plus(c, "sec", k))
  BY <1>7, <1>8, <1>9, <1>13
<1>17. Moves("sec") => DateNow(c, k) = DateOf(Current(c, k))
  <2> DEFINE t == SecondOf(n, h, i, x)
             c2 == Plus(c, "sec", k)
  <2>1. t \in Int /\ c = t * Nanos + f
    BY <1>1, <1>3, SecondIsInt DEF Instant
  <2> HIDE DEF t
  <2>2. c2 = (t + k) * Nanos + f
    BY <1>3, <2>1, Units DEF Plus
  <2>3. t + k <= -1 => Nanos * (t + k) <= Nanos * (-1)
    BY <2>1, Units, MulMonotone
  <2>4. c2 >= 0 => t + k >= 0
    BY <1>3, <2>1, <2>2, <2>3, Units
  <2>5. c2 >= 0 => ToTimeT(c2) = t + k
    <3>1. t + k \in Int
      BY <2>1
    <3> QED
      BY <1>3, <2>2, <2>4, <3>1, CastOf
  <2> HIDE DEF c2
  <2>6. ToTimeT(c) = t
    BY <1>2 DEF t
  <2> QED
    BY <2>5, <2>6 DEF DateNow, DateOf, Current, Tm, c2
<1>18. Moves("milli") => AddMilli(time, k) = TimeOf(Plus(c, "milli", k))
  BY <1>7, <1>8, <1>9, <1>13
<1>19. Moves("micro") => AddMicro(time, k) = TimeOf(Plus(c, "micro", k))
  BY <1>7, <1>8, <1>9, <1>13
<1>20. Moves("nano") => AddNano(time, k) = TimeOf(Plus(c, "nano", k))
  BY <1>7, <1>8, <1>9, <1>13
<1> QED
  BY <1>10, <1>11, <1>12, <1>14, <1>15, <1>16, <1>17, <1>18, <1>19, <1>20 DEF date, time

\* What an instant since the epoch is made of, and what its parts are.
LEMMA PartsOf ==
  ASSUME NEW c \in Nat
  PROVE  \E n, h, i, x, f :
           /\ Fielded(n, h, i, x, f) /\ c = Instant(n, h, i, x, f)
           /\ n \in Int /\ h \in Int /\ i \in Int /\ x \in Int /\ f \in 0 .. Nanos - 1
           /\ SecondOf(n, h, i, x) \in Nat /\ c = SecondOf(n, h, i, x) * Nanos + f
           /\ ToTimeT(c) = SecondOf(n, h, i, x) /\ Nanosec(c) = f
           /\ DateOf(c) = [civil |-> CivilDate(n), day_of_week |-> Weekday(n)]
           /\ TimeOf(c) = [clock |-> [hour |-> h, min |-> i, sec |-> x], nano |-> f]
           /\ Tm(c) = TmOf(n, h, i, x)
           /\ DayOfWeek(c) = Weekday(n)
<1>1. PICK n, h, i, x, f : Fielded(n, h, i, x, f) /\ c = Instant(n, h, i, x, f)
                           /\ SecondOf(n, h, i, x) >= 0
  BY EachFielded
<1>2. n \in Int /\ h \in Int /\ i \in Int /\ x \in Int /\ f \in 0 .. Nanos - 1
  BY <1>1, Ranges DEF Fielded
<1>3. SecondOf(n, h, i, x) \in Nat /\ c = SecondOf(n, h, i, x) * Nanos + f
  BY <1>1, <1>2, SecondIsInt DEF Instant
<1>4. /\ ToTimeT(c) = SecondOf(n, h, i, x) /\ Nanosec(c) = f
      /\ DateOf(c) = [civil |-> CivilDate(n), day_of_week |-> Weekday(n)]
      /\ TimeOf(c) = [clock |-> [hour |-> h, min |-> i, sec |-> x], nano |-> f]
      /\ Tm(c) = TmOf(n, h, i, x)
      /\ DayOfWeek(c) = Weekday(n)
  BY <1>1, FieldsOf
<1> QED
  BY <1>1, <1>2, <1>3, <1>4

\* A second is a of a smaller unit, which is b of the smallest.
Divides(a, b) == a \in Nat \ {0} /\ b \in Nat \ {0} /\ Nanos = a * b

\* The smaller units of an instant.
LEMMA SmallerUnits ==
  ASSUME NEW t \in Nat, NEW f \in 0 .. Nanos - 1, NEW a, NEW b, Divides(a, b), NEW c, c = t * Nanos + f
  PROVE  Cast(c, b) - t * a = f \div b
<1> USE DEF Divides
<1>1. f \in Int /\ f >= 0
  BY Units
<1>2. PICK q \in Int, r \in 0 .. b - 1 : f = b * q + r
  BY <1>1, Quotient
<1>3. c \in Int /\ c >= 0
  BY <1>1, Units
<1>4. t * a + q \in Int /\ c = b * (t * a + q) + r
  BY <1>2
<1>5. f \div b = q
  BY <1>1, <1>2, DivUnique
<1> DEFINE p == t * a + q
<1> HIDE DEF p
<1>6. p \in Int /\ c = b * p + r
  BY <1>4 DEF p
<1>7. c \div b = p
  BY <1>3, <1>6, DivUnique
<1>8. Cast(c, b) = p
  BY <1>3, <1>7 DEF Cast
<1>9. p - t * a = q
  BY <1>2 DEF p
<1> QED
  BY <1>5, <1>8, <1>9

\* The fractions of an instant are those of its time(), and it is what its timespec and timeval say.
LEMMA FractionsAgree ==
  ASSUME NEW c \in Nat
  PROVE  /\ Millisec(TimeOf(c)) = MillisecOf(c) /\ Microsec(TimeOf(c)) = MicrosecOf(c)
         /\ FromTimeSpec(TimeSpec(c)) = c
         /\ FromTimeVal(TimeVal(c)) = WithMicro(c, MicrosecOf(c))
         /\ SameTime(TimeNow(c, 0), TimeOf(c))
<1>1. PICK n, h, i, x, f :
           /\ Fielded(n, h, i, x, f)
           /\ n \in Int /\ h \in Int /\ i \in Int /\ x \in Int /\ f \in 0 .. Nanos - 1
           /\ SecondOf(n, h, i, x) \in Nat /\ c = SecondOf(n, h, i, x) * Nanos + f
           /\ ToTimeT(c) = SecondOf(n, h, i, x) /\ Nanosec(c) = f
           /\ TimeOf(c) = [clock |-> [hour |-> h, min |-> i, sec |-> x], nano |-> f]
  BY PartsOf
<1> DEFINE t == SecondOf(n, h, i, x)
<1>2. t \in Nat /\ c = t * Nanos + f /\ ToTimeT(c) = t /\ f \in 0 .. Nanos - 1 /\ TimeOf(c).nano = f
  BY <1>1
<1> HIDE DEF t
<1>3. Divides(Millis, NanosPerMilli) /\ Divides(Micros, NanosPerMicro)
  BY SmallUnits DEF Divides
<1>4. Millisec(TimeOf(c)) = MillisecOf(c)
  <2>1. Cast(c, NanosPerMilli) - t * Millis = f \div NanosPerMilli
    BY <1>2, <1>3, SmallerUnits
  <2> QED
    BY <1>2, <2>1 DEF Millisec, MillisecOf
<1>5. Microsec(TimeOf(c)) = MicrosecOf(c)
  <2>1. Cast(c, NanosPerMicro) - t * Micros = f \div NanosPerMicro
    BY <1>2, <1>3, SmallerUnits
  <2> QED
    BY <1>2, <2>1 DEF Microsec, MicrosecOf
<1>6. FromTimeSpec(TimeSpec(c)) = c
  BY <1>2, Units DEF FromTimeSpec, TimeSpec, Nanosec
<1>7. FromTimeVal(TimeVal(c)) = WithMicro(c, MicrosecOf(c))
  BY DEF FromTimeVal, TimeVal, WithMicro
<1>8. TimeNow(c, 0) = TimeOf(c)
  <2>1. ToTimeT(c) + 0 = ToTimeT(c)
    BY <1>2
  <2>2. c - (ToTimeT(c) + 0) * Nanos = Nanosec(c)
    BY <2>1 DEF Nanosec
  <2> QED
    BY <2>1, <2>2, Zenon DEF TimeNow, TimeOf, Tm
<1> QED
  BY <1>4, <1>5, <1>6, <1>7, <1>8 DEF SameTime

\* The fields of an instant are those of its date() and its time().
LEMMA FieldsAgree ==
  ASSUME NEW c \in Nat
  PROVE  /\ DateOf(c).day_of_week = DayOfWeek(c)
         /\ \A f \in ClockFields : FieldOf(c, f) = TimeOf(c).clock[f]
         /\ \A f \in DateFields : FieldOf(c, f) = DateOf(c).civil[f]
<1>1. PICK n, h, i, x, f :
           /\ n \in Int
           /\ DateOf(c) = [civil |-> CivilDate(n), day_of_week |-> Weekday(n)]
           /\ TimeOf(c) = [clock |-> [hour |-> h, min |-> i, sec |-> x], nano |-> f]
           /\ Tm(c) = TmOf(n, h, i, x)
           /\ DayOfWeek(c) = Weekday(n)
  BY PartsOf
<1>2. \A g \in ClockFields : FieldOf(c, g) = TimeOf(c).clock[g]
  BY <1>1 DEF ClockFields, FieldOf, TmOf, TmWith
<1>3. \A g \in DateFields : FieldOf(c, g) = DateOf(c).civil[g]
  BY <1>1 DEF DateFields, FieldOf, TmOf, TmWith
<1> QED
  BY <1>1, <1>2, <1>3

\* The last day of a month, and that no day of a wrong table is before the epoch.
LEMMA LastDayIs ==
  ASSUME NEW n \in Int, NEW h \in 0 .. Hours - 1, NEW i \in 0 .. Mins - 1, NEW x \in 0 .. Secs - 1,
         NEW f \in 0 .. Nanos - 1, SecondOf(n, h, i, x) >= 0
  PROVE  LET y == CivilDate(n).year
             m == CivilDate(n).month
             d == CivilDate(n).day
             c == Instant(n, h, i, x, f)
             last == Ytab(y - 1900, m)
         IN /\ last \in Int
            /\ LastDay(c) = Instant(n + (last - d), h, i, x, f)
            /\ SecondOf(n + (last - d), h, i, x) >= 0
            /\ ~LeapMismatch(c) => last = DaysIn(y, m)
<1> DEFINE y == CivilDate(n).year
           m == CivilDate(n).month
           d == CivilDate(n).day
           c == Instant(n, h, i, x, f)
           last == Ytab(y - 1900, m)
           s == SecondOf(n, h, i, x)
<1>1. /\ y \in Int /\ m \in 1..12 /\ d \in 1 .. DaysIn(y, m) /\ d \in Int
      /\ DayNumber(y, m, d) = n
  BY CivilFields
<1>2. Fielded(n, h, i, x, f)
  BY DEF Fielded
<1>3. Tm(c) = TmWith(y, m, d, h, i, x) /\ ToTimeT(c) = s /\ Nanosec(c) = f
  BY <1>2, FieldsOf DEF TmOf
<1>4. s \in Int /\ s >= 0
  BY SecondIsInt, Ranges
<1> HIDE DEF y, m, d, c
<1>5. last \in Int /\ last \in 28..31
  BY <1>1 DEF Ytab, MonthDays
<1>6. SecondOf(n + (last - d), h, i, x) = s + (last - d) * SecsPerDay
  BY <1>1, <1>5, Ranges, Units DEF SecondOf
<1>7. LastDay(c) = Instant(n + (last - d), h, i, x, f)
  BY <1>3, <1>6 DEF LastDay, Instant, TmWith
<1>8. ~LeapMismatch(c) => last = DaysIn(y, m)
  BY <1>1, <1>3 DEF LeapMismatch, TmWith, Ytab, DaysIn, IsLeap
<1>9. SecondOf(n + (last - d), h, i, x) >= 0
  <2>1. CASE d <= last
    <3>1. (last - d) * SecsPerDay >= 0
      BY <1>1, <1>5, <2>1, Units
    <3> QED
      BY <1>1, <1>4, <1>5, <1>6, <3>1, Units
  <2>2. CASE last < d
    <3>1. m = 2 /\ IsLeap(y) /\ ~IsLeap(y - 1900) /\ last = 28 /\ d = 29
      BY <1>1, <2>2 DEF last, Ytab, DaysIn, MonthDays, IsLeap
    <3>2. n = FirstOfYear(y) + 59
      <4>1. n = FirstOfYear(y) + FirstOfMonth(y, m) + d - 1
        BY <1>1, DayNumberIs
      <4>2. FirstOfMonth(y, m) = 31 /\ FirstOfYear(y) \in Int
        BY <1>1, <3>1, YearLength DEF FirstOfMonth, DaysBefore
      <4> QED
        BY <3>1, <4>1, <4>2
    <3> DEFINE r == (h * Mins + i) * Secs + x
    <3>3. r \in 0 .. SecsPerDay - 1
      BY DayRest
    <3> HIDE DEF r
    <3>4. r \in Int /\ 0 <= r /\ r <= SecsPerDay - 1
          /\ UtcOffset >= -(SecsPerDay - 1) /\ UtcOffset <= SecsPerDay - 1
      BY <3>3, Units, OffsetAssumption
    <3>5. s = SecsPerDay * n + r - UtcOffset
      BY Ranges, Units DEF SecondOf, r
    <3> HIDE DEF s
    <3>6. n >= -1
      <4>1. ASSUME n <= -2 PROVE FALSE
        <5>1. SecsPerDay * n <= SecsPerDay * (-2)
          BY <4>1, Units, MulMonotone
        <5>2. SecsPerDay * (-2) = -(2 * SecsPerDay) /\ SecsPerDay * n \in Int
          BY Units
        <5> QED
          BY <1>4, <3>4, <3>5, <5>1, <5>2, Units
      <4> QED
        BY <4>1
    <3>7. n >= 2
      BY <3>1, <3>2, <3>6, <1>1 DEF FirstOfYear, IsLeap
    <3>8. SecsPerDay * 2 <= SecsPerDay * n
      BY <3>7, Units, MulMonotone
    <3>9. last - d = -1 /\ (last - d) * SecsPerDay = -SecsPerDay
      BY <3>1, Units
    <3>10. s + (last - d) * SecsPerDay >= 0
      BY <1>4, <3>4, <3>5, <3>8, <3>9, Units
    <3> QED
      BY <1>6, <3>10 DEF s
  <2> QED
    BY <1>1, <1>5, <2>1, <2>2
<1> QED
  BY <1>5, <1>7, <1>8, <1>9 DEF y, m, d, c

\* The first and the last day of a month, of a date and of an instant.
LEMMA MonthEndsAgree ==
  ASSUME NEW c \in Nat
  PROVE  LET date == DateOf(c)
         IN /\ SameDate(LastDayOfMonth(date), DateOf(LastDay(c)))
            /\ FirstDay(c) >= 0 => SameDate(FirstDayOfMonth(date), DateOf(FirstDay(c)))
<1>1. PICK n, h, i, x, f :
           /\ Fielded(n, h, i, x, f) /\ c = Instant(n, h, i, x, f)
           /\ n \in Int
           /\ SecondOf(n, h, i, x) \in Nat
           /\ DateOf(c) = [civil |-> CivilDate(n), day_of_week |-> Weekday(n)]
  BY PartsOf
<1> DEFINE y == CivilDate(n).year
           m == CivilDate(n).month
           d == CivilDate(n).day
           date == DateOf(c)
           last == Ytab(y - 1900, m)
<1>2. y \in Int /\ m \in Int /\ d \in Int /\ DayNumber(y, m, d) = n
  BY <1>1, CivilFields
<1>3. date.civil.year = y /\ date.civil.month = m
  BY <1>1
<1>4. /\ last \in Int /\ LastDay(c) = Instant(n + (last - d), h, i, x, f)
      /\ SecondOf(n + (last - d), h, i, x) >= 0
  BY <1>1, LastDayIs DEF Fielded
<1> HIDE DEF y, m, d, date, last
<1>5. SameDate(LastDayOfMonth(date), DateOf(LastDay(c)))
  <2> DEFINE e == n + (last - d)
  <2>1. e \in Int
    BY <1>1, <1>2, <1>4
  <2>2. Fielded(e, h, i, x, f)
    BY <1>1, <1>4, <2>1 DEF Fielded
  <2>3. DayNumber(y, m, d + (last - d)) = e /\ d + (last - d) = last
    BY <1>2, <1>4, DayNumberIs
  <2>4. LastDay(c) = Instant(e, h, i, x, f)
    BY <1>4
  <2> HIDE DEF e
  <2>5. DateOf(LastDay(c)).civil = CivilDate(e)
    BY <2>2, <2>4, FieldsOf
  <2>6. LastDayOfMonth(date).civil = CivilDate(DayNumber(y, m, last))
    BY <1>3 DEF LastDayOfMonth, SetDate, last
  <2> QED
    BY <2>3, <2>5, <2>6 DEF SameDate
<1>6. ASSUME FirstDay(c) >= 0 PROVE SameDate(FirstDayOfMonth(date), DateOf(FirstDay(c)))
  <2> DEFINE e == DayNumber(y, m, 1)
  <2>1. e \in Int
    BY <1>2, DayNumberIs
  <2>2. FirstDay(c) = Instant(e, h, i, x, f)
    BY <1>1, FieldedLocated, SettersOf DEF FirstDay, y, m
  <2>3. FirstDayOfMonth(date).civil = CivilDate(e)
    BY <1>3 DEF FirstDayOfMonth, SetDate
  <2> HIDE DEF e
  <2>4. InRange(e, h, i, x, f)
    BY <1>1, <2>1 DEF Fielded, InRange
  <2>5. DateOf(FirstDay(c)).civil = CivilDate(e)
    BY <1>6, <2>2, <2>4, DateOfNonNegative
  <2> QED
    BY <2>3, <2>5 DEF SameDate
<1> QED
  BY <1>5, <1>6 DEF date

\* The UTC date and time of day, and the time of day of a time_t.
LEMMA UtcAgrees ==
  ASSUME NEW c \in Nat
  PROVE  /\ TimeOfTimeT(ToTimeT(c)) = TimeOf(WithNano(c, 0))
         /\ ToUtc(c) >= 0 => /\ SameDate(UtcDate(c), DateOf(ToUtc(c)))
                             /\ SameTime(UtcTime(TimeOf(c)), TimeOf(ToUtc(c)))
<1>1. PICK n, h, i, x, f :
           /\ Fielded(n, h, i, x, f) /\ SecondOf(n, h, i, x) \in Nat
           /\ ToTimeT(c) = SecondOf(n, h, i, x)
  BY PartsOf
<1>2. TimeOfTimeT(ToTimeT(c)) = TimeOf(WithNano(c, 0))
  <2>1. Fielded(n, h, i, x, 0)
    BY <1>1, Units DEF Fielded
  <2>2. WithNano(c, 0) = Instant(n, h, i, x, 0)
    BY <1>1 DEF WithNano, Instant
  <2>3. TimeOf(WithNano(c, 0)) = [clock |-> [hour |-> h, min |-> i, sec |-> x], nano |-> 0]
    BY <2>1, <2>2, FieldsOf
  <2>4. Clock(SecondOf(n, h, i, x) + UtcOffset) = [hour |-> h, min |-> i, sec |-> x]
    BY <1>1, LocalTimeIs DEF Fielded
  <2> QED
    BY <1>1, <2>3, <2>4 DEF TimeOfTimeT
<1>3. -UtcOffset \in Int
  BY Units
<1>4. Plus(c, "sec", -UtcOffset) >= 0 =>
         /\ AddSec(TimeOf(c), -UtcOffset) = TimeOf(Plus(c, "sec", -UtcOffset))
         /\ DateNow(c, -UtcOffset) = DateOf(Current(c, -UtcOffset))
  BY <1>3, MovesAgree
<1> QED
  BY <1>2, <1>4, Zenon DEF ToUtc, UtcDate, UtcTime, SameDate, SameTime, Current

\* So the arithmetic of the classes agrees.
LEMMA ArithmeticHolds ==
  ASSUME clock \in Int PROVE ArithmeticAgrees
<1> SUFFICES ASSUME clock >= 0 PROVE ArithmeticAgrees
  BY DEF ArithmeticAgrees
<1>1. clock \in Nat
  OBVIOUS
<1>2. \A k \in Steps : k \in Int
  BY BoundsAssumption
<1>3. \A k \in Steps :
         LET Moves(unit) == Plus(clock, unit, k) >= 0 IN
         /\ Moves("year")  => AddYear(DateOf(clock), k)  = DateOf(Plus(clock, "year", k))
         /\ Moves("month") => AddMonth(DateOf(clock), k) = DateOf(Plus(clock, "month", k))
         /\ Moves("day")   => AddDay(DateOf(clock), k)   = DateOf(Plus(clock, "day", k))
         /\ Moves("hour")  => AddHour(TimeOf(clock), k)  = TimeOf(Plus(clock, "hour", k))
         /\ Moves("min")   => AddMin(TimeOf(clock), k)   = TimeOf(Plus(clock, "min", k))
         /\ Moves("sec")   => /\ AddSec(TimeOf(clock), k) = TimeOf(Plus(clock, "sec", k))
                              /\ DateNow(clock, k) = DateOf(Current(clock, k))
         /\ Moves("milli") => AddMilli(TimeOf(clock), k) = TimeOf(Plus(clock, "milli", k))
         /\ Moves("micro") => AddMicro(TimeOf(clock), k) = TimeOf(Plus(clock, "micro", k))
         /\ Moves("nano")  => AddNano(TimeOf(clock), k)  = TimeOf(Plus(clock, "nano", k))
  BY <1>1, <1>2, MovesAgree
<1> QED
  BY <1>1, <1>3, FieldsAgree, FractionsAgree, MonthEndsAgree, UtcAgrees DEF ArithmeticAgrees

-----------------------------------------------------------------------------
(***************************************************************************)
(* Orders.                                                                 *)
(***************************************************************************)
\* The order of two numbers in the order of their digits.
LEMMA ByDigits ==
  ASSUME NEW b \in Nat, NEW p \in Int, NEW q \in Int, NEW r \in 0 .. b - 1, NEW s \in 0 .. b - 1
  PROVE  /\ b * p + r < b * q + s <=> p < q \/ (p = q /\ r < s)
         /\ b * p + r <= b * q + s <=> p < q \/ (p = q /\ r <= s)
<1>1. p < q => b * (p + 1) <= b * q
  BY MulMonotone
<1>2. q < p => b * (q + 1) <= b * p
  BY MulMonotone
<1>3. b * (p + 1) = b * p + b /\ b * (q + 1) = b * q + b
  OBVIOUS
<1>4. b * p \in Int /\ b * q \in Int
  OBVIOUS
<1> QED
  BY <1>1, <1>2, <1>3, <1>4

\* Days in the order of their dates.
LEMMA EarlierDate ==
  ASSUME NEW n \in Int, NEW k \in Int,
         \/ CivilDate(n).year < CivilDate(k).year
         \/ CivilDate(n).year = CivilDate(k).year /\ CivilDate(n).month < CivilDate(k).month
         \/ /\ CivilDate(n).year = CivilDate(k).year /\ CivilDate(n).month = CivilDate(k).month
            /\ CivilDate(n).day < CivilDate(k).day
  PROVE  n < k
<1> DEFINE y == CivilDate(n).year
           m == CivilDate(n).month
           d == CivilDate(n).day
           y2 == CivilDate(k).year
           m2 == CivilDate(k).month
           d2 == CivilDate(k).day
<1>1. /\ y \in Int /\ m \in 1..12 /\ d \in 1 .. DaysIn(y, m) /\ d \in Int /\ DayNumber(y, m, d) = n
      /\ y2 \in Int /\ m2 \in 1..12 /\ d2 \in 1 .. DaysIn(y2, m2) /\ d2 \in Int /\ DayNumber(y2, m2, d2) = k
  BY CivilFields
<1>2. n = FirstOfYear(y) + FirstOfMonth(y, m) + d - 1 /\ k = FirstOfYear(y2) + FirstOfMonth(y2, m2) + d2 - 1
  <2>1. m \in Int /\ m2 \in Int
    BY <1>1
  <2> HIDE DEF y, m, d, y2, m2, d2
  <2>2. n = FirstOfYear(y) + FirstOfMonth(y, m) + d - 1
    BY <1>1, <2>1, DayNumberIs
  <2>3. k = FirstOfYear(y2) + FirstOfMonth(y2, m2) + d2 - 1
    BY <1>1, <2>1, DayNumberIs
  <2> QED
    BY <2>2, <2>3
<1>3. \/ y < y2 \/ (y = y2 /\ m < m2) \/ (y = y2 /\ m = m2 /\ d < d2)
  OBVIOUS
<1> HIDE DEF y, m, d, y2, m2, d2
<1>4. /\ DaysIn(y, m) \in Nat /\ FirstOfMonth(y, m) \in Nat /\ FirstOfMonth(y2, m2) \in Nat
      /\ FirstOfMonth(y, m) + DaysIn(y, m) <= (IF IsLeap(y) THEN 366 ELSE 365)
      /\ (y = y2 /\ m < m2) => FirstOfMonth(y, m) + DaysIn(y, m) <= FirstOfMonth(y2, m2)
  BY <1>1 DEF FirstOfMonth, DaysIn, DaysBefore, MonthDays
<1>5. /\ FirstOfYear(y) \in Int /\ FirstOfYear(y2) \in Int
      /\ FirstOfYear(y + 1) = FirstOfYear(y) + (IF IsLeap(y) THEN 366 ELSE 365)
  BY <1>1, YearLength
<1>6. CASE y < y2
  BY <1>1, <1>2, <1>4, <1>5, <1>6, YearsInOrder
<1>7. CASE y = y2 /\ m < m2
  BY <1>1, <1>2, <1>4, <1>5, <1>7
<1>8. CASE y = y2 /\ m = m2 /\ d < d2
  BY <1>1, <1>2, <1>4, <1>5, <1>8
<1> QED
  BY <1>3, <1>6, <1>7, <1>8

\* Dates are ordered as their days, ...
LEMMA DatesInOrder ==
  ASSUME NEW n \in Int, NEW k \in Int, NEW a, NEW b, a.civil = CivilDate(n), b.civil = CivilDate(k)
  PROVE  (DateBefore(a, b) <=> n < k) /\ (DateNotAfter(a, b) <=> n <= k)
<1>1. /\ CivilDate(n).year \in Int /\ CivilDate(n).month \in Int /\ CivilDate(n).day \in Int
      /\ CivilDate(k).year \in Int /\ CivilDate(k).month \in Int /\ CivilDate(k).day \in Int
      /\ DayNumber(CivilDate(n).year, CivilDate(n).month, CivilDate(n).day) = n
      /\ DayNumber(CivilDate(k).year, CivilDate(k).month, CivilDate(k).day) = k
  BY CivilFields
<1> DEFINE Earlier(p, q) == \/ p.year < q.year
                            \/ p.year = q.year /\ p.month < q.month
                            \/ p.year = q.year /\ p.month = q.month /\ p.day < q.day
<1>2. Earlier(CivilDate(n), CivilDate(k)) => n < k
  BY EarlierDate
<1>3. Earlier(CivilDate(k), CivilDate(n)) => k < n
  BY EarlierDate
<1>4. \/ Earlier(CivilDate(n), CivilDate(k)) \/ Earlier(CivilDate(k), CivilDate(n))
      \/ /\ CivilDate(n).year = CivilDate(k).year /\ CivilDate(n).month = CivilDate(k).month
         /\ CivilDate(n).day = CivilDate(k).day
  BY <1>1
<1>5. DateBefore(a, b) <=> Earlier(CivilDate(n), CivilDate(k))
  BY <1>1 DEF DateBefore
<1>6. DateNotAfter(a, b) <=>
        \/ Earlier(CivilDate(n), CivilDate(k))
        \/ /\ CivilDate(n).year = CivilDate(k).year /\ CivilDate(n).month = CivilDate(k).month
           /\ CivilDate(n).day = CivilDate(k).day
  BY <1>1 DEF DateNotAfter
<1> HIDE DEF Earlier
<1> QED
  BY <1>1, <1>2, <1>3, <1>4, <1>5, <1>6

-----------------------------------------------------------------------------
(* Their orders *)

\* A time of day and how long it is after midnight.
TimeIs(t, h, i, x, f) == t = [clock |-> [hour |-> h, min |-> i, sec |-> x], nano |-> f]
AfterMidnight(h, i, x, f) == Nanos * (Secs * (Mins * h + i) + x) + f
OfDay(h, i, x, f) == /\ h \in 0 .. Hours - 1 /\ i \in 0 .. Mins - 1 /\ x \in 0 .. Secs - 1
                     /\ f \in 0 .. Nanos - 1

\* ... times of day as how long they are after midnight, ...
LEMMA TimesInOrder ==
  ASSUME NEW a, NEW b, NEW h, NEW i, NEW x, NEW f, NEW h2, NEW i2, NEW x2, NEW f2,
         OfDay(h, i, x, f), OfDay(h2, i2, x2, f2), TimeIs(a, h, i, x, f), TimeIs(b, h2, i2, x2, f2)
  PROVE  /\ TimeBefore(a, b) <=> AfterMidnight(h, i, x, f) < AfterMidnight(h2, i2, x2, f2)
         /\ TimeNotAfter(a, b) <=> AfterMidnight(h, i, x, f) <= AfterMidnight(h2, i2, x2, f2)
<1> DEFINE g == Mins * h + i
           g2 == Mins * h2 + i2
           s == Secs * g + x
           s2 == Secs * g2 + x2
<1>1. /\ h \in Int /\ i \in Int /\ x \in Int /\ f \in Int
      /\ h2 \in Int /\ i2 \in Int /\ x2 \in Int /\ f2 \in Int
      /\ i \in 0 .. Mins - 1 /\ x \in 0 .. Secs - 1 /\ f \in 0 .. Nanos - 1
      /\ i2 \in 0 .. Mins - 1 /\ x2 \in 0 .. Secs - 1 /\ f2 \in 0 .. Nanos - 1
  BY Ranges DEF OfDay
<1>2. Mins \in Nat /\ Secs \in Nat /\ Nanos \in Nat
  BY Units
<1>3. (g < g2 <=> h < h2 \/ (h = h2 /\ i < i2)) /\ g \in Int /\ g2 \in Int
  BY <1>1, <1>2, ByDigits
<1>4. g = g2 <=> h = h2 /\ i = i2
  <2>1. g <= g2 <=> h < h2 \/ (h = h2 /\ i <= i2)
    BY <1>1, <1>2, ByDigits
  <2> QED
    BY <1>1, <1>3, <2>1
<1> HIDE DEF g, g2
<1>5. (s < s2 <=> g < g2 \/ (g = g2 /\ x < x2)) /\ s \in Int /\ s2 \in Int
  BY <1>1, <1>2, <1>3, ByDigits
<1>6. s = s2 <=> g = g2 /\ x = x2
  <2>1. s <= s2 <=> g < g2 \/ (g = g2 /\ x <= x2)
    BY <1>1, <1>2, <1>3, ByDigits
  <2> QED
    BY <1>1, <1>3, <1>5, <2>1
<1> HIDE DEF s, s2
<1>7. /\ Nanos * s + f < Nanos * s2 + f2 <=> s < s2 \/ (s = s2 /\ f < f2)
      /\ Nanos * s + f <= Nanos * s2 + f2 <=> s < s2 \/ (s = s2 /\ f <= f2)
  BY <1>1, <1>2, <1>5, ByDigits
<1>8. AfterMidnight(h, i, x, f) = Nanos * s + f /\ AfterMidnight(h2, i2, x2, f2) = Nanos * s2 + f2
  BY DEF AfterMidnight, s, s2, g, g2
<1>9. a.clock = b.clock <=> h = h2 /\ i = i2 /\ x = x2
  BY DEF TimeIs
<1>10. /\ a.clock.hour = h /\ a.clock.min = i /\ a.clock.sec = x /\ a.nano = f
       /\ b.clock.hour = h2 /\ b.clock.min = i2 /\ b.clock.sec = x2 /\ b.nano = f2
  BY DEF TimeIs
<1>11. TimeBefore(a, b) <=> s < s2 \/ (s = s2 /\ f < f2)
  BY <1>1, <1>3, <1>4, <1>5, <1>6, <1>9, <1>10 DEF TimeBefore
<1>12. TimeNotAfter(a, b) <=> s < s2 \/ (s = s2 /\ f <= f2)
  BY <1>1, <1>3, <1>4, <1>5, <1>6, <1>9, <1>10 DEF TimeNotAfter
<1> QED
  BY <1>7, <1>8, <1>11, <1>12

\* The midnight before an instant, and how far it is.
LEMMA MidnightOf ==
  ASSUME NEW c, NEW n, NEW h, NEW i, NEW x, NEW f, Fielded(n, h, i, x, f), c = Instant(n, h, i, x, f)
  PROVE  /\ FirstTimeOfDay(c) = Nanos * (SecsPerDay * n - UtcOffset)
         /\ c - FirstTimeOfDay(c) = AfterMidnight(h, i, x, f)
         /\ AfterMidnight(h, i, x, f) \in Nat
<1>1. n \in Int /\ h \in Nat /\ i \in Nat /\ x \in Nat /\ f \in Nat
  BY Units DEF Fielded
<1>2. FirstTimeOfDay(c) = Instant(n, 0, 0, 0, 0)
  BY FieldedLocated, SettersOf DEF FirstTimeOfDay
<1>3. SecondOf(n, 0, 0, 0) = SecsPerDay * n - UtcOffset
  BY <1>1, Units DEF SecondOf
<1>4. FirstTimeOfDay(c) = Nanos * (SecsPerDay * n - UtcOffset)
  BY <1>1, <1>2, <1>3, Units DEF Instant
<1> DEFINE p == SecsPerDay * n - UtcOffset
           s == Secs * (Mins * h + i) + x
<1>5. p \in Int /\ s \in Nat
  BY <1>1, Units
<1>6. SecondOf(n, h, i, x) = p + s
  BY <1>1, Units DEF SecondOf
<1> HIDE DEF p, s
<1>7. c = (p + s) * Nanos + f
  BY <1>6 DEF Instant
<1>8. c - Nanos * p = Nanos * s + f /\ Nanos * s + f \in Nat
  BY <1>1, <1>5, <1>7, Units
<1> QED
  BY <1>4, <1>8 DEF AfterMidnight, p, s

\* ... and both as their instants.
LEMMA OrdersHold ==
  ASSUME NEW c \in Nat, NEW other \in Nat
  PROVE  LET midnight == FirstTimeOfDay(c)
             midnight2 == FirstTimeOfDay(other)
         IN /\ DateBefore(DateOf(c), DateOf(other)) <=> midnight < midnight2
            /\ DateNotAfter(DateOf(c), DateOf(other)) <=> midnight <= midnight2
            /\ TimeBefore(TimeOf(c), TimeOf(other)) <=> c - midnight < other - midnight2
            /\ TimeNotAfter(TimeOf(c), TimeOf(other)) <=> c - midnight <= other - midnight2
<1>1. PICK n, h, i, x, f :
           /\ Fielded(n, h, i, x, f) /\ c = Instant(n, h, i, x, f)
           /\ n \in Int /\ h \in Int /\ i \in Int /\ x \in Int /\ f \in 0 .. Nanos - 1
           /\ SecondOf(n, h, i, x) \in Nat /\ c = SecondOf(n, h, i, x) * Nanos + f
           /\ ToTimeT(c) = SecondOf(n, h, i, x) /\ Nanosec(c) = f
           /\ DateOf(c) = [civil |-> CivilDate(n), day_of_week |-> Weekday(n)]
           /\ TimeOf(c) = [clock |-> [hour |-> h, min |-> i, sec |-> x], nano |-> f]
  BY PartsOf
<1>2. PICK n2, h2, i2, x2, f2 :
           /\ Fielded(n2, h2, i2, x2, f2) /\ other = Instant(n2, h2, i2, x2, f2)
           /\ n2 \in Int /\ h2 \in Int /\ i2 \in Int /\ x2 \in Int /\ f2 \in 0 .. Nanos - 1
           /\ SecondOf(n2, h2, i2, x2) \in Nat /\ other = SecondOf(n2, h2, i2, x2) * Nanos + f2
           /\ ToTimeT(other) = SecondOf(n2, h2, i2, x2) /\ Nanosec(other) = f2
           /\ DateOf(other) = [civil |-> CivilDate(n2), day_of_week |-> Weekday(n2)]
           /\ TimeOf(other) = [clock |-> [hour |-> h2, min |-> i2, sec |-> x2], nano |-> f2]
  BY PartsOf
<1>3. /\ FirstTimeOfDay(c) = Nanos * (SecsPerDay * n - UtcOffset)
      /\ c - FirstTimeOfDay(c) = AfterMidnight(h, i, x, f)
  <2>1. Fielded(n, h, i, x, f) /\ c = Instant(n, h, i, x, f)
    BY <1>1
  <2> QED
    BY <2>1, MidnightOf
<1>4. /\ FirstTimeOfDay(other) = Nanos * (SecsPerDay * n2 - UtcOffset)
      /\ other - FirstTimeOfDay(other) = AfterMidnight(h2, i2, x2, f2)
  <2>1. Fielded(n2, h2, i2, x2, f2) /\ other = Instant(n2, h2, i2, x2, f2)
    BY <1>2
  <2> QED
    BY <2>1, MidnightOf
<1>5. /\ TimeBefore(TimeOf(c), TimeOf(other)) <=> AfterMidnight(h, i, x, f) < AfterMidnight(h2, i2, x2, f2)
      /\ TimeNotAfter(TimeOf(c), TimeOf(other)) <=> AfterMidnight(h, i, x, f) <= AfterMidnight(h2, i2, x2, f2)
  <2>1. OfDay(h, i, x, f) /\ OfDay(h2, i2, x2, f2)
    BY <1>1, <1>2 DEF OfDay, Fielded
  <2>2. TimeIs(TimeOf(c), h, i, x, f) /\ TimeIs(TimeOf(other), h2, i2, x2, f2)
    BY <1>1, <1>2 DEF TimeIs
  <2> QED
    BY <2>1, <2>2, TimesInOrder
<1>6. /\ DateBefore(DateOf(c), DateOf(other)) <=> n < n2
      /\ DateNotAfter(DateOf(c), DateOf(other)) <=> n <= n2
  <2>1. DateOf(c).civil = CivilDate(n) /\ DateOf(other).civil = CivilDate(n2)
    BY <1>1, <1>2
  <2> QED
    BY <1>1, <1>2, <2>1, DatesInOrder
<1>7. /\ n < n2 <=> FirstTimeOfDay(c) < FirstTimeOfDay(other)
      /\ n <= n2 <=> FirstTimeOfDay(c) <= FirstTimeOfDay(other)
  <2> DEFINE p == SecsPerDay * n - UtcOffset
             q == SecsPerDay * n2 - UtcOffset
  <2>1. 0 \in 0 .. SecsPerDay - 1 /\ 0 \in 0 .. Nanos - 1 /\ Nanos \in Nat /\ SecsPerDay \in Nat
    BY Units
  <2>2. /\ SecsPerDay * n + 0 < SecsPerDay * n2 + 0 <=> n < n2
        /\ SecsPerDay * n + 0 <= SecsPerDay * n2 + 0 <=> n <= n2
    BY <1>1, <1>2, <2>1, ByDigits
  <2>3. p \in Int /\ q \in Int
    BY <1>1, <1>2, Units
  <2>4. (p < q <=> n < n2) /\ (p <= q <=> n <= n2)
    BY <1>1, <1>2, <2>2, Units
  <2> HIDE DEF p, q
  <2>5. /\ Nanos * p + 0 < Nanos * q + 0 <=> p < q
        /\ Nanos * p + 0 <= Nanos * q + 0 <=> p <= q
    BY <2>1, <2>3, ByDigits
  <2>6. FirstTimeOfDay(c) = Nanos * p /\ FirstTimeOfDay(other) = Nanos * q
    BY <1>3, <1>4 DEF p, q
  <2> QED
    BY <2>1, <2>3, <2>4, <2>5, <2>6
<1> QED
  BY <1>3, <1>4, <1>5, <1>6, <1>7

-----------------------------------------------------------------------------
(***************************************************************************)
(* Every stored instant is a number.                                       *)
(***************************************************************************)
LEMMA TmIs ==
  ASSUME NEW c \in Int
  PROVE  \E n \in Int, h \in 0 .. Hours - 1, i \in 0 .. Mins - 1, x \in 0 .. Secs - 1 :
            Tm(c) = TmOf(n, h, i, x) /\ ToTimeT(c) = SecondOf(n, h, i, x) /\ Nanosec(c) \in Int
<1>1. ToTimeT(c) \in Int
  <2>1. c \div Nanos \in Int /\ (-c) \div Nanos \in Int
    BY Units, DivMod
  <2> QED
    BY <2>1 DEF ToTimeT, Cast
<1>2. PICK n \in Int : \E h \in 0 .. Hours - 1 : \E i \in 0 .. Mins - 1 : \E x \in 0 .. Secs - 1 :
            ToTimeT(c) = SecondOf(n, h, i, x)
  BY <1>1, EachSecond
<1>3. PICK h \in 0 .. Hours - 1, i \in 0 .. Mins - 1, x \in 0 .. Secs - 1 : ToTimeT(c) = SecondOf(n, h, i, x)
  BY <1>2
<1>4. Tm(c) = TmOf(n, h, i, x)
  <2>1. LocalTime(SecondOf(n, h, i, x)) = TmOf(n, h, i, x)
    BY LocalTimeIs
  <2> QED
    BY <1>3, <2>1 DEF Tm
<1>5. Nanosec(c) \in Int
  BY <1>1, Units DEF Nanosec
<1> QED
  BY <1>3, <1>4, <1>5

-----------------------------------------------------------------------------
(* The type of the clock *)

\* A struct tm of numbers.
IntTm(tm) == /\ tm.year \in Int /\ tm.month \in Int /\ tm.day \in Int
             /\ tm.hour \in Int /\ tm.min \in Int /\ tm.sec \in Int

\* mktime() makes a number of numbers.
LEMMA MkTimeInt ==
  ASSUME NEW tm, IntTm(tm) PROVE MkTime(tm) \in Int
<1>1. DayNumber(tm.year, tm.month, tm.day) \in Int
  BY DayNumberIs DEF IntTm
<1> DEFINE n == DayNumber(tm.year, tm.month, tm.day)
<1> HIDE DEF n
<1>2. n \in Int
  BY <1>1 DEF n
<1>3. MkTime(tm) = n * SecsPerDay + (tm.hour * Mins + tm.min) * Secs + tm.sec - UtcOffset
  BY DEF MkTime, n
<1> QED
  BY <1>2, <1>3, Units DEF IntTm

\* What is found for any instant are numbers, whether it is before the epoch or not.
LEMMA PartsInt ==
  ASSUME NEW c \in Int
  PROVE  IntTm(Tm(c)) /\ ToTimeT(c) \in Int /\ Nanosec(c) \in Int
         /\ DOMAIN Tm(c) = {"year", "month", "day", "hour", "min", "sec"}
<1>1. PICK n \in Int, h \in 0 .. Hours - 1, i \in 0 .. Mins - 1, x \in 0 .. Secs - 1 :
         Tm(c) = TmOf(n, h, i, x) /\ ToTimeT(c) = SecondOf(n, h, i, x) /\ Nanosec(c) \in Int
  BY TmIs
<1>2. h \in Int /\ i \in Int /\ x \in Int
  BY Ranges
<1>3. CivilDate(n).year \in Int /\ CivilDate(n).month \in Int /\ CivilDate(n).day \in Int
  BY CivilFields
<1>4. IntTm(Tm(c))
  BY <1>1, <1>2, <1>3 DEF IntTm, TmOf, TmWith
<1>5. ToTimeT(c) \in Int
  BY <1>1, <1>2, SecondIsInt
<1>6. DOMAIN Tm(c) = {"year", "month", "day", "hour", "min", "sec"}
  BY <1>1 DEF TmOf, TmWith
<1> QED
  BY <1>1, <1>4, <1>5, <1>6

\* The setters and the sums make numbers.
LEMMA WithDateTimeInt ==
  ASSUME NEW c, NEW y \in Int, NEW m \in Int, NEW d \in Int,
         NEW h \in Int, NEW i \in Int, NEW x \in Int, NEW f \in Int
  PROVE  WithDateTime(c, y, m, d, h, i, x, f) \in Int
<1> DEFINE tm == [year |-> y, month |-> m, day |-> d, hour |-> h, min |-> i, sec |-> x]
<1>1. IntTm(tm)
  BY DEF IntTm
<1> HIDE DEF tm
<1>2. MkTime(tm) \in Int
  BY <1>1, MkTimeInt
<1>3. WithDateTime(c, y, m, d, h, i, x, f) = MkTime(tm) * Nanos + f
  BY DEF WithDateTime, tm
<1> QED
  BY <1>2, <1>3, Units

\* One field set.
LEMMA WithInt ==
  ASSUME NEW c \in Int, NEW field \in {"year", "month", "day", "hour", "min", "sec"}, NEW v \in Int
  PROVE  With(c, field, v) \in Int
<1> DEFINE tm == [Tm(c) EXCEPT ![field] = v]
<1>1. IntTm(tm)
  BY PartsInt DEF IntTm
<1> HIDE DEF tm
<1>2. MkTime(tm) \in Int
  BY <1>1, MkTimeInt
<1>3. With(c, field, v) = MkTime(tm) * Nanos + Nanosec(c)
  BY Zenon DEF With, tm
<1> QED
  BY <1>2, <1>3, Units, PartsInt

\* An amount added.
LEMMA PlusInt ==
  ASSUME NEW c \in Int, NEW k \in Int,
         NEW unit \in {"year", "month", "day", "hour", "min", "sec", "milli", "micro", "nano"}
  PROVE  Plus(c, unit, k) \in Int
<1>1. CASE unit = "year"
  <2>1. Tm(c).year + k \in Int
    BY PartsInt DEF IntTm
  <2>2. With(c, "year", Tm(c).year + k) \in Int
    BY <2>1, WithInt
  <2> QED
    BY <1>1, <2>2 DEF Plus
<1>2. CASE unit = "month"
  <2>1. Tm(c).month + k \in Int
    BY PartsInt DEF IntTm
  <2>2. With(c, "month", Tm(c).month + k) \in Int
    BY <2>1, WithInt
  <2> QED
    BY <1>2, <2>2 DEF Plus
<1>3. /\ c + k * SecsPerDay * Nanos \in Int /\ c + k * Mins * Secs * Nanos \in Int
      /\ c + k * Secs * Nanos \in Int /\ c + k * Nanos \in Int /\ c + k \in Int
      /\ c + k * NanosPerMilli \in Int /\ c + k * NanosPerMicro \in Int
  BY Units, SmallUnits
<1>4. CASE unit \in {"day", "hour", "min", "sec", "milli", "micro", "nano"}
  BY <1>3, <1>4 DEF Plus
<1> QED
  BY <1>1, <1>2, <1>4

\* A text read.
LEMMA ReadInt ==
  ASSUME NEW c \in Int, NEW fields \in SUBSET (DateFields \cup {"hour", "sec", "milli"}),
         Readable(Text(c, fields))
  PROVE  Read(c, Text(c, fields)) \in Int
<1> DEFINE text == Text(c, fields)
           tm == GetTime(text)
<1>1. DOMAIN BlankTm = {"year", "month", "day", "hour", "min", "sec"}
  BY DEF BlankTm
<1>2. DOMAIN text = fields
  BY DEF Text
<1>3. \A g \in fields \cap DOMAIN BlankTm : text[g] = Tm(c)[g]
  BY <1>1 DEF Text
<1> HIDE DEF text
<1>4. \A g \in DOMAIN BlankTm : tm[g] = IF g \in fields THEN Tm(c)[g] ELSE BlankTm[g]
  BY <1>2, <1>3 DEF GetTime
<1>5. IntTm(Tm(c)) /\ IntTm(BlankTm)
  BY PartsInt DEF IntTm, BlankTm
<1> HIDE DEF tm
<1>6. IntTm(tm)
  BY <1>1, <1>4, <1>5 DEF IntTm
<1>7. MkTime(tm) \in Int
  BY <1>6, MkTimeInt
<1>8. Read(c, text) = MkTime(tm) * Nanos
  BY DEF Read, tm, text
<1> QED
  BY <1>7, <1>8, Units DEF text

\* The clock starts as a number ...
LEMMA TypeInit == Init => TypeOK
BY DEF Init, TypeOK

\* ... and every step leaves it one.
LEMMA TypeNext == TypeOK /\ [Next]_vars => TypeOK'
<1> SUFFICES ASSUME TypeOK, [Next]_vars PROVE TypeOK'
  OBVIOUS
<1> USE DEF TypeOK
<1>1. /\ \A y \in Years : y \in Int
      /\ \A m \in Months : m \in Int
      /\ \A k \in Steps : k \in Int
  BY BoundsAssumption
<1>2. Nanosec(clock) \in Int /\ ToTimeT(clock) \in Int /\ IntTm(Tm(clock))
  BY PartsInt
<1>3. CASE SetDateOf
  <2>1. PICK y \in Years, m \in Months, d \in Steps : Store(WithDate(clock, y, m, d))
    BY <1>3 DEF SetDateOf
  <2>2. WithDate(clock, y, m, d) \in Int
    BY <1>1, <1>2, WithDateTimeInt DEF WithDate, IntTm
  <2> QED
    BY <2>1, <2>2 DEF Store
<1>4. CASE SetTimeOf
  <2>1. PICK h \in 0 .. Hours, s \in Steps, n \in 0 .. Nanos - 1 : Store(WithTime(clock, h, 0, s, n))
    BY <1>4 DEF SetTimeOf
  <2>2. h \in Int /\ n \in Int /\ 0 \in Int
    BY Units
  <2>3. WithTime(clock, h, 0, s, n) \in Int
    BY <1>1, <1>2, <2>2, WithDateTimeInt DEF WithTime, IntTm
  <2> QED
    BY <2>1, <2>3 DEF Store
<1>5. CASE SetAll
  <2>1. PICK y \in Years, m \in Months, n \in 0 .. Nanos - 1 :
           Store(WithDateTime(clock, y, m, 1, Hours - 1, Mins - 1, Secs - 1, n))
    BY <1>5 DEF SetAll
  <2>2. Hours - 1 \in Int /\ Mins - 1 \in Int /\ Secs - 1 \in Int /\ n \in Int /\ 1 \in Int
    BY Units
  <2>3. WithDateTime(clock, y, m, 1, Hours - 1, Mins - 1, Secs - 1, n) \in Int
    BY <1>1, <2>2, WithDateTimeInt
  <2> QED
    BY <2>1, <2>3 DEF Store
<1>6. CASE SetField \/ SetYear
  <2>1. PICK k \in Int, g \in {"year", "month", "day", "hour", "min", "sec"} : Store(With(clock, g, k))
    BY <1>1, <1>6 DEF SetField, SetYear
  <2> QED
    BY <2>1, WithInt DEF Store
<1>7. CASE SetNano \/ SetMilli \/ SetMicro
  <2>1. ASSUME NEW k \in Int
        PROVE  WithNano(clock, k) \in Int /\ WithMilli(clock, k) \in Int /\ WithMicro(clock, k) \in Int
    BY <1>2, Units, SmallUnits DEF WithNano, WithMilli, WithMicro
  <2> QED
    BY <1>1, <1>7, <2>1 DEF SetNano, SetMilli, SetMicro, Store
<1>8. CASE Move
  <2>1. PICK k \in Steps, u \in {"year", "month", "day", "hour", "min", "sec", "milli", "micro", "nano"} :
           Store(Plus(clock, u, k))
    BY <1>8 DEF Move
  <2> QED
    BY <1>1, <2>1, PlusInt DEF Store
<1>9. CASE ReadAgain
  <2>1. PICK fields \in SUBSET (DateFields \cup {"hour", "sec", "milli"}) :
           IF Readable(Text(clock, fields)) THEN Store(Read(clock, Text(clock, fields))) ELSE UNCHANGED vars
    BY <1>9 DEF ReadAgain
  <2> QED
    BY <2>1, ReadInt DEF Store, vars
<1>10. CASE Null
  BY <1>10 DEF Null
<1>11. CASE UNCHANGED vars
  BY <1>11 DEF vars
<1> QED
  BY <1>3, <1>4, <1>5, <1>6, <1>7, <1>8, <1>9, <1>10, <1>11 DEF Next

(***************************************************************************)
(* The clock is a number and null a flag, whatever is set, added or read.  *)
(***************************************************************************)
THEOREM TypeCorrect == SafeSpec => []TypeOK
BY TypeInit, TypeNext, PTL DEF SafeSpec

\* The orders, of the clock and of what a step may make of it.
LEMMA OrdersAgreeHold == ASSUME clock \in Int PROVE OrdersAgree
<1> SUFFICES ASSUME NEW k \in Steps, NEW unit \in {"year", "month", "day", "sec"},
                    clock >= 0, Plus(clock, unit, k) >= 0
             PROVE  LET other == Plus(clock, unit, k)
                        midnight == FirstTimeOfDay(clock)
                        midnight2 == FirstTimeOfDay(other)
                    IN /\ DateBefore(DateOf(clock), DateOf(other)) <=> midnight < midnight2
                       /\ DateNotAfter(DateOf(clock), DateOf(other)) <=> midnight <= midnight2
                       /\ TimeBefore(TimeOf(clock), TimeOf(other)) <=> clock - midnight < other - midnight2
                       /\ TimeNotAfter(TimeOf(clock), TimeOf(other)) <=> clock - midnight <= other - midnight2
  BY DEF OrdersAgree
<1>1. k \in Int
  BY BoundsAssumption
<1>2. Plus(clock, unit, k) \in Nat /\ clock \in Nat
  <2>1. unit \in {"year", "month", "day", "hour", "min", "sec", "milli", "micro", "nano"}
    OBVIOUS
  <2>2. Plus(clock, unit, k) \in Int
    BY <1>1, <2>1, PlusInt
  <2> QED
    BY <2>2
<1> QED
  BY <1>2, OrdersHold

-----------------------------------------------------------------------------
(* Differences *)

\* Division with a rest.
Divided(z, u, q, r) == u \in Nat \ {0} /\ q \in Nat /\ r \in 0 .. u - 1 /\ z = u * q + r

\* The cast of a number and of its negative.
LEMMA CastSigned ==
  ASSUME NEW z, NEW u, NEW q, NEW r, Divided(z, u, q, r)
  PROVE  Cast(z, u) = q /\ Cast(-z, u) = -q
<1> USE DEF Divided
<1>1. u * q \in Nat /\ z \in Nat
  OBVIOUS
<1>2. z \div u = q
  BY <1>1, DivUnique
<1>3. Cast(z, u) = q
  BY <1>1, <1>2 DEF Cast
<1>4. CASE z = 0
  <2>1. q = 0
    BY <1>1, <1>2, <1>4
  <2> QED
    BY <1>3, <1>4, <2>1
<1>5. CASE z > 0
  BY <1>1, <1>2, <1>5 DEF Cast
<1> QED
  BY <1>1, <1>3, <1>4, <1>5

\* The parts of a length of time.
Parts(d, h, m, s, v) == /\ d \in Nat /\ h \in 0 .. Hours - 1 /\ m \in 0 .. Mins - 1 /\ s \in 0 .. Secs - 1
                        /\ v \in 0 .. Nanos - 1
Record(d, h, m, s, v) == [days |-> d, hours |-> h, minutes |-> m, seconds |-> s, nanosecs |-> v]
PartsLength(d, h, m, s, v) == (((d * Hours + h) * Mins + m) * Secs + s) * Nanos + v

\* A length made of parts.
Made(z, d, h, m, s, v) == Parts(d, h, m, s, v) /\ z = PartsLength(d, h, m, s, v)

\* Every length of time has parts, ...
LEMMA EachLength ==
  ASSUME NEW z \in Int, z >= 0
  PROVE  \E d, h, m, s, v : Made(z, d, h, m, s, v)
<1>1. PICK a \in Int, v \in 0 .. Nanos - 1 : z = Nanos * a + v
  BY Units, Quotient
<1>2. PICK b \in Int, s \in 0 .. Secs - 1 : a = Secs * b + s
  BY Units, Quotient
<1>3. PICK c \in Int, m \in 0 .. Mins - 1 : b = Mins * c + m
  BY Units, Quotient
<1>4. PICK d \in Int, h \in 0 .. Hours - 1 : c = Hours * d + h
  BY Units, Quotient
<1>5. ASSUME NEW u \in Nat \ {0}, NEW q \in Int, NEW r \in 0 .. u - 1, u * q + r >= 0 PROVE q >= 0
  <2>1. ASSUME q <= -1 PROVE FALSE
    <3>1. u * q <= u * (-1)
      BY <1>5, <2>1, MulMonotone
    <3> QED
      BY <1>5, <3>1
  <2> QED
    BY <1>5, <2>1
<1>6. a >= 0
  BY <1>1, <1>5, Units
<1>7. b >= 0
  BY <1>2, <1>5, <1>6, Units
<1>8. c >= 0
  BY <1>3, <1>5, <1>7, Units
<1>9. d >= 0
  BY <1>4, <1>5, <1>8, Units
<1>10. z = PartsLength(d, h, m, s, v)
  BY <1>1, <1>2, <1>3, <1>4, Units DEF PartsLength
<1> QED
  BY <1>9, <1>10 DEF Parts, Made

\* ... which Components finds, for it and for its negative.
LEMMA ComponentsOf ==
  ASSUME NEW z, NEW d, NEW h, NEW m, NEW s, NEW v, Made(z, d, h, m, s, v)
  PROVE  /\ Components(z) = Record(d, h, m, s, v)
         /\ Components(-z) = Record(-d, -h, -m, -s, -v)
<1> USE DEF Made
<1> DEFINE hour == Mins * Secs * Nanos
           min == Secs * Nanos
           c == Hours * d + h
           b == Mins * c + m
           a == Secs * b + s
<1>1. d \in Nat /\ h \in Nat /\ m \in Nat /\ s \in Nat /\ v \in Nat
  BY Units DEF Parts
<1>2. hour \in Nat \ {0} /\ min \in Nat \ {0}
  BY Units
<1>3. c \in Nat /\ b \in Nat /\ a \in Nat
  BY <1>1, Units
<1>4. z \in Nat /\ z = Nanos * a + v
  BY <1>1, Units DEF PartsLength
<1>5. Nanos * s + v \in 0 .. min - 1 /\ z = min * b + (Nanos * s + v)
  <2>1. Nanos * s + v \in 0 .. Secs * Nanos - 1
    BY Units, Digit DEF Parts
  <2> HIDE DEF b
  <2>2. z = min * b + (Nanos * s + v)
    BY <1>1, <1>3, <1>4, Units
  <2> QED
    BY <2>1, <2>2
<1>6. min * m + (Nanos * s + v) \in 0 .. hour - 1 /\ z = hour * c + (min * m + (Nanos * s + v))
  <2> DEFINE r == Nanos * s + v
  <2>1. r \in 0 .. min - 1 /\ m \in 0 .. Mins - 1 /\ Mins \in Nat /\ Mins * min = hour
    BY <1>5, Units DEF Parts
  <2> HIDE DEF r, min
  <2>2. min * m + r \in 0 .. Mins * min - 1
    BY <1>2, <2>1, Digit
  <2> HIDE DEF c
  <2>3. z = min * (Mins * c + m) + r
    BY <1>5 DEF r
  <2>4. min * (Mins * c + m) = (Mins * min) * c + min * m
    BY <1>1, <1>2, <1>3, Units
  <2>5. z = hour * c + (min * m + r)
    BY <1>1, <1>2, <1>3, <2>1, <2>3, <2>4, Units
  <2> QED
    BY <2>1, <2>2, <2>5 DEF r
<1> HIDE DEF hour, min, a, b, c
<1>7. Cast(z, Nanos) = a /\ Cast(-z, Nanos) = -a
  <2>1. Divided(z, Nanos, a, v)
    BY <1>3, <1>4, Units DEF Parts, Divided
  <2> QED
    BY <2>1, CastSigned
<1>8. Cast(z, min) = b /\ Cast(-z, min) = -b
  <2>1. Divided(z, min, b, Nanos * s + v)
    BY <1>2, <1>3, <1>5 DEF Divided
  <2> QED
    BY <2>1, CastSigned
<1>9. Cast(z, hour) = c /\ Cast(-z, hour) = -c
  <2>1. Divided(z, hour, c, min * m + (Nanos * s + v))
    BY <1>2, <1>3, <1>6 DEF Divided
  <2> QED
    BY <2>1, CastSigned
<1>10. Cast(c, Hours) = d /\ Cast(-c, Hours) = -d
  <2>1. Divided(c, Hours, d, h)
    BY <1>1, Units DEF Divided, c, Parts
  <2> QED
    BY <2>1, CastSigned
<1>11. /\ c - d * Hours = h /\ -c - (-d) * Hours = -h
       /\ b - (d * Hours * Mins + h * Mins) = m
       /\ -b - ((-d) * Hours * Mins + (-h) * Mins) = -m
       /\ a - (d * Hours * Mins * Secs + h * Mins * Secs + m * Secs) = s
       /\ -a - ((-d) * Hours * Mins * Secs + (-h) * Mins * Secs + (-m) * Secs) = -s
       /\ z - (((d * Hours + h) * Mins + m) * Secs + s) * Nanos = v
       /\ -z - ((((-d) * Hours + (-h)) * Mins + (-m)) * Secs + (-s)) * Nanos = -v
  BY <1>1, <1>4, Units DEF a, b, c, PartsLength
<1>12. Components(z) = Record(d, h, m, s, v)
  BY <1>7, <1>8, <1>9, <1>10, <1>11 DEF Components, Record, hour, min
<1>13. Components(-z) = Record(-d, -h, -m, -s, -v)
  BY <1>7, <1>8, <1>9, <1>10, <1>11 DEF Components, Record, hour, min
<1> QED
  BY <1>12, <1>13

\* So every length is made of its Components.
LEMMA EachDiff ==
  ASSUME NEW z \in Int, z >= 0
  PROVE  \E d, h, m, s, v :
            /\ Made(z, d, h, m, s, v)
            /\ Components(z) = Record(d, h, m, s, v)
            /\ Components(-z) = Record(-d, -h, -m, -s, -v)
<1>1. PICK d, h, m, s, v : Made(z, d, h, m, s, v)
  BY EachLength
<1>2. /\ Components(z) = Record(d, h, m, s, v)
      /\ Components(-z) = Record(-d, -h, -m, -s, -v)
  BY <1>1, ComponentsOf
<1> QED
  BY <1>1, <1>2

\* The components of a difference of either sign.
LEMMA DiffHolds ==
  ASSUME NEW diff \in Int
  PROVE  LET c == Components(diff)
             sign == IF diff < 0 THEN -1 ELSE 1
         IN /\ diff = (((c.days * Hours + c.hours) * Mins + c.minutes) * Secs + c.seconds) * Nanos
                      + c.nanosecs
            /\ sign * c.days >= 0
            /\ sign * c.hours \in 0 .. Hours - 1
            /\ sign * c.minutes \in 0 .. Mins - 1
            /\ sign * c.seconds \in 0 .. Secs - 1
            /\ sign * c.nanosecs \in 0 .. Nanos - 1
<1>1. CASE diff >= 0
  <2>1. PICK d, h, m, s, v :
            /\ Made(diff, d, h, m, s, v)
            /\ Components(diff) = Record(d, h, m, s, v)
    BY <1>1, EachDiff
  <2> QED
    BY <1>1, <2>1, Units DEF Parts, PartsLength, Made, Record
<1>2. CASE diff < 0
  <2> DEFINE z == -diff
  <2>1. z \in Int /\ z >= 0 /\ -z = diff
    BY <1>2
  <2> HIDE DEF z
  <2>2. PICK d, h, m, s, v :
            /\ Made(z, d, h, m, s, v)
            /\ Components(-z) = Record(-d, -h, -m, -s, -v)
    BY <2>1, EachDiff
  <2>3. Components(diff) = Record(-d, -h, -m, -s, -v)
    BY <2>1, <2>2, Zenon
  <2>4. d \in Nat /\ h \in Nat /\ m \in Nat /\ s \in Nat /\ v \in Nat
    BY <2>2, Units DEF Parts, Made
  <2>5. diff = ((((-d) * Hours + (-h)) * Mins + (-m)) * Secs + (-s)) * Nanos + (-v)
    BY <2>1, <2>2, <2>4, Units DEF PartsLength, Made
  <2>6. (-1) * (-d) = d /\ (-1) * (-h) = h /\ (-1) * (-m) = m /\ (-1) * (-s) = s /\ (-1) * (-v) = v
    BY <2>4
  <2> QED
    BY <1>2, <2>2, <2>3, <2>5, <2>6 DEF Parts, Made, Record
<1> QED
  BY <1>1, <1>2

\* The differences that a step makes.
LEMMA DiffAddsUpHolds == ASSUME clock \in Int PROVE DiffAddsUp
<1> SUFFICES ASSUME NEW k \in Steps, NEW unit \in {"month", "day", "hour", "min", "nano"}
             PROVE  clock - Plus(clock, unit, k) \in Int
  BY DiffHolds DEF DiffAddsUp
<1>1. k \in Int
  BY BoundsAssumption
<1>2. unit \in {"year", "month", "day", "hour", "min", "sec", "milli", "micro", "nano"}
  OBVIOUS
<1>3. Plus(clock, unit, k) \in Int
  BY <1>1, <1>2, PlusInt
<1> QED
  BY <1>3

-----------------------------------------------------------------------------
(* Printing and reading *)

\* The fields of a struct tm.
LEMMA BlankFields == DOMAIN BlankTm = DateFields \cup ClockFields
BY DEF BlankTm, DateFields, ClockFields

\* No fraction is one of them.
LEMMA FractionsApart == Fractions \cap (DateFields \cup ClockFields) = {}
BY DEF Fractions, DateFields, ClockFields

\* What an instant prints for them.
LEMMA TextFields ==
  ASSUME NEW c, NEW fields
  PROVE  /\ DOMAIN Text(c, fields) = fields
         /\ \A g \in fields \cap (DateFields \cup ClockFields) : Text(c, fields)[g] = Tm(c)[g]
<1>1. DOMAIN Text(c, fields) = fields
  BY DEF Text
<1>2. ASSUME NEW g \in fields \cap (DateFields \cup ClockFields) PROVE Text(c, fields)[g] = Tm(c)[g]
  <2>1. g # "milli" /\ g # "micro" /\ g # "nano"
    BY DEF DateFields, ClockFields
  <2> QED
    BY <2>1 DEF Text
<1> QED
  BY <1>1, <1>2

\* An instant prints what its date and its time print.
LEMMA PrintsParts ==
  ASSUME NEW c \in Nat
  PROVE  /\ Text(c, DateFields) = DateText(DateOf(c), DateFields)
         /\ Text(c, ClockFields \cup Fractions) = TimeText(TimeOf(c), ClockFields \cup Fractions)
<1>1. /\ \A g \in ClockFields : Tm(c)[g] = TimeOf(c).clock[g]
      /\ \A g \in DateFields : Tm(c)[g] = DateOf(c).civil[g]
  BY FieldsAgree DEF FieldOf
<1>2. Millisec(TimeOf(c)) = MillisecOf(c) /\ Microsec(TimeOf(c)) = MicrosecOf(c)
  BY FractionsAgree
<1>3. Nanosec(c) = TimeOf(c).nano
  <2>1. PICK n, h, i, x, f :
           /\ TimeOf(c) = [clock |-> [hour |-> h, min |-> i, sec |-> x], nano |-> f]
           /\ Nanosec(c) = f
    BY PartsOf
  <2> QED
    BY <2>1
<1>4. Text(c, DateFields) = DateText(DateOf(c), DateFields)
  <2> DEFINE tm == [f \in DOMAIN BlankTm |-> IF f \in DateFields THEN DateOf(c).civil[f] ELSE 0]
  <2>1. \A g \in DateFields : tm[g] = DateOf(c).civil[g]
    BY BlankFields
  <2> HIDE DEF tm
  <2>2. DateText(DateOf(c), DateFields) = [g \in DateFields |-> DateOf(c).civil[g]]
    BY <2>1 DEF DateText, PutTime, tm
  <2>3. Text(c, DateFields) = [g \in DateFields |-> Tm(c)[g]]
    BY DEF Text, DateFields
  <2> QED
    BY <1>1, <2>2, <2>3
<1>5. Text(c, ClockFields \cup Fractions) = TimeText(TimeOf(c), ClockFields \cup Fractions)
  <2>1. ASSUME NEW g \in ClockFields \cup Fractions
        PROVE  Text(c, ClockFields \cup Fractions)[g] = TimeText(TimeOf(c), ClockFields \cup Fractions)[g]
    <3>1. CASE g \in Fractions
      BY <1>2, <1>3, <3>1 DEF Text, TimeText, Fractions, ClockFields
    <3>2. CASE g \in ClockFields
      <4>1. g # "milli" /\ g # "micro" /\ g # "nano"
        BY <3>2 DEF ClockFields
      <4>2. Text(c, ClockFields \cup Fractions)[g] = Tm(c)[g]
        BY <3>2, TextFields
      <4>3. TimeText(TimeOf(c), ClockFields \cup Fractions)[g] = TimeOf(c).clock[g]
        BY <3>2, <4>1 DEF TimeText
      <4> QED
        BY <1>1, <3>2, <4>2, <4>3
    <3> QED
      BY <3>1, <3>2
  <2> DEFINE F == ClockFields \cup Fractions
  <2>2. Text(c, F) = [g \in F |-> Text(c, F)[g]] /\ TimeText(TimeOf(c), F) = [g \in F |-> TimeText(TimeOf(c), F)[g]]
    BY DEF Text, TimeText
  <2> QED
    BY <2>1, <2>2, Zenon
<1> QED
  BY <1>4, <1>5

\* A whole instant is read back to the second, ...
LEMMA ReadsWhole ==
  ASSUME NEW c \in Nat
  PROVE  FromText(Text(c, DateFields \cup ClockFields)) = WithNano(c, 0)
<1> DEFINE text == Text(c, DateFields \cup ClockFields)
           tm == GetTime(text)
<1>1. PICK n, h, i, x, f :
           /\ Fielded(n, h, i, x, f) /\ n \in Int
           /\ ToTimeT(c) = SecondOf(n, h, i, x)
           /\ Tm(c) = TmOf(n, h, i, x)
  BY PartsOf
<1>2. DOMAIN text = DOMAIN BlankTm /\ \A g \in DOMAIN BlankTm : text[g] = Tm(c)[g]
  BY BlankFields, TextFields
<1>3. Readable(text)
  BY <1>2 DEF Readable
<1> HIDE DEF text
<1>4. \A g \in DOMAIN BlankTm : tm[g] = Tm(c)[g]
  BY <1>2 DEF GetTime
<1> HIDE DEF tm
<1>5. /\ tm.year = Tm(c).year /\ tm.month = Tm(c).month /\ tm.day = Tm(c).day
      /\ tm.hour = Tm(c).hour /\ tm.min = Tm(c).min /\ tm.sec = Tm(c).sec
  BY <1>4, BlankFields DEF DateFields, ClockFields
<1>6. MkTime(tm) = MkTime(Tm(c))
  BY <1>5, Zenon DEF MkTime
<1>7. MkTime(Tm(c)) = SecondOf(n, h, i, x)
  <2> DEFINE y == CivilDate(n).year
             m == CivilDate(n).month
             d == CivilDate(n).day
  <2>1. y \in Int /\ m \in Int /\ d \in Int /\ DayNumber(y, m, d) = n
    BY <1>1, CivilFields
  <2>2. h \in Int /\ i \in Int /\ x \in Int
    BY <1>1, Ranges DEF Fielded
  <2>3. Tm(c) = TmWith(y, m, d, h, i, x)
    BY <1>1 DEF TmOf
  <2> HIDE DEF y, m, d
  <2>4. MkTime(TmWith(y, m, d, h, i, x)) = SecondOf(DayNumber(y, m, d), h, i, x)
    BY <2>1, <2>2, MkTimeIs
  <2> QED
    BY <2>1, <2>3, <2>4
<1>8. FromText(text) = MkTime(tm) * Nanos
  BY <1>3 DEF FromText, Read, tm
<1>9. WithNano(c, 0) = SecondOf(n, h, i, x) * Nanos
  <2>1. SecondOf(n, h, i, x) \in Int
    BY <1>1, SecondIsInt, Ranges DEF Fielded
  <2> QED
    BY <1>1, <2>1, Units DEF WithNano
<1> QED
  BY <1>6, <1>7, <1>8, <1>9 DEF text

\* ... as are a date and a time of day, ...
LEMMA ReadsParts ==
  ASSUME NEW c \in Nat
  PROVE  /\ SameDate(DateFromText(DateText(DateOf(c), DateFields)), DateOf(c))
         /\ SameTime(TimeRead(TimeOf(c), TimeText(TimeOf(c), ClockFields)), TimeOf(WithNano(c, 0)))
<1>1. PICK n, h, i, x, f :
           /\ Fielded(n, h, i, x, f) /\ n \in Int
           /\ ToTimeT(c) = SecondOf(n, h, i, x)
           /\ DateOf(c) = [civil |-> CivilDate(n), day_of_week |-> Weekday(n)]
           /\ TimeOf(c) = [clock |-> [hour |-> h, min |-> i, sec |-> x], nano |-> f]
  BY PartsOf
<1>2. SameDate(DateFromText(DateText(DateOf(c), DateFields)), DateOf(c))
  <2> DEFINE text == DateText(DateOf(c), DateFields)
             tm == [g \in DOMAIN BlankTm |-> IF g \in DateFields THEN DateOf(c).civil[g] ELSE 0]
  <2>1. \A g \in DateFields : tm[g] = DateOf(c).civil[g]
    BY BlankFields
  <2> HIDE DEF tm
  <2>2. text = [g \in DateFields |-> DateOf(c).civil[g]]
    BY <2>1 DEF DateText, PutTime, tm
  <2> HIDE DEF text
  <2>3. Readable(text)
    BY <2>2, BlankFields DEF Readable
  <2>4. \A g \in DateFields : GetTime(text)[g] = DateOf(c).civil[g]
    BY <2>2, BlankFields DEF GetTime
  <2>5. DateFromText(text).civil = [g \in DateFields |-> GetTime(text)[g]]
    BY <2>3 DEF DateFromText, DateRead
  <2>6. DateFromText(text).civil = [g \in DateFields |-> DateOf(c).civil[g]]
    BY <2>4, <2>5
  <2>7. DateOf(c).civil = [g \in DateFields |-> DateOf(c).civil[g]]
    <3>1. CivilDate(n) = [year |-> CivilDate(n).year, month |-> CivilDate(n).month, day |-> CivilDate(n).day]
      BY <1>1, CivilFields
    <3>2. CivilDate(n) = [g \in DateFields |-> CivilDate(n)[g]]
      BY <3>1 DEF DateFields
    <3> QED
      BY <1>1, <3>2
  <2> QED
    BY <2>6, <2>7 DEF SameDate, text
<1>3. SameTime(TimeRead(TimeOf(c), TimeText(TimeOf(c), ClockFields)), TimeOf(WithNano(c, 0)))
  <2> DEFINE text == TimeText(TimeOf(c), ClockFields)
  <2>1. DOMAIN text = ClockFields /\ text = [g \in ClockFields |-> TimeOf(c).clock[g]]
    BY DEF TimeText, ClockFields
  <2> HIDE DEF text
  <2>2. Readable(text)
    BY <2>1, BlankFields DEF Readable
  <2>3. \A g \in ClockFields : GetTime(text)[g] = TimeOf(c).clock[g]
    BY <2>1, BlankFields DEF GetTime
  <2>4. TimeRead(TimeOf(c), text) = [clock |-> [g \in ClockFields |-> TimeOf(c).clock[g]], nano |-> 0]
    BY <2>2, <2>3 DEF TimeRead
  <2>5. [g \in ClockFields |-> TimeOf(c).clock[g]] = [hour |-> h, min |-> i, sec |-> x]
    BY <1>1 DEF ClockFields
  <2>6. TimeOf(WithNano(c, 0)) = [clock |-> [hour |-> h, min |-> i, sec |-> x], nano |-> 0]
    <3>1. Fielded(n, h, i, x, 0)
      BY <1>1, Units DEF Fielded
    <3>2. WithNano(c, 0) = Instant(n, h, i, x, 0)
      BY <1>1 DEF WithNano, Instant
    <3> QED
      BY <3>1, <3>2, FieldsOf
  <2> QED
    BY <2>4, <2>5, <2>6 DEF SameTime, text
<1> QED
  BY <1>2, <1>3

\* ... and no text with a fraction is.
LEMMA RefusesFractions ==
  ASSUME NEW c, NEW f \in Fractions
  PROVE  /\ ~Readable(TimeText(TimeOf(c), ClockFields \cup {f}))
         /\ FromText(Text(c, DateFields \cup {f})) = 0
<1>1. f \notin DOMAIN BlankTm
  BY BlankFields, FractionsApart
<1>2. DOMAIN TimeText(TimeOf(c), ClockFields \cup {f}) = ClockFields \cup {f}
  BY DEF TimeText
<1>3. DOMAIN Text(c, DateFields \cup {f}) = DateFields \cup {f}
  BY TextFields
<1>4. ~Readable(TimeText(TimeOf(c), ClockFields \cup {f})) /\ ~Readable(Text(c, DateFields \cup {f}))
  BY <1>1, <1>2, <1>3 DEF Readable
<1> QED
  BY <1>4 DEF FromText, Read

\* So the printing and reading of the classes agree.
LEMMA PrintingAgreesHolds == ASSUME clock \in Int PROVE PrintingAgrees
<1> SUFFICES ASSUME clock >= 0 PROVE PrintingAgrees
  BY DEF PrintingAgrees
<1>1. clock \in Nat
  OBVIOUS
<1> QED
  BY <1>1, PrintsParts, ReadsWhole, ReadsParts, RefusesFractions DEF PrintingAgrees

-----------------------------------------------------------------------------
(* Periods *)

\* The first instant of a day.
Midnight(n) == Nanos * (SecsPerDay * n - UtcOffset)

\* The same day of the next month is as many days later as the month has.
LEMMA NextMonth ==
  ASSUME NEW y \in Int, NEW m \in 1..12, NEW d \in Int
  PROVE  DayNumber(y, m + 1, d) = DayNumber(y, m, d) + DaysIn(y, m)
<1>1. DayNumber(y, m, d) = FirstOfYear(y) + FirstOfMonth(y, m) + d - 1 /\ FirstOfYear(y) \in Int
  BY DayNumberIs, YearLength
<1>2. CASE m < 12
  <2>1. m + 1 \in 1..12
    BY <1>2
  <2>2. DayNumber(y, m + 1, d) = FirstOfYear(y) + FirstOfMonth(y, m + 1) + d - 1
    BY <2>1, DayNumberIs
  <2>3. FirstOfMonth(y, m + 1) = FirstOfMonth(y, m) + DaysIn(y, m)
        /\ FirstOfMonth(y, m) \in Nat /\ DaysIn(y, m) \in Nat
    BY <1>2 DEF FirstOfMonth, DaysIn, DaysBefore, MonthDays
  <2> QED
    BY <1>1, <2>2, <2>3
<1>3. CASE m = 12
  <2>1. DayNumber(y, m + 1, d) = FirstOfYear(y + 1) + FirstOfMonth(y + 1, 1) + d - 1
    BY <1>3 DEF DayNumber
  <2>2. FirstOfYear(y + 1) = FirstOfYear(y) + (IF IsLeap(y) THEN 366 ELSE 365)
    BY YearLength
  <2>3. /\ FirstOfMonth(y + 1, 1) = 0 /\ DaysIn(y, m) = 31
        /\ FirstOfMonth(y, m) = IF IsLeap(y) THEN 335 ELSE 334
    BY <1>3 DEF FirstOfMonth, DaysIn, DaysBefore, MonthDays
  <2> QED
    BY <1>1, <2>1, <2>2, <2>3
<1> QED
  BY <1>2, <1>3

\* The date of the first and of the second day of a month.
LEMMA FirstDays ==
  ASSUME NEW n \in Int, NEW j \in 1..2
  PROVE  LET y == CivilDate(n).year
             m == CivilDate(n).month
         IN CivilDate(DayNumber(y, m, j)) = [year |-> y, month |-> m, day |-> j]
<1> DEFINE y == CivilDate(n).year
           m == CivilDate(n).month
<1>1. y \in Int /\ m \in 1..12
  BY CivilFields
<1> HIDE DEF y, m
<1>2. j \in 1 .. DaysIn(y, m)
  BY <1>1 DEF DaysIn, MonthDays
<1>3. DayNumber(y, m, j) = FirstOfYear(y) + FirstOfMonth(y, m) + j - 1 /\ DayNumber(y, m, j) \in Int
  BY <1>1, DayNumberIs
<1> DEFINE k == DayNumber(y, m, j)
<1> HIDE DEF k
<1>4. k \in Int /\ k = FirstOfYear(y) + FirstOfMonth(y, m) + j - 1
  BY <1>3 DEF k
<1>5. CivilDate(k) = [year |-> y, month |-> m, day |-> j]
  BY <1>1, <1>2, <1>4, CivilDateIs
<1> QED
  BY <1>5 DEF k, y, m

\* The month after a month begins with a first day.
LEMMA NextMonthStarts ==
  ASSUME NEW n \in Int
  PROVE  LET k == DayNumber(CivilDate(n).year, CivilDate(n).month, 1)
                    + DaysIn(CivilDate(n).year, CivilDate(n).month)
         IN k \in Int /\ DayNumber(CivilDate(k).year, CivilDate(k).month, 1) = k
<1> DEFINE y == CivilDate(n).year
           m == CivilDate(n).month
           k == DayNumber(y, m, 1) + DaysIn(y, m)
<1>1. y \in Int /\ m \in 1..12
  BY CivilFields
<1> HIDE DEF y, m
<1>2. DayNumber(y, m, 1) = FirstOfYear(y) + FirstOfMonth(y, m) + 1 - 1 /\ DayNumber(y, m, 1) \in Int
  BY <1>1, DayNumberIs
<1>3. /\ FirstOfYear(y) \in Int
      /\ FirstOfYear(y + 1) = FirstOfYear(y) + (IF IsLeap(y) THEN 366 ELSE 365)
  BY <1>1, YearLength
<1>4. PICK y2 \in Int, m2 \in 1..12 : k = FirstOfYear(y2) + FirstOfMonth(y2, m2) + 1 - 1
  <2>1. CASE m < 12
    <3>1. m + 1 \in 1..12
      BY <1>1, <2>1
    <3>2. FirstOfMonth(y, m + 1) = FirstOfMonth(y, m) + DaysIn(y, m)
          /\ FirstOfMonth(y, m) \in Nat /\ DaysIn(y, m) \in Nat
      BY <1>1, <2>1 DEF FirstOfMonth, DaysIn, DaysBefore, MonthDays
    <3>3. k = FirstOfYear(y) + FirstOfMonth(y, m + 1) + 1 - 1
      BY <1>2, <1>3, <3>2
    <3> QED
      BY <1>1, <3>1, <3>3
  <2>2. CASE m = 12
    <3>1. y + 1 \in Int /\ 1 \in 1..12
      BY <1>1
    <3>2. /\ FirstOfMonth(y + 1, 1) = 0 /\ DaysIn(y, m) = 31
          /\ FirstOfMonth(y, m) = IF IsLeap(y) THEN 335 ELSE 334
      BY <1>1, <2>2 DEF FirstOfMonth, DaysIn, DaysBefore, MonthDays
    <3>3. k = FirstOfYear(y + 1) + FirstOfMonth(y + 1, 1) + 1 - 1
      BY <1>2, <1>3, <3>2
    <3> QED
      BY <3>1, <3>3
  <2> QED
    BY <1>1, <2>1, <2>2
<1>5. k \in Int
  BY <1>1, <1>2 DEF DaysIn, MonthDays
<1> HIDE DEF k
<1>6. 1 \in 1 .. DaysIn(y2, m2)
  BY DEF DaysIn, MonthDays
<1>7. CivilDate(k) = [year |-> y2, month |-> m2, day |-> 1]
  BY <1>4, <1>5, <1>6, CivilDateIs
<1>8. DayNumber(y2, m2, 1) = k
  BY <1>4, DayNumberIs
<1>9. k \in Int /\ DayNumber(CivilDate(k).year, CivilDate(k).month, 1) = k
  BY <1>5, <1>7, <1>8
<1> QED
  BY <1>9 DEF k, y, m

\* The ends of the day of an instant.
LEMMA DayEnds ==
  ASSUME NEW c, NEW n, NEW h, NEW i, NEW x, NEW f, Located(c, n, h, i, x, f)
  PROVE  FirstTimeOfDay(c) = Midnight(n) /\ LastTimeOfDay(c) = Midnight(n + 1) - 1
<1>1. n \in Int
  BY DEF Located
<1>2. /\ FirstTimeOfDay(c) = Instant(n, 0, 0, 0, 0)
      /\ LastTimeOfDay(c) = Instant(n, Hours - 1, Mins - 1, Secs - 1, Nanos - 1)
  BY SettersOf DEF FirstTimeOfDay, LastTimeOfDay
<1>3. SecondOf(n, 0, 0, 0) = SecsPerDay * n - UtcOffset
  BY <1>1, Units DEF SecondOf
<1>4. SecondOf(n, Hours - 1, Mins - 1, Secs - 1) = SecsPerDay * (n + 1) - UtcOffset - 1
  <2>1. ((Hours - 1) * Mins + (Mins - 1)) * Secs + (Secs - 1) = SecsPerDay - 1
    BY Units
  <2>2. SecsPerDay * (n + 1) = SecsPerDay * n + SecsPerDay
    BY <1>1, Units
  <2>3. ((Hours - 1) * Mins + (Mins - 1)) * Secs \in Int /\ Secs - 1 \in Int /\ SecsPerDay * n \in Int
    BY <1>1, Units
  <2> QED
    BY <2>1, <2>2, <2>3, Units DEF SecondOf
<1>5. FirstTimeOfDay(c) = Midnight(n)
  BY <1>1, <1>2, <1>3, Units DEF Instant, Midnight
<1>6. LastTimeOfDay(c) = Midnight(n + 1) - 1
  <2> DEFINE p == SecsPerDay * (n + 1) - UtcOffset
  <2>1. p \in Int
    BY <1>1, Units
  <2> HIDE DEF p
  <2>2. LastTimeOfDay(c) = (p - 1) * Nanos + (Nanos - 1)
    BY <1>2, <1>4 DEF Instant, p
  <2>3. LastTimeOfDay(c) = Nanos * p - 1
    BY <2>1, <2>2, Units
  <2> QED
    BY <2>3 DEF Midnight, p
<1> QED
  BY <1>5, <1>6

\* Midnights are ordered as their days.
LEMMA MidnightsInOrder ==
  ASSUME NEW n \in Int, NEW k \in Int, n <= k
  PROVE  Midnight(n) \in Int /\ Midnight(k) \in Int /\ Midnight(n) <= Midnight(k)
<1> DEFINE p == SecsPerDay * n - UtcOffset
           q == SecsPerDay * k - UtcOffset
<1>1. SecsPerDay * n <= SecsPerDay * k
  BY Units, MulMonotone
<1>2. p \in Int /\ q \in Int /\ p <= q
  BY <1>1, Units
<1> HIDE DEF p, q
<1>3. Nanos * p <= Nanos * q /\ Nanos * p \in Int /\ Nanos * q \in Int
  BY <1>2, Units, MulMonotone
<1> QED
  BY <1>3 DEF Midnight, p, q

\* An instant is within its day.
LEMMA WithinDay ==
  ASSUME NEW c, NEW n, NEW h, NEW i, NEW x, NEW f, InRange(n, h, i, x, f), c = Instant(n, h, i, x, f)
  PROVE  Midnight(n) <= c /\ c < Midnight(n + 1)
<1> DEFINE p == SecsPerDay * n - UtcOffset
           r == (h * Mins + i) * Secs + x
<1>1. n \in Int /\ f \in 0 .. Nanos - 1
  BY DEF InRange
<1>2. r \in 0 .. SecsPerDay - 1
  BY DayRest DEF InRange
<1>3. p \in Int /\ SecondOf(n, h, i, x) = p + r
  BY <1>1, Ranges, Units DEF SecondOf, InRange
<1>4. SecsPerDay * (n + 1) - UtcOffset = p + SecsPerDay
  BY <1>1, Units
<1> HIDE DEF p, r
<1>5. c = Nanos * p + (Nanos * r + f)
  BY <1>1, <1>2, <1>3, Units DEF Instant
<1>6. Nanos * r + f \in 0 .. SecsPerDay * Nanos - 1
  BY <1>1, <1>2, Units, Digit
<1>7. Midnight(n) = Nanos * p
  BY DEF Midnight, p
<1>8. Midnight(n + 1) = Nanos * p + SecsPerDay * Nanos
  BY <1>3, <1>4, Units DEF Midnight
<1>9. Nanos * p \in Int /\ SecsPerDay * Nanos \in Int
  BY <1>3, Units
<1> QED
  BY <1>5, <1>6, <1>7, <1>8, <1>9

\* What is found for an instant whose fields are n, h, i, x and f: before the epoch
\* a fraction is counted back from the second after it.
Counted(n, h, i, x, f, e, n2, h2, i2, x2) ==
  /\ e \in {0, 1} /\ n2 \in {n, n + 1}
  /\ Located(Instant(n, h, i, x, f), n2, h2, i2, x2, f - e * Nanos)
  /\ SecondOf(n2, h2, i2, x2) = SecondOf(n, h, i, x) + e
  /\ n2 = n + 1 => SecondOf(n, h, i, x) < 0

\* Every instant has fields that are found.
LEMMA EachCounted ==
  ASSUME NEW n, NEW h, NEW i, NEW x, NEW f, InRange(n, h, i, x, f)
  PROVE  \E e, n2, h2, i2, x2 : Counted(n, h, i, x, f, e, n2, h2, i2, x2)
<1> DEFINE t == SecondOf(n, h, i, x)
           c == Instant(n, h, i, x, f)
<1>1. t \in Int /\ c = t * Nanos + f /\ f \in 0 .. Nanos - 1 /\ n \in Int
  BY SecondIsInt, Ranges DEF InRange, Instant
<1>2. CASE t >= 0 \/ f = 0
  <2>1. Fielded(n, h, i, x, f)
    BY <1>2 DEF Fielded, InRange
  <2>2. Located(c, n, h, i, x, f)
    BY <2>1, FieldedLocated
  <2>3. f - 0 * Nanos = f /\ t + 0 = t /\ n # n + 1
    BY <1>1, Units
  <2>4. Counted(n, h, i, x, f, 0, n, h, i, x)
    BY <2>2, <2>3 DEF Counted
  <2> QED
    BY <2>4
<1>3. CASE t < 0 /\ f > 0
  <2>1. ToTimeT(c) = t + 1 /\ Nanosec(c) = f - 1 * Nanos
    <3> HIDE DEF c, t
    <3>1. -c = Nanos * (-t - 1) + (Nanos - f) /\ -c \in Int /\ -t - 1 \in Nat
          /\ Nanos - f \in 0 .. Nanos - 1
      BY <1>1, <1>3, Units
    <3>2. (-c) \div Nanos = -t - 1
      <4> DEFINE w == -c
                 p == -t - 1
                 g == Nanos - f
      <4>1. w = Nanos * p + g /\ w \in Int /\ p \in Int /\ g \in 0 .. Nanos - 1
        BY <3>1
      <4> HIDE DEF w, p, g
      <4>2. w \div Nanos = p
        BY <4>1, Units, DivUnique
      <4> QED
        BY <4>2 DEF w, p
    <3>3. Nanos * (-t - 1) >= 0
      BY <3>1, Units
    <3>4. c < 0
      BY <1>1, <1>3, <3>1, <3>3, Units
    <3>5. ToTimeT(c) = t + 1
      BY <1>1, <3>2, <3>4 DEF ToTimeT, Cast
    <3> QED
      BY <1>1, <3>5, Units DEF Nanosec
  <2>2. t + 1 \in Int
    BY <1>1
  <2>3. PICK n2 \in Int : \E h2 \in 0 .. Hours - 1 : \E i2 \in 0 .. Mins - 1 : \E x2 \in 0 .. Secs - 1 :
           t + 1 = SecondOf(n2, h2, i2, x2)
    BY <2>2, EachSecond
  <2>4. PICK h2 \in 0 .. Hours - 1, i2 \in 0 .. Mins - 1, x2 \in 0 .. Secs - 1 :
           t + 1 = SecondOf(n2, h2, i2, x2)
    BY <2>3
  <2>5. Tm(c) = TmOf(n2, h2, i2, x2)
    <3>1. LocalTime(SecondOf(n2, h2, i2, x2)) = TmOf(n2, h2, i2, x2)
      BY LocalTimeIs
    <3> QED
      BY <2>1, <2>4, <3>1 DEF Tm
  <2>6. Located(c, n2, h2, i2, x2, f - 1 * Nanos)
    BY <2>1, <2>5 DEF Located
  <2>7. n2 \in {n, n + 1}
    <3> DEFINE r == (h * Mins + i) * Secs + x
               r2 == (h2 * Mins + i2) * Secs + x2
    <3>1. r \in 0 .. SecsPerDay - 1 /\ r2 \in 0 .. SecsPerDay - 1
      BY DayRest DEF InRange
    <3>2. t = SecsPerDay * n + r - UtcOffset /\ SecondOf(n2, h2, i2, x2) = SecsPerDay * n2 + r2 - UtcOffset
      BY <1>1, <3>1, Ranges, Units DEF SecondOf, InRange
    <3> HIDE DEF r, r2, t
    <3>3. SecsPerDay * n2 + r2 = SecsPerDay * n + (r + 1)
      BY <1>1, <2>4, <3>1, <3>2, Units
    <3>4. CASE r + 1 \in 0 .. SecsPerDay - 1
      <4> DEFINE s == r + 1
      <4>1. s \in 0 .. SecsPerDay - 1 /\ SecsPerDay * n2 + r2 = SecsPerDay * n + s
        BY <3>3, <3>4
      <4> HIDE DEF s
      <4> QED
        BY <1>1, <3>1, <4>1, Units, OneQuotient
    <3>5. CASE r + 1 = SecsPerDay
      <4> DEFINE k == n + 1
      <4>1. k \in Int /\ 0 \in 0 .. SecsPerDay - 1 /\ SecsPerDay * n2 + r2 = SecsPerDay * k + 0
        BY <1>1, <3>3, <3>5, Units
      <4> HIDE DEF k
      <4>2. n2 = k
        BY <3>1, <4>1, Units, OneQuotient
      <4> QED
        BY <4>2 DEF k
    <3> QED
      BY <3>1, <3>4, <3>5, Units
  <2>8. Counted(n, h, i, x, f, 1, n2, h2, i2, x2)
    BY <1>3, <2>4, <2>6, <2>7 DEF Counted
  <2> QED
    BY <2>8
<1> QED
  BY <1>1, <1>2, <1>3

\* The instant of the first day of a month, moved to the next month, is that of its
\* first day.
LEMMA FromFirstToFirst ==
  ASSUME NEW n1 \in Int, NEW h, NEW i, NEW x, NEW f, NEW k \in Int,
         InRange(n1, h, i, x, f),
         k = n1 + DaysIn(CivilDate(n1).year, CivilDate(n1).month),
         CivilDate(n1).day = 1
  PROVE  LET c1 == Instant(n1, h, i, x, f) IN
         Plus(c1, "month", 1) = Instant(k, h, i, x, f)
<1> DEFINE y == CivilDate(n1).year
           m == CivilDate(n1).month
           c1 == Instant(n1, h, i, x, f)
<1>1. PICK e, n2, h2, i2, x2 : Counted(n1, h, i, x, f, e, n2, h2, i2, x2)
  BY EachCounted
<1>2. y \in Int /\ m \in 1..12 /\ DayNumber(y, m, 1) = n1
  BY CivilFields
<1>3. /\ n2 \in Int /\ h2 \in 0 .. Hours - 1 /\ i2 \in 0 .. Mins - 1 /\ x2 \in 0 .. Secs - 1
      /\ Located(c1, n2, h2, i2, x2, f - e * Nanos)
      /\ SecondOf(n2, h2, i2, x2) = SecondOf(n1, h, i, x) + e
      /\ n2 \in {n1, n1 + 1} /\ e \in {0, 1}
  BY <1>1 DEF Counted, Located
<1> DEFINE j == 1 + (n2 - n1)
<1>4. j \in 1..2 /\ n2 = n1 + (j - 1)
  BY <1>3
<1>5. DayNumber(y, m, j) = n2
  <2> HIDE DEF y, m, j
  <2>1. m \in Int /\ 1 \in Int /\ j - 1 \in Int /\ 1 + (j - 1) = j
    BY <1>2, <1>4
  <2>2. DayNumber(y, m, 1 + (j - 1)) = DayNumber(y, m, 1) + (j - 1)
    BY <1>2, <2>1, DayNumberIs
  <2> QED
    BY <1>2, <1>4, <2>1, <2>2
<1>6. CivilDate(n2).year = y /\ CivilDate(n2).month = m /\ CivilDate(n2).day = j
  <2>1. DayNumber(y, m, j) = n2
    BY <1>5
  <2>2. CivilDate(DayNumber(y, m, j)) = [year |-> y, month |-> m, day |-> j]
    BY <1>4, FirstDays
  <2> QED
    BY <2>1, <2>2
<1> HIDE DEF y, m, j, c1
<1>7. With(c1, "month", m + 1) = Instant(DayNumber(y, m + 1, j), h2, i2, x2, f - e * Nanos)
  BY <1>2, <1>3, <1>6, SettersOf
<1>8. DaysIn(y, m) \in Int
  BY <1>2 DEF DaysIn, MonthDays
<1>9. DayNumber(y, m + 1, j) = k + (n2 - n1)
  <2>1. DayNumber(y, m + 1, j) = DayNumber(y, m, j) + DaysIn(y, m)
    BY <1>2, <1>4, NextMonth
  <2> QED
    BY <1>3, <1>8, <1>5, <2>1 DEF y, m
<1>10. SecondOf(k + (n2 - n1), h2, i2, x2) = SecondOf(k, h, i, x) + e
  <2> DEFINE r == (h * Mins + i) * Secs + x
             r2 == (h2 * Mins + i2) * Secs + x2
  <2>1. r \in Int /\ r2 \in Int
    BY <1>3, Ranges, Units DEF InRange
  <2>2. ASSUME NEW a \in Int
        PROVE  /\ SecondOf(a, h, i, x) = SecsPerDay * a + r - UtcOffset
               /\ SecondOf(a, h2, i2, x2) = SecsPerDay * a + r2 - UtcOffset
    BY <1>3, Ranges, Units DEF SecondOf, InRange
  <2> DEFINE u == SecsPerDay * n1
             v == SecsPerDay * n2
             w == SecsPerDay * k
             l == k + (n2 - n1)
  <2>3. u \in Int /\ v \in Int /\ w \in Int /\ l \in Int /\ SecsPerDay * l = w + v - u
    BY <1>3, Units
  <2> HIDE DEF r, r2
  <2>4. /\ SecondOf(n1, h, i, x) = u + r - UtcOffset
        /\ SecondOf(n2, h2, i2, x2) = v + r2 - UtcOffset
        /\ SecondOf(k, h, i, x) = w + r - UtcOffset
    BY <1>3, <2>2
  <2> HIDE DEF l
  <2>5. SecondOf(l, h2, i2, x2) = SecsPerDay * l + r2 - UtcOffset
    BY <2>2, <2>3
  <2> HIDE DEF u, v, w
  <2>6. SecondOf(l, h2, i2, x2) = SecondOf(k, h, i, x) + e
    BY <1>3, <2>1, <2>3, <2>4, <2>5, Units
  <2> QED
    BY <2>6 DEF l
<1>11. With(c1, "month", m + 1) = Instant(k, h, i, x, f)
  <2> DEFINE s == SecondOf(k, h, i, x)
  <2>1. s \in Int /\ f \in Int
    BY SecondIsInt, Ranges DEF InRange
  <2>2. With(c1, "month", m + 1) = (s + e) * Nanos + (f - e * Nanos)
    BY <1>7, <1>9, <1>10 DEF Instant
  <2> HIDE DEF s
  <2>3. (s + e) * Nanos + (f - e * Nanos) = s * Nanos + f
    BY <1>3, <2>1, Units
  <2> QED
    BY <2>2, <2>3 DEF Instant, s
<1>12. Tm(c1).month = m
  BY <1>3, <1>6 DEF Located, TmOf, TmWith
<1> QED
  BY <1>11, <1>12 DEF Plus, c1

\* The periods that the ends of a day and of a month make.
LEMMA PeriodsHold ==
  ASSUME NEW c \in Nat
  PROVE  /\ FirstTimeOfDay(c) <= c /\ c <= LastTimeOfDay(c)
         /\ LastTimeOfDay(c) + 1 = FirstTimeOfDay(Plus(c, "day", 1))
         /\ FirstTimeOfMonth(c) <= c
         /\ ~LeapMismatch(c) =>
               /\ c <= LastTimeOfMonth(c)
               /\ LastTimeOfMonth(c) + 1 = FirstTimeOfMonth(Plus(FirstDay(c), "month", 1))
<1>1. PICK n, h, i, x, f :
           /\ Fielded(n, h, i, x, f) /\ c = Instant(n, h, i, x, f)
           /\ SecondOf(n, h, i, x) \in Nat
  BY PartsOf
<1>2. /\ n \in Int /\ h \in 0 .. Hours - 1 /\ i \in 0 .. Mins - 1 /\ x \in 0 .. Secs - 1
      /\ f \in 0 .. Nanos - 1 /\ h \in Int /\ i \in Int /\ x \in Int /\ f \in Int
      /\ InRange(n, h, i, x, f) /\ AllInt(n, h, i, x, f)
  BY <1>1, Ranges DEF Fielded, InRange, AllInt
<1> DEFINE y == CivilDate(n).year
           m == CivilDate(n).month
           d == CivilDate(n).day
           n1 == DayNumber(y, m, 1)
           k == n1 + DaysIn(y, m)
           c1 == FirstDay(c)
           c3 == Plus(c1, "month", 1)
<1>3. /\ y \in Int /\ m \in 1..12 /\ d \in 1 .. DaysIn(y, m) /\ DayNumber(y, m, d) = n
      /\ DaysIn(y, m) \in Nat
  <2>1. DaysIn(y, m) \in Nat
    BY CivilFields, <1>2 DEF DaysIn, MonthDays
  <2> QED
    BY <1>2, <2>1, CivilFields
<1>4. n1 \in Int /\ n = n1 + (d - 1) /\ n1 <= n /\ n < k /\ k \in Int
  <2> HIDE DEF y, m, d
  <2>1. m \in Int /\ 1 \in Int /\ d - 1 \in Int /\ 1 + (d - 1) = d
    BY <1>3
  <2>2. y \in Int
    BY <1>3
  <2>3. DayNumber(y, m, 1) \in Int /\ \A b \in Int : DayNumber(y, m, 1 + b) = DayNumber(y, m, 1) + b
    BY <2>1, <2>2, DayNumberIs
  <2>4. DayNumber(y, m, 1 + (d - 1)) = DayNumber(y, m, 1) + (d - 1)
    BY <2>1, <2>3
  <2> QED
    BY <1>3, <2>1, <2>3, <2>4
<1>5. /\ CivilDate(n1) = [year |-> y, month |-> m, day |-> 1]
      /\ DayNumber(CivilDate(k).year, CivilDate(k).month, 1) = k
  <2>1. 1 \in 1..2
    OBVIOUS
  <2>2. CivilDate(n1) = [year |-> y, month |-> m, day |-> 1]
    BY <1>2, <2>1, FirstDays
  <2>3. DayNumber(CivilDate(k).year, CivilDate(k).month, 1) = k
    BY <1>2, NextMonthStarts
  <2> QED
    BY <2>2, <2>3
<1>6. Located(c, n, h, i, x, f)
  BY <1>1, FieldedLocated
<1>7. /\ FirstTimeOfDay(c) = Midnight(n) /\ LastTimeOfDay(c) = Midnight(n + 1) - 1
      /\ Midnight(n) <= c /\ c < Midnight(n + 1)
  BY <1>1, <1>2, <1>6, DayEnds, WithinDay
<1>8. ASSUME NEW a \in Int, n < a
      PROVE  SecondOf(a, h, i, x) >= 0 /\ Fielded(a, h, i, x, f)
  <2>1. SecondOf(a, h, i, x) = SecondOf(n, h, i, x) + (a - n) * SecsPerDay
    BY <1>2, <1>8, Units DEF SecondOf
  <2>2. (a - n) * SecsPerDay \in Nat
    BY <1>2, <1>8, Units
  <2>3. SecondOf(a, h, i, x) >= 0
    BY <1>1, <2>1, <2>2
  <2> QED
    BY <1>2, <1>8, <2>3 DEF Fielded
<1>9. \A a \in Int : Midnight(a) \in Int
  BY MidnightsInOrder
<1>10. LastTimeOfDay(c) + 1 = FirstTimeOfDay(Plus(c, "day", 1))
  <2>1. Plus(c, "day", 1) = Instant(n + 1, h, i, x, f)
    BY <1>1, <1>2, PlusOf
  <2>2. n + 1 \in Int /\ n < n + 1
    BY <1>2
  <2>3. Fielded(n + 1, h, i, x, f)
    BY <1>8, <2>2
  <2>4. FirstTimeOfDay(Plus(c, "day", 1)) = Midnight(n + 1)
    BY <2>1, <2>3, FieldedLocated, DayEnds
  <2> QED
    BY <1>7, <1>9, <2>2, <2>4
<1> HIDE DEF k, n1
<1>11. c1 = Instant(n1, h, i, x, f)
  BY <1>6, SettersOf DEF FirstDay, n1
<1>12. InRange(n1, h, i, x, f)
  BY <1>2, <1>4 DEF InRange
<1>13. FirstTimeOfMonth(c) <= c
  <2>1. PICK e, n2, h2, i2, x2 : Counted(n1, h, i, x, f, e, n2, h2, i2, x2)
    BY <1>12, EachCounted
  <2>2. FirstTimeOfMonth(c) = Midnight(n2)
    BY <1>11, <2>1, DayEnds DEF FirstTimeOfMonth, Counted
  <2>3. n2 \in Int /\ n2 <= n
    <3>1. n2 \in {n1, n1 + 1} /\ (n2 = n1 + 1 => SecondOf(n1, h, i, x) < 0)
      BY <2>1 DEF Counted
    <3>2. n2 = n1 + 1 => n1 # n
      BY <1>1, <3>1
    <3> QED
      BY <1>2, <1>4, <3>1, <3>2
  <2>4. Midnight(n2) <= Midnight(n)
    BY <1>2, <2>3, MidnightsInOrder
  <2> QED
    BY <1>2, <1>7, <1>9, <2>2, <2>3, <2>4
<1>14. ASSUME ~LeapMismatch(c)
       PROVE  LastTimeOfMonth(c) = Midnight(k) - 1 /\ c <= LastTimeOfMonth(c)
  <2>1. LastDay(c) = Instant(n + (DaysIn(y, m) - d), h, i, x, f)
        /\ SecondOf(n + (DaysIn(y, m) - d), h, i, x) >= 0
    BY <1>1, <1>2, <1>14, LastDayIs
  <2> DEFINE l == n + (DaysIn(y, m) - d)
  <2>2. l \in Int /\ l + 1 = k
    BY <1>2, <1>3, <1>4 DEF k
  <2> HIDE DEF l
  <2>3. Fielded(l, h, i, x, f)
    BY <1>2, <2>1, <2>2 DEF Fielded, l
  <2>4. LastTimeOfMonth(c) = Midnight(k) - 1
    BY <2>1, <2>2, <2>3, FieldedLocated, DayEnds DEF LastTimeOfMonth, l
  <2>5. n + 1 \in Int /\ n + 1 <= k
    BY <1>2, <1>4
  <2>6. Midnight(n + 1) <= Midnight(k)
    BY <1>4, <2>5, MidnightsInOrder
  <2> QED
    BY <1>4, <1>7, <1>9, <2>4, <2>5, <2>6
<1>15. FirstTimeOfMonth(c3) = Midnight(k)
  <2>1. CivilDate(n1).year = y /\ CivilDate(n1).month = m /\ CivilDate(n1).day = 1
    BY <1>5
  <2>2. c3 = Instant(k, h, i, x, f)
    BY <1>4, <1>11, <1>12, <2>1, FromFirstToFirst DEF k
  <2> HIDE DEF c3
  <2>3. Fielded(k, h, i, x, f)
    BY <1>4, <1>8
  <2>4. Located(c3, k, h, i, x, f)
    BY <2>2, <2>3, FieldedLocated
  <2>5. FirstDay(c3) = Instant(DayNumber(CivilDate(k).year, CivilDate(k).month, 1), h, i, x, f)
    BY <2>4, SettersOf DEF FirstDay
  <2>6. FirstDay(c3) = c3
    BY <1>5, <2>2, <2>5 DEF k, n1
  <2> QED
    BY <2>4, <2>6, DayEnds DEF FirstTimeOfMonth
<1>16. /\ FirstTimeOfDay(c) <= c /\ c <= LastTimeOfDay(c)
  BY <1>2, <1>7, <1>9
<1>17. ASSUME ~LeapMismatch(c)
       PROVE  LastTimeOfMonth(c) + 1 = FirstTimeOfMonth(c3)
  BY <1>4, <1>9, <1>14, <1>15, <1>17
<1> QED
  BY <1>10, <1>13, <1>14, <1>16, <1>17

-----------------------------------------------------------------------------
(* The theorems *)

\* The invariants, of every number of the clock.
LEMMA SplitsHold == TypeOK => SplitsAndRejoins
BY Rejoins DEF TypeOK, SplitsAndRejoins

\* In words of the clock.
LEMMA PeriodsComplete == TypeOK => PeriodsAreComplete
<1>1. clock \in Int /\ clock >= 0 => clock \in Nat
  OBVIOUS
<1> QED
  BY <1>1, PeriodsHold, Zenon DEF TypeOK, PeriodsAreComplete

\* All that ClassesAgree says.
LEMMA ClassesHold == TypeOK => ClassesAgree
BY ArithmeticHolds, OrdersAgreeHold, PrintingAgreesHolds, DiffAddsUpHolds DEF TypeOK, ClassesAgree

(***************************************************************************)
(* An instant from the epoch on, or of whole seconds, is made of its date() *)
(* and its time() again, in every zone and for every length of the units.  *)
(***************************************************************************)
THEOREM SplitsAndRejoinsCorrect == SafeSpec => []SplitsAndRejoins
BY TypeCorrect, SplitsHold, PTL

(***************************************************************************)
(* The first and the last times of a day and of a month enclose every      *)
(* instant since the epoch and meet the next day's and the next month's, but *)
(* for the end of February in a century's year.                            *)
(***************************************************************************)
THEOREM PeriodsAreCompleteCorrect == SafeSpec => []PeriodsAreComplete
BY TypeCorrect, PeriodsComplete, PTL

(***************************************************************************)
(* SysDate, SysTime, SysDateTime and SysDateTimeDiff agree in what they    *)
(* add, compare, print, read and take apart.                               *)
(***************************************************************************)
THEOREM ClassesAgreeCorrect == SafeSpec => []ClassesAgree
BY TypeCorrect, ClassesHold, PTL

-----------------------------------------------------------------------------
(* from_string_compact() *)

\* Induction over the natural numbers, for a set of them.
LEMMA SetInduction ==
  ASSUME NEW S, 0 \in S, \A n \in Nat : n \in S => n + 1 \in S
  PROVE  Nat \subseteq S
<1> SUFFICES ASSUME Nat \ S # {} PROVE FALSE
  OBVIOUS
<1>1. PICK x \in Nat \ S : \A y \in Nat \ S : <<y, x>> \notin OpToRel(<, Nat)
  BY NatLessThanWellFounded, WFMin
<1>2. x # 0 /\ x - 1 \in Nat /\ (x - 1) + 1 = x
  OBVIOUS
<1>3. x - 1 \in Nat \ S
  BY <1>2
<1>4. <<x - 1, x>> \in OpToRel(<, Nat)
  BY <1>2 DEF OpToRel
<1> QED
  BY <1>1, <1>3, <1>4

\* The sums of a function's values, as the recursive functions of CompactFormat make them.
Sums(g, w, a, b) == g = [i \in a..b |-> IF i = a THEN 0 ELSE g[i - 1] + w[i]]

\* There is such a function.
LEMMA SumsExist ==
  ASSUME NEW w, NEW a \in Int
  PROVE  \A n \in Nat : \E g : Sums(g, w, a, a + n)
<1> DEFINE T == {n \in Nat : \E g : Sums(g, w, a, a + n)}
<1>1. 0 \in T
  <2> DEFINE e == [i \in a .. a + 0 |-> 0]
  <2>1. Sums(e, w, a, a + 0)
    BY DEF Sums
  <2> QED
    BY <2>1
<1>2. ASSUME NEW n \in Nat, n \in T PROVE n + 1 \in T
  <2>1. PICK g : Sums(g, w, a, a + n)
    BY <1>2
  <2> DEFINE b == a + n
             last == g[b] + w[b + 1]
             h == [i \in a .. b + 1 |-> IF i = b + 1 THEN last ELSE g[i]]
             new == [i \in a .. b + 1 |-> IF i = a THEN 0 ELSE h[i - 1] + w[i]]
  <2>2. b \in Int /\ a <= b /\ a + (n + 1) = b + 1 /\ b + 1 \in a .. b + 1 /\ b + 1 # a /\ b + 1 - 1 = b
        /\ b \in a .. b + 1 /\ b # b + 1
    OBVIOUS
  <2>3. g = [i \in a..b |-> IF i = a THEN 0 ELSE g[i - 1] + w[i]]
    BY <2>1 DEF Sums
  <2> HIDE DEF b
  <2>4. ASSUME NEW i \in a..b PROVE h[i] = new[i]
    <3>1. h[i] = g[i] /\ i \in a .. b + 1
      BY <2>2, <2>4
    <3>2. g[i] = IF i = a THEN 0 ELSE g[i - 1] + w[i]
      BY <2>3
    <3>3. i # a => h[i - 1] = g[i - 1]
      BY <2>2
    <3> HIDE DEF h
    <3> QED
      BY <3>1, <3>2, <3>3
  <2>5. h[b + 1] = new[b + 1]
    <3>1. h[b + 1] = last /\ h[b + 1 - 1] = g[b]
      BY <2>2
    <3> HIDE DEF h
    <3> QED
      BY <2>2, <3>1
  <2>6. h = new
    <3>1. DOMAIN h = a .. b + 1 /\ DOMAIN new = a .. b + 1 /\ a .. b + 1 = (a .. b) \cup {b + 1}
      BY <2>2
    <3> QED
      BY <2>4, <2>5, <3>1
  <2>7. Sums(h, w, a, b + 1)
    BY <2>6 DEF Sums
  <2> HIDE DEF h
  <2> QED
    BY <2>2, <2>7
<1> HIDE DEF T
<1>3. Nat \subseteq T
  BY <1>1, <1>2, SetInduction
<1> QED
  BY <1>3 DEF T

\* The Place of a format.
PlaceOf(f) == LET g[i \in 1 .. MaxTokens + 1] == IF i = 1 THEN 0 ELSE g[i - 1] + Width(f[i - 1])
              IN g

\* The width of a token is what is demanded of the text, and what is skipped with the loop's step.
LEMMA TokenWidths ==
  ASSUME NEW f
  PROVE  /\ Width(f) \in Nat \ {0}
         /\ f = Literal => Width(f) = 1
         /\ f # Literal => /\ Skips(f) + 2 = Width(f)
                                   /\ Demands(f) \in 2 .. Width(f)
                                   /\ Width(f) - 1 < Demands(f) + (IF f \in {"Y", "L"} THEN 1 ELSE 0)
BY DEF Width, Literal, Skips, Demands

\* Each place is the one before and the width of the token there.
LEMMA PlaceStep ==
  ASSUME MaxTokens \in Nat, NEW f
  PROVE  /\ PlaceOf(f)[1] = 0
         /\ \A i \in 1 .. MaxTokens : PlaceOf(f)[i + 1] = PlaceOf(f)[i] + Width(f[i])
<1> DEFINE w == [i \in 1 .. MaxTokens + 1 |-> Width(f[i - 1])]
           P(g) == g = [i \in 1 .. MaxTokens + 1 |-> IF i = 1 THEN 0 ELSE g[i - 1] + Width(f[i - 1])]
<1>1. \E g : P(g)
  <2>1. ASSUME NEW v, NEW a \in Int, a = 1 PROVE \E g : Sums(g, v, a, a + MaxTokens)
    BY <2>1, SumsExist
  <2> HIDE DEF w
  <2>2. PICK g : Sums(g, w, 1, 1 + MaxTokens)
    BY <2>1
  <2>3. 1 + MaxTokens = MaxTokens + 1
    OBVIOUS
  <2>4. g = [i \in 1 .. MaxTokens + 1 |-> IF i = 1 THEN 0 ELSE g[i - 1] + w[i]]
    BY <2>2, <2>3 DEF Sums
  <2>5. P(g)
    BY <2>4 DEF w
  <2> QED
    BY <2>5
<1>2. P(CHOOSE g : P(g))
  BY <1>1
<1>3. PlaceOf(f) = CHOOSE g : P(g)
  BY DEF PlaceOf
<1> DEFINE p == PlaceOf(f)
<1>4. p = [i \in 1 .. MaxTokens + 1 |-> IF i = 1 THEN 0 ELSE p[i - 1] + Width(f[i - 1])]
  BY <1>2, <1>3
<1> HIDE DEF p
<1>5. 1 \in 1 .. MaxTokens + 1
  OBVIOUS
<1>6. p[1] = 0
  BY <1>4, <1>5
<1>7. ASSUME NEW i \in 1 .. MaxTokens PROVE p[i + 1] = p[i] + Width(f[i])
  <2>1. i + 1 \in 1 .. MaxTokens + 1 /\ i + 1 # 1 /\ i + 1 - 1 = i
    OBVIOUS
  <2> QED
    BY <1>4, <2>1
<1> QED
  BY <1>6, <1>7 DEF p

\* The places are ordered, ...
LEMMA PlacesInOrder ==
  ASSUME MaxTokens \in Nat, NEW f, NEW i \in 1 .. MaxTokens + 1
  PROVE  /\ PlaceOf(f)[i] \in Nat
         /\ \A j \in i .. MaxTokens + 1 : PlaceOf(f)[j] \in Nat /\ PlaceOf(f)[i] <= PlaceOf(f)[j]
<1> DEFINE p == PlaceOf(f)
           A == {n \in Nat : n + 1 \in 1 .. MaxTokens + 1 => p[n + 1] \in Nat}
<1>1. p[1] = 0 /\ \A k \in 1 .. MaxTokens : p[k + 1] = p[k] + Width(f[k])
  BY PlaceStep
<1> HIDE DEF p
<1>2. \A k : Width(f[k]) \in Nat
  BY TokenWidths
<1>3. Nat \subseteq A
  <2>1. 0 \in A
    BY <1>1
  <2>2. ASSUME NEW n \in Nat, n \in A PROVE n + 1 \in A
    <3>1. CASE n + 1 \in 1 .. MaxTokens
      <4>1. p[n + 1] \in Nat
        BY <2>2, <3>1
      <4>2. p[n + 1 + 1] = p[n + 1] + Width(f[n + 1])
        BY <1>1, <3>1
      <4>3. p[n + 1 + 1] \in Nat
        BY <1>2, <4>1, <4>2
      <4> QED
        BY <4>3
    <3>2. CASE ~(n + 1 \in 1 .. MaxTokens)
      BY <3>2
    <3> QED
      BY <3>1, <3>2
  <2> HIDE DEF A
  <2> QED
    BY <2>1, <2>2, SetInduction
<1>4. ASSUME NEW k \in 1 .. MaxTokens + 1 PROVE p[k] \in Nat
  <2>1. k - 1 \in Nat /\ k - 1 + 1 = k
    OBVIOUS
  <2>2. k - 1 \in A
    BY <1>3, <2>1
  <2> QED
    BY <2>1, <2>2
<1> HIDE DEF A
<1> DEFINE B == {n \in Nat : i + n \in 1 .. MaxTokens + 1 => p[i] <= p[i + n]}
<1>5. Nat \subseteq B
  <2>1. 0 \in B
    BY <1>4
  <2>2. ASSUME NEW n \in Nat, n \in B PROVE n + 1 \in B
    <3>1. CASE i + n \in 1 .. MaxTokens
      <4>1. p[i] <= p[i + n] /\ p[i] \in Nat /\ p[i + n] \in Nat
        BY <1>4, <2>2, <3>1
      <4>2. p[i + n + 1] = p[i + n] + Width(f[i + n])
        BY <1>1, <3>1
      <4>3. p[i] <= p[i + n + 1] /\ i + (n + 1) = i + n + 1
        BY <1>2, <4>1, <4>2
      <4> QED
        BY <4>3
    <3>2. CASE ~(i + n \in 1 .. MaxTokens)
      BY <3>2
    <3> QED
      BY <3>1, <3>2
  <2> HIDE DEF B
  <2> QED
    BY <2>1, <2>2, SetInduction
<1>6. ASSUME NEW j \in i .. MaxTokens + 1 PROVE p[j] \in Nat /\ p[i] <= p[j]
  <2>1. j - i \in Nat /\ i + (j - i) = j /\ j \in 1 .. MaxTokens + 1
    OBVIOUS
  <2>2. j - i \in B
    BY <1>5, <2>1
  <2> QED
    BY <1>4, <2>1, <2>2
<1> QED
  BY <1>4, <1>6 DEF p

\* ... and the last one is the length of the text.
LEMMA TextEnds ==
  ASSUME MaxTokens \in Nat, NEW f, Len(f) \in 0 .. MaxTokens
  PROVE  TextLength(f) = PlaceOf(f)[Len(f) + 1]
<1> DEFINE P(g) == g = [i \in 0 .. MaxTokens |-> IF i = 0 THEN 0 ELSE g[i - 1] + Width(f[i])]
           w == [i \in 0 .. MaxTokens |-> Width(f[i])]
           q == CHOOSE g : P(g)
           p == PlaceOf(f)
           E == {n \in Nat : n \in 0 .. MaxTokens => q[n] = p[n + 1]}
<1>1. \E g : P(g)
  <2>1. ASSUME NEW v, NEW a \in Int, a = 0 PROVE \E g : Sums(g, v, a, a + MaxTokens)
    BY <2>1, SumsExist
  <2>2. PICK g : Sums(g, w, 0, 0 + MaxTokens)
    BY <2>1
  <2>3. 0 + MaxTokens = MaxTokens
    OBVIOUS
  <2>4. g = [i \in 0 .. MaxTokens |-> IF i = 0 THEN 0 ELSE g[i - 1] + w[i]]
    BY <2>2, <2>3 DEF Sums
  <2>5. P(g)
    BY <2>4
  <2> QED
    BY <2>5
<1>2. P(q)
  BY <1>1
<1>3. TextLength(f) = q[Len(f)]
  BY DEF TextLength
<1>4. p[1] = 0 /\ \A k \in 1 .. MaxTokens : p[k + 1] = p[k] + Width(f[k])
  BY PlaceStep
<1> HIDE DEF q, p
<1>5. Nat \subseteq E
  <2>1. 0 \in E
    BY <1>2, <1>4
  <2>2. ASSUME NEW n \in Nat, n \in E PROVE n + 1 \in E
    <3>1. CASE n + 1 \in 1 .. MaxTokens
      <4>1. n \in 0 .. MaxTokens /\ n + 1 \in 0 .. MaxTokens /\ n + 1 # 0 /\ n + 1 - 1 = n
        BY <3>1
      <4>2. q[n] = p[n + 1]
        BY <2>2, <4>1
      <4>3. q[n + 1] = q[n] + Width(f[n + 1])
        BY <1>2, <4>1
      <4>4. p[n + 1 + 1] = p[n + 1] + Width(f[n + 1])
        BY <1>4, <3>1
      <4> QED
        BY <4>2, <4>3, <4>4
    <3>2. CASE ~(n + 1 \in 1 .. MaxTokens)
      BY <3>2
    <3> QED
      BY <3>1, <3>2
  <2> HIDE DEF E
  <2> QED
    BY <2>1, <2>2, SetInduction
<1>6. Len(f) \in E
  BY <1>5
<1> QED
  BY <1>3, <1>6 DEF p

\* The two indices are in step, and what was read is where it was printed.
ReadSoFar ==
  /\ MaxTokens \in Nat
  /\ Len(format) \in 1 .. MaxTokens
  /\ length \in Int
  /\ next \in 1 .. Len(format) + 1
  /\ str_index = PlaceOf(format)[next] + 1
  /\ reads \in Seq(Int \X Int) /\ Len(reads) = next - 1
  /\ \A i \in 1 .. next - 1 : format[i] # Literal =>
        /\ reads[i] = <<PlaceOf(format)[i], PlaceOf(format)[i] + Width(format[i]) - 1>>
        /\ reads[i][2] < length + (IF format[i] \in {"Y", "L"} THEN 1 ELSE 0)
  /\ result = "null" => length < TextLength(format)
  /\ 0 <= length
  /\ result = "throws" => length = 0 /\ next > 1

\* The scan begins so ...
LEMMA ReadInit == ASSUME MaxTokens \in Nat PROVE ScanInit => ReadSoFar
<1> SUFFICES ASSUME ScanInit PROVE ReadSoFar
  OBVIOUS
<1>1. PICK n \in 1 .. MaxTokens : format \in [1..n -> Fields \cup {Literal}]
  BY DEF ScanInit
<1>2. Len(format) = n
  BY <1>1, LenProperties
<1>3. length \in Int /\ next = 1 /\ str_index = 1 /\ reads = <<>> /\ result = "scan"
  BY DEF ScanInit
<1>6. 0 <= length
  BY DEF ScanInit
<1>4. PlaceOf(format)[1] = 0
  BY PlaceStep
<1>5. reads \in Seq(Int \X Int) /\ Len(reads) = 0
  BY <1>3
<1> QED
  BY <1>2, <1>3, <1>4, <1>5, <1>6 DEF ReadSoFar

\* ... and every step of it keeps it so.
LEMMA ReadNext == ReadSoFar /\ [ScanNext]_formatVars => ReadSoFar'
<1> SUFFICES ASSUME ReadSoFar, [ScanNext]_formatVars PROVE ReadSoFar'
  OBVIOUS
<1> DEFINE p == PlaceOf(format)
           t == format[next]
<1>1. /\ MaxTokens \in Nat /\ Len(format) \in 1 .. MaxTokens /\ length \in Int
      /\ next \in 1 .. Len(format) + 1 /\ str_index = p[next] + 1
      /\ reads \in Seq(Int \X Int) /\ Len(reads) = next - 1
  BY DEF ReadSoFar
<1>2. p[next] \in Nat
  <2>1. next \in 1 .. MaxTokens + 1
    BY <1>1
  <2> QED
    BY <1>1, <2>1, PlacesInOrder
<1>3. ASSUME next <= Len(format) PROVE p[next + 1] = p[next] + Width(t)
  <2>1. next \in 1 .. MaxTokens
    BY <1>1, <1>3
  <2> QED
    BY <1>1, <2>1, PlaceStep
<1>4. Width(t) \in Nat \ {0}
  BY TokenWidths
<1> DEFINE a == p[next]
           b == p[next + 1]
           width == Width(t)
<1>5. str_index = a + 1 /\ a \in Nat /\ width \in Nat \ {0} /\ length \in Int /\ (next <= Len(format) => b = a + width)
  BY <1>1, <1>2, <1>3, <1>4
\* One more token is read.
<1>6. ASSUME NEW first \in Int, NEW last \in Int, next <= Len(format),
             reads' = Append(reads, <<first, last>>), next' = next + 1,
             str_index' = p[next + 1] + 1,
             UNCHANGED <<format, length, result>>,
             t # Literal => /\ first = p[next] /\ last = p[next] + Width(t) - 1
                                    /\ last < length + (IF t \in {"Y", "L"} THEN 1 ELSE 0)
      PROVE  ReadSoFar'
  <2>1. <<first, last>> \in Int \X Int
    OBVIOUS
  <2>2. /\ reads' \in Seq(Int \X Int) /\ Len(reads') = next' - 1
        /\ \A i \in 1 .. next - 1 : reads'[i] = reads[i]
        /\ reads'[next] = <<first, last>>
    <3> DEFINE pair == <<first, last>>
               S == Int \X Int
    <3>1. pair \in S /\ reads \in Seq(S) /\ Len(reads) = next - 1 /\ reads' = Append(reads, pair) /\ next \in Int
      BY <1>1, <1>6, <2>1
    <3> HIDE DEF pair, S
    <3>2. /\ reads' \in Seq(S) /\ Len(reads') = next
          /\ \A i \in 1 .. next - 1 : reads'[i] = reads[i]
          /\ reads'[next] = pair
      BY <3>1, AppendProperties
    <3> QED
      BY <1>6, <3>1, <3>2 DEF pair, S
  <2>3. next' \in 1 .. Len(format) + 1
    BY <1>1, <1>6
  <2>4. str_index' = PlaceOf(format)[next'] + 1
    BY <1>6
  <2>5. ASSUME NEW i \in 1 .. next' - 1, format[i] # Literal
        PROVE  /\ reads'[i] = <<PlaceOf(format)[i], PlaceOf(format)[i] + Width(format[i]) - 1>>
               /\ reads'[i][2] < length + (IF format[i] \in {"Y", "L"} THEN 1 ELSE 0)
    <3>1. CASE i = next
      <4>1. t # Literal
        BY <2>5, <3>1
      <4>2. first = p[next] /\ last = p[next] + Width(t) - 1
            /\ last < length + (IF t \in {"Y", "L"} THEN 1 ELSE 0)
        BY <1>6, <4>1
      <4>3. reads'[next] = <<p[next], p[next] + Width(format[next]) - 1>>
        BY <2>2, <4>2
      <4>4. reads'[next][2] = last
        BY <2>2
      <4>5. reads'[next][2] < length + (IF format[next] \in {"Y", "L"} THEN 1 ELSE 0)
        BY <4>2, <4>4
      <4> HIDE DEF p
      <4> QED
        BY <3>1, <4>3, <4>5, Zenon DEF p
    <3>2. CASE i \in 1 .. next - 1
      <4>1. reads'[i] = reads[i]
        BY <2>2, <3>2
      <4>2. /\ reads[i] = <<PlaceOf(format)[i], PlaceOf(format)[i] + Width(format[i]) - 1>>
            /\ reads[i][2] < length + (IF format[i] \in {"Y", "L"} THEN 1 ELSE 0)
        BY <2>5, <3>2 DEF ReadSoFar
      <4> QED
        BY <4>1, <4>2, Zenon
    <3>3. i = next \/ i \in 1 .. next - 1
      BY <1>1, <1>6
    <3> QED
      BY <3>1, <3>2, <3>3, Zenon
  <2>6. result = "null" => length < TextLength(format)
    BY DEF ReadSoFar
  <2>9. 0 <= length /\ (result = "throws" => length = 0 /\ next' > 1)
    BY <1>1, <1>6 DEF ReadSoFar
  <2>7. format' = format /\ length' = length /\ result' = result
    BY <1>6
  <2> HIDE DEF p, t
  <2>8. TextLength(format)' = TextLength(format)
    BY <2>7 DEF TextLength, Width, Literal
  <2> QED
    BY <1>1, <2>2, <2>3, <2>4, <2>5, <2>6, <2>7, <2>8, <2>9 DEF ReadSoFar
<1>7. CASE ScanLiteral
  <2>1. /\ next <= Len(format) /\ t = Literal
        /\ reads' = Append(reads, <<0, -1>>) /\ next' = next + 1 /\ str_index' = str_index + 1
        /\ UNCHANGED <<format, length, result>>
    BY <1>7 DEF ScanLiteral
  <2>2. Width(t) = 1
    BY <2>1, TokenWidths
  <2>3. str_index' = p[next + 1] + 1
    BY <1>1, <1>2, <1>3, <2>1, <2>2
  <2>4. 0 \in Int /\ -1 \in Int
    OBVIOUS
  <2> HIDE DEF p, t
  <2> QED
    BY <1>6, <2>1, <2>3, <2>4
<1>8. CASE ScanField
  <2> DEFINE first == str_index - 1
             last == str_index - 2 + Width(t)
             skips == Skips(t)
             demands == Demands(t)
             more == IF t \in {"Y", "L"} THEN 1 ELSE 0
  <2>1. /\ next <= Len(format) /\ t # Literal /\ ~TooShort(t) /\ ~Wraps
        /\ reads' = Append(reads, <<first, last>>) /\ next' = next + 1
        /\ str_index' = str_index + Skips(t) + 2
        /\ UNCHANGED <<format, length, result>>
    BY <1>8 DEF ScanField
  <2>2. /\ Skips(t) + 2 = Width(t)
        /\ Demands(t) \in 2 .. Width(t)
        /\ Width(t) - 1 < Demands(t) + (IF t \in {"Y", "L"} THEN 1 ELSE 0)
    BY <2>1, TokenWidths
  <2>3. Skips(t) \in Int
    BY DEF Skips
  <2>4. ~(length - (str_index - 1) < demands)
    BY <2>1 DEF TooShort
  <2>5. skips \in Int /\ skips + 2 = width /\ demands \in Int /\ width - 1 < demands + more /\ more \in {0, 1}
        /\ next <= Len(format) /\ str_index' = str_index + skips + 2
        /\ first = str_index - 1 /\ last = str_index - 2 + width
    BY <2>1, <2>2, <2>3, <1>4
  <2> HIDE DEF a, b, width, skips, demands, more, first, last
  <2>6. str_index' = b + 1
    BY <1>5, <2>5
  <2>7. first \in Int /\ last \in Int /\ first = a /\ last = a + width - 1
    BY <1>5, <2>5
  <2>8. last < length + more
    BY <1>5, <2>4, <2>5, <2>7
  <2> HIDE DEF p, t
  <2> QED
    BY <1>6, <2>1, <2>6, <2>7, <2>8 DEF a, b, width, more
<1>9. CASE GiveUp
  <2>1. /\ next <= Len(format) /\ t # Literal /\ TooShort(t) /\ result' = "null"
        /\ UNCHANGED <<format, length, next, str_index, reads>>
    BY <1>9 DEF GiveUp
  <2>2. Demands(t) \in 2 .. Width(t)
    BY <2>1, TokenWidths
  <2> DEFINE demands == Demands(t)
  <2>3. str_index > length - 1 \/ length - (str_index - 1) < demands
    BY <2>1 DEF TooShort, AtTheEnd
  <2>4. length < b
    <3>1. demands \in Int /\ 2 <= demands /\ demands <= width /\ next <= Len(format)
      BY <2>1, <2>2, <1>4
    <3> HIDE DEF a, b, width, demands
    <3> QED
      BY <1>5, <2>3, <3>1
  <2>5. p[next + 1] <= p[Len(format) + 1] /\ p[next + 1] \in Nat /\ p[Len(format) + 1] \in Nat
    <3>1. next + 1 \in 1 .. MaxTokens + 1 /\ Len(format) + 1 \in next + 1 .. MaxTokens + 1
      BY <1>1, <2>1
    <3> QED
      BY <1>1, <3>1, PlacesInOrder
  <2>6. TextLength(format) = p[Len(format) + 1]
    BY <1>1, TextEnds
  <2>7. length < TextLength(format)
    BY <1>1, <2>4, <2>5, <2>6
  <2>8. TextLength(format)' = TextLength(format)
    BY <2>1 DEF TextLength, Width, Literal
  <2> HIDE DEF p, t
  <2> QED
    BY <2>1, <2>7, <2>8 DEF ReadSoFar
<1>12. CASE Throw
  <2>1. /\ next <= Len(format) /\ ~TooShort(t) /\ Wraps /\ result' = "throws"
        /\ UNCHANGED <<format, length, next, str_index, reads>>
    BY <1>12 DEF Throw
  <2>2. ~(length > 0 /\ a + 1 > length - 1) /\ a > length /\ 0 <= length
    <3>1. ~AtTheEnd /\ Wraps
      BY <2>1 DEF TooShort
    <3>2. 0 <= length
      BY DEF ReadSoFar
    <3> HIDE DEF a
    <3> QED BY <1>5, <3>1, <3>2 DEF AtTheEnd, Wraps
  <2>3. length = 0 /\ a > 0
    <3> HIDE DEF a
    <3> QED BY <1>5, <2>2
  <2>4. p[1] = 0
    BY <1>1, PlaceStep
  <2>5. next > 1
    <3>1. next # 1
      BY <2>3, <2>4
    <3> QED BY <1>1, <3>1
  <2>6. TextLength(format)' = TextLength(format)
    BY <2>1 DEF TextLength, Width, Literal
  <2> HIDE DEF p, t
  <2> QED
    BY <2>1, <2>3, <2>5, <2>6 DEF ReadSoFar
<1>10. CASE Finish
  <2>1. result' = "read" /\ UNCHANGED <<format, length, next, str_index, reads>>
    BY <1>10 DEF Finish
  <2> QED
    BY <2>1 DEF ReadSoFar
<1>11. CASE UNCHANGED formatVars
  <2>1. UNCHANGED <<format, length, next, str_index, reads, result>>
    BY <1>11 DEF formatVars
  <2>2. TextLength(format)' = TextLength(format)
    BY <2>1 DEF TextLength, Width, Literal
  <2> QED
    BY <2>1, <2>2 DEF ReadSoFar
<1> QED
  BY <1>7, <1>8, <1>9, <1>10, <1>11, <1>12 DEF ScanNext

(***************************************************************************)
(* Every format of any length, and any text: from_string_compact() reads a *)
(* field where it was printed, gives up only on a text that is too short,  *)
(* and throws only for an empty one.                                       *)
(***************************************************************************)
THEOREM ReadsWhatWasPrintedCorrect == ScanSpec => []ReadsWhatWasPrinted
<1>1. ScanInit => ReadSoFar
  BY ReadInit, TokensAssumption
<1>2. ReadSoFar => ReadsWhatWasPrinted
  <2> SUFFICES ASSUME ReadSoFar PROVE ReadsWhatWasPrinted
    OBVIOUS
  <2>1. DOMAIN reads = 1 .. next - 1
    BY DEF ReadSoFar
  <2>2. PlaceOf(format) = Place
    BY DEF PlaceOf, Place
  <2>3. ASSUME result = "throws" PROVE length = 0 /\ format[1] = Literal
    <3>1. length = 0 /\ next > 1 /\ next \in Int
      BY <2>3 DEF ReadSoFar
    <3> SUFFICES ASSUME format[1] # Literal PROVE FALSE
      BY <3>1
    <3> DEFINE width == Width(format[1])
               more == IF format[1] \in {"Y", "L"} THEN 1 ELSE 0
    <3>2. 1 \in 1 .. next - 1
      BY <3>1
    <3>3. /\ reads[1] = <<PlaceOf(format)[1], PlaceOf(format)[1] + Width(format[1]) - 1>>
          /\ reads[1][2] < length + (IF format[1] \in {"Y", "L"} THEN 1 ELSE 0)
      BY <3>2 DEF ReadSoFar
    <3>4. PlaceOf(format)[1] = 0
      BY TokensAssumption, PlaceStep
    <3>5. Demands(format[1]) \in 2 .. Width(format[1]) /\ Width(format[1]) \in Nat \ {0}
      BY TokenWidths
    <3>6. width \in Nat /\ 2 <= width /\ more \in {0, 1} /\ 0 + width - 1 < 0 + more
      BY <3>1, <3>3, <3>4, <3>5
    <3> HIDE DEF width, more
    <3> QED BY <3>6
  <2> QED
    BY <2>1, <2>2, <2>3 DEF ReadSoFar, ReadsWhatWasPrinted
<1> QED
  BY <1>1, <1>2, ReadNext, PTL DEF ScanSpec
=============================================================================
