----------------------------- MODULE DateProofs -----------------------------
(***************************************************************************)
(* Theorems of CalendarDates, DateParsing and DateFormats, for every day   *)
(* and every written date: the two directions of the calendar are          *)
(* inverses, ranges and periods hold the days they are asked for, the week *)
(* of a choice of days is chosen, createCalendarDate is exact, a written   *)
(* date is read as that date or refused, a field of segments reads what it *)
(* shows and shows what is typed, and a moment is the same moment in every *)
(* form it is written in.                                                  *)
(*                                                                         *)
(* The calendar counts its years from March, within an era of 400 years.   *)
(* Months are counted by one index, 12 * year + month, and FirstOfMonth,   *)
(* the day a month begins on, ascends with it: a day has one month.        *)
(***************************************************************************)
EXTENDS DateFormats, FiniteSetTheorems, FunctionTheorems, SequenceTheorems, WellFoundedInduction, TLAPS

-----------------------------------------------------------------------------
(* Years that begin in March *)

\* The days of the years before year, from the March of year 0.
DaysBeforeYear(year) == 365 * year + year \div 4 - year \div 100 + year \div 400
\* The year of a day of an era of 400 years.
YearOfEraDay(day) == (day - day \div 1460 + day \div 36524 - day \div 146096) \div 365
\* The days of a year before its month, counted from March.
DaysBeforeMonth(month) == (153 * month + 2) \div 5

\* The year of a day of an era: its days are from the first one of that year to the last.
LEMMA YearHoldsDay ==
  ASSUME NEW n \in Int, 0 <= n, n <= 146096
  PROVE  /\ YearOfEraDay(n) \in Int /\ 0 <= YearOfEraDay(n) /\ YearOfEraDay(n) <= 399
         /\ DaysBeforeYear(YearOfEraDay(n)) <= n /\ n < DaysBeforeYear(YearOfEraDay(n) + 1)
<1>1. CASE n = 146096
  BY SMT, <1>1 DEF YearOfEraDay, DaysBeforeYear
<1>2. CASE n < 146096
  <2>1. PICK c \in 0 .. 3, r \in Nat : r <= 36523 /\ n = 36524 * c + r
    <3>1. /\ n \div 36524 \in 0 .. 3
          /\ n - 36524 * (n \div 36524) \in Nat /\ n - 36524 * (n \div 36524) <= 36523
      BY SMT, <1>2
    <3>. QED BY SMT, <3>1
  <2>2. PICK a \in 0 .. 24, s \in Nat : s <= 1460 /\ r = 1461 * a + s
    <3>1. r \div 1461 \in 0 .. 24 /\ r - 1461 * (r \div 1461) \in Nat /\ r - 1461 * (r \div 1461) <= 1460
      BY SMT, <2>1
    <3>. QED BY SMT, <3>1
  <2>3. PICK b \in 0 .. 3, d \in Nat : d <= 365 /\ s = 365 * b + d /\ (b < 3 => d < 365)
    <3>1. CASE s = 1460
      BY SMT, <3>1
    <3>2. CASE s < 1460
      <4>1. s \div 365 \in 0 .. 3 /\ s - 365 * (s \div 365) \in Nat /\ s - 365 * (s \div 365) <= 364
        BY SMT, <3>2
      <4>. QED BY SMT, <4>1
    <3>. QED BY SMT, <2>2, <3>1, <3>2
  <2> DEFINE year == 100 * c + 4 * a + b
  <2>4. year \in Int /\ 0 <= year /\ year <= 399
    BY SMT
  <2>5. n = 36524 * c + 1461 * a + 365 * b + d
    BY SMT, <2>1, <2>2, <2>3
  <2>6. n \div 36524 = c /\ n \div 146096 = 0
    BY SMT, <1>2, <2>1
  <2>7. n \div 1460 = 25 * c + a + (IF 24 * c + a + 365 * b + d >= 1460 THEN 1 ELSE 0)
    <3>1. n = 1460 * (25 * c + a) + (24 * c + a + 365 * b + d)
      BY SMT, <2>5
    <3>2. 24 * c + a + 365 * b + d \in Nat /\ 24 * c + a + 365 * b + d <= 2919
      BY SMT, <2>3
    <3>. QED BY SMT, <3>1, <3>2
  <2>8. YearOfEraDay(n) = year
    BY SMT, <2>3, <2>5, <2>6, <2>7 DEF YearOfEraDay
  <2>9. year \div 4 = 25 * c + a /\ year \div 100 = c /\ year \div 400 = 0
    BY SMT
  <2>10. DaysBeforeYear(year) = 36524 * c + 1461 * a + 365 * b
    BY SMT, <2>9 DEF DaysBeforeYear
  <2>11. DaysBeforeYear(year + 1) > n
    BY SMT, <1>2, <2>1, <2>3, <2>5 DEF DaysBeforeYear
  <2>. QED BY SMT, <2>4, <2>5, <2>8, <2>10, <2>11
<1>. QED BY SMT, <1>1, <1>2

\* The month of a day of a year.
LEMMA MonthHoldsDay ==
  ASSUME NEW n \in 0 .. 365
  PROVE  LET month == (5 * n + 2) \div 153
         IN  month \in 0 .. 11 /\ DaysBeforeMonth(month) <= n /\ n < DaysBeforeMonth(month + 1)
BY SMT DEF DaysBeforeMonth

\* A later year begins at least 365 days later for every year between.
LEMMA YearsAreLong ==
  ASSUME NEW x \in Int, NEW y \in Int, x <= y
  PROVE  DaysBeforeYear(x) + 365 * (y - x) <= DaysBeforeYear(y)
BY SMT DEF DaysBeforeYear

LEMMA EraIsWhole ==
  ASSUME NEW y \in Int, NEW era \in Int
  PROVE  DaysBeforeYear(y + 400 * era) = DaysBeforeYear(y) + 146097 * era
BY SMT DEF DaysBeforeYear

-----------------------------------------------------------------------------
(* Months *)

\* The day number of the first day of a month, months counted from January of year 0.
FirstOfMonth(k) == DayNumber(k \div 12, (k % 12) + 1, 1)

LEMMA FirstOfMonthIs ==
  ASSUME NEW k \in Int
  PROVE  /\ FirstOfMonth(k) = DaysBeforeYear((k - 2) \div 12) + DaysBeforeMonth((k - 2) % 12) - 719468
         /\ FirstOfMonth(k) \in Int
<1> DEFINE y == k \div 12  m == k % 12
<1>1. y \in Int /\ m \in 0 .. 11 /\ k = 12 * y + m
  BY SMT
<1>2. DayNumber(y, m + 1, 1) = DaysBeforeYear(IF m + 1 <= 2 THEN y - 1 ELSE y) + DaysBeforeMonth((m + 10) % 12) - 719468
  BY SMT, <1>1 DEF DayNumber, DaysBeforeYear, DaysBeforeMonth
<1>3. CASE m <= 1
  <2>1. (k - 2) \div 12 = y - 1 /\ (k - 2) % 12 = m + 10 /\ (m + 10) % 12 = m + 10
    BY SMT, <1>1, <1>3
  <2>. QED BY SMT, <1>1, <1>2, <1>3, <2>1 DEF FirstOfMonth, DaysBeforeYear, DaysBeforeMonth
<1>4. CASE m >= 2
  <2>1. (k - 2) \div 12 = y /\ (k - 2) % 12 = m - 2 /\ (m + 10) % 12 = m - 2
    BY SMT, <1>1, <1>4
  <2>. QED BY SMT, <1>1, <1>2, <1>4, <2>1 DEF FirstOfMonth, DaysBeforeYear, DaysBeforeMonth
<1>. QED BY SMT, <1>1, <1>3, <1>4

LEMMA FirstsAreDays == \A k \in Int : FirstOfMonth(k) \in Int
BY FirstOfMonthIs

\* A month has 28 to 31 days.
LEMMA MonthLength ==
  ASSUME NEW k \in Int
  PROVE  FirstOfMonth(k) + 28 <= FirstOfMonth(k + 1) /\ FirstOfMonth(k + 1) <= FirstOfMonth(k) + 31
<1> DEFINE y == (k - 2) \div 12  m == (k - 2) % 12
<1>1. y \in Int /\ m \in 0 .. 11
  BY SMT
<1>4. /\ FirstOfMonth(k) = DaysBeforeYear(y) + DaysBeforeMonth(m) - 719468
      /\ FirstOfMonth(k + 1) = DaysBeforeYear((k - 1) \div 12) + DaysBeforeMonth((k - 1) % 12) - 719468
  <2>1. k + 1 \in Int /\ (k + 1) - 2 = k - 1
    BY SMT
  <2>. QED BY SMT, <2>1, FirstOfMonthIs
<1>2. CASE m < 11
  <2>1. (k - 1) \div 12 = y /\ (k - 1) % 12 = m + 1
    BY SMT, <1>2
  <2>2. DaysBeforeMonth(m) + 28 <= DaysBeforeMonth(m + 1) /\ DaysBeforeMonth(m + 1) <= DaysBeforeMonth(m) + 31
    BY SMT, <1>1, <1>2 DEF DaysBeforeMonth
  <2>3. DaysBeforeYear(y) \in Int /\ DaysBeforeMonth(m) \in Int /\ DaysBeforeMonth(m + 1) \in Int
    BY SMT, <1>1 DEF DaysBeforeMonth, DaysBeforeYear
  <2>. HIDE DEF y, m
  <2>. QED BY SMT, <1>4, <2>1, <2>2, <2>3
<1>3. CASE m = 11
  <2>1. (k - 1) \div 12 = y + 1 /\ (k - 1) % 12 = 0
    BY SMT, <1>3
  <2>2. DaysBeforeYear(y + 1) \in 365 + DaysBeforeYear(y) .. 366 + DaysBeforeYear(y)
    BY SMT, <1>1 DEF DaysBeforeYear
  <2>3. DaysBeforeMonth(11) = 337 /\ DaysBeforeMonth(0) = 0 /\ DaysBeforeYear(y) \in Int
    BY SMT, <1>1 DEF DaysBeforeMonth, DaysBeforeYear
  <2>. HIDE DEF y, m
  <2>. QED BY SMT, <1>3, <1>4, <2>1, <2>2, <2>3
<1>. QED BY SMT, <1>1, <1>2, <1>3

\* A later month begins later.
LEMMA MonthsAreOrdered ==
  ASSUME NEW k \in Int, NEW l \in Int, k < l
  PROVE  FirstOfMonth(k + 1) <= FirstOfMonth(l)
<1> DEFINE x == (k - 1) \div 12  y == (l - 2) \div 12
<1>1. x \in Int /\ y \in Int /\ x <= y
  BY SMT
<1>4. /\ FirstOfMonth(l) = DaysBeforeYear(y) + DaysBeforeMonth((l - 2) % 12) - 719468
      /\ FirstOfMonth(k + 1) = DaysBeforeYear(x) + DaysBeforeMonth((k - 1) % 12) - 719468
  <2>1. k + 1 \in Int /\ (k + 1) - 2 = k - 1
    BY SMT
  <2>. QED BY SMT, <2>1, FirstOfMonthIs
<1>2. CASE x = y
  <2>1. (k - 1) % 12 <= (l - 2) % 12 /\ (k - 1) % 12 \in 0 .. 11 /\ (l - 2) % 12 \in 0 .. 11
    BY SMT, <1>2
  <2>2. DaysBeforeMonth((k - 1) % 12) <= DaysBeforeMonth((l - 2) % 12) /\ DaysBeforeYear(y) \in Int
        /\ DaysBeforeMonth((k - 1) % 12) \in Int /\ DaysBeforeMonth((l - 2) % 12) \in Int
    BY SMT, <1>1, <2>1 DEF DaysBeforeMonth, DaysBeforeYear
  <2>. HIDE DEF x, y
  <2>. QED BY SMT, <1>2, <1>4, <2>2
<1>3. CASE x < y
  <2>1. DaysBeforeYear(x) + 365 <= DaysBeforeYear(y)
    BY SMT, <1>1, <1>3, YearsAreLong DEF DaysBeforeYear
  <2>2. DaysBeforeMonth((k - 1) % 12) <= 337 /\ DaysBeforeMonth((l - 2) % 12) >= 0
    BY SMT DEF DaysBeforeMonth
  <2>. QED BY SMT, <1>1, <1>4, <2>1, <2>2 DEF DaysBeforeMonth, DaysBeforeYear
<1>. QED BY SMT, <1>1, <1>2, <1>3


\* Only one month holds a day.
LEMMA MonthIsOnlyOne ==
  ASSUME NEW k \in Int, NEW l \in Int, NEW n \in Int,
         FirstOfMonth(k) <= n, n < FirstOfMonth(k + 1), FirstOfMonth(l) <= n, n < FirstOfMonth(l + 1)
  PROVE  k = l
<1>1. FirstOfMonth(k) \in Int /\ FirstOfMonth(k + 1) \in Int /\ FirstOfMonth(l) \in Int /\ FirstOfMonth(l + 1) \in Int
  BY SMT, FirstOfMonthIs
<1>2. ~ k < l
  BY SMT, <1>1, MonthsAreOrdered
<1>3. ~ l < k
  BY SMT, <1>1, MonthsAreOrdered
<1>. QED BY SMT, <1>2, <1>3

\* The year and the month of a month counted from January of year 0.
LEMMA MonthParts ==
  ASSUME NEW y \in Int, NEW m \in 0 .. 11
  PROVE  (12 * y + m) \div 12 = y /\ (12 * y + m) % 12 = m
BY SMT

-----------------------------------------------------------------------------
(* The date of a day *)

MonthIndex(n) == 12 * CivilOf(n).year + CivilOf(n).month

\* The parts of a day number, as the platform computes them.
LEMMA CivilIs ==
  ASSUME NEW n \in Int
  PROVE  LET z == n + 719468
             inEra == z % 146097
             year == YearOfEraDay(inEra)
             dayOfYear == inEra - (365 * year + year \div 4 - year \div 100)
             month == (5 * dayOfYear + 2) \div 153
         IN  CivilOf(n) = [year |-> year + 400 * (z \div 146097) + (IF month >= 10 THEN 1 ELSE 0), month |-> (month + 2) % 12,
                           day |-> dayOfYear - DaysBeforeMonth(month) + 1]
BY DEF CivilOf, YearOfEraDay, DaysBeforeMonth

\* A day is a day of its month: the day number of its date is its own, and its day of the month is one of that month.
THEOREM DateOfDayIsIts ==
  ASSUME NEW n \in Int
  PROVE  /\ CivilOf(n).year \in Int /\ CivilOf(n).month \in 0 .. 11 /\ CivilOf(n).day \in 1 .. 31
         /\ DayNumber(CivilOf(n).year, CivilOf(n).month + 1, CivilOf(n).day) = n
         /\ FirstOfMonth(MonthIndex(n)) + CivilOf(n).day - 1 = n
         /\ n < FirstOfMonth(MonthIndex(n) + 1)
<1> DEFINE z == n + 719468
           era == z \div 146097
           inEra == z % 146097
           year == YearOfEraDay(inEra)
           dayOfYear == inEra - (365 * year + year \div 4 - year \div 100)
           month == (5 * dayOfYear + 2) \div 153
           k == 12 * (year + 400 * era) + month + 2
<1>1. era \in Int /\ inEra \in Int /\ 0 <= inEra /\ inEra <= 146096 /\ n + 719468 = 146097 * era + inEra
  BY SMT
<1>2. /\ year \in Int /\ 0 <= year /\ year <= 399
      /\ DaysBeforeYear(year) <= inEra /\ inEra < DaysBeforeYear(year + 1)
  <2>. HIDE DEF inEra
  <2>. QED BY SMT, <1>1, YearHoldsDay
<1>3. dayOfYear = inEra - DaysBeforeYear(year) /\ dayOfYear \in 0 .. 365
  <2>. HIDE DEF inEra, year
  <2>. QED BY SMT, <1>1, <1>2 DEF DaysBeforeYear
<1>4. month \in 0 .. 11 /\ DaysBeforeMonth(month) <= dayOfYear /\ dayOfYear < DaysBeforeMonth(month + 1)
  <2>. HIDE DEF dayOfYear
  <2>. QED BY <1>3, MonthHoldsDay
<1>5. CivilOf(n) = [year |-> year + 400 * era + (IF month >= 10 THEN 1 ELSE 0), month |-> (month + 2) % 12,
                    day |-> dayOfYear - DaysBeforeMonth(month) + 1]
  BY CivilIs
<1>. HIDE DEF z, era, inEra, year, dayOfYear, month
<1>6. CivilOf(n).year \in Int /\ CivilOf(n).month \in 0 .. 11 /\ CivilOf(n).day \in 1 .. 31
  BY SMT, <1>1, <1>2, <1>3, <1>4, <1>5 DEF DaysBeforeMonth
<1>7. MonthIndex(n) = k /\ k \in Int
  BY SMT, <1>1, <1>2, <1>4, <1>5 DEF MonthIndex
<1>8. (k - 2) \div 12 = year + 400 * era /\ (k - 2) % 12 = month
  BY SMT, <1>1, <1>2, <1>4
<1>9. FirstOfMonth(k) = DaysBeforeYear(year) + 146097 * era + DaysBeforeMonth(month) - 719468
  <2>1. FirstOfMonth(k) = DaysBeforeYear(year + 400 * era) + DaysBeforeMonth(month) - 719468
    <3>. HIDE DEF k
    <3>. QED BY SMT, <1>7, <1>8, FirstOfMonthIs
  <2>. QED BY SMT, <1>1, <1>2, <2>1, EraIsWhole
<1>10. FirstOfMonth(k) + CivilOf(n).day - 1 = n
  BY SMT, <1>1, <1>2, <1>3, <1>4, <1>5, <1>9 DEF DaysBeforeYear, DaysBeforeMonth
<1>11. n < FirstOfMonth(k + 1)
  <2>1. FirstOfMonth(k + 1) = DaysBeforeYear((k - 1) \div 12) + DaysBeforeMonth((k - 1) % 12) - 719468
    <3>. HIDE DEF k
    <3>1. k + 1 \in Int /\ (k + 1) - 2 = k - 1
      BY SMT, <1>7
    <3>. QED BY SMT, <1>7, <3>1, FirstOfMonthIs
  <2>2. CASE month < 11
    <3>1. (k - 1) \div 12 = year + 400 * era /\ (k - 1) % 12 = month + 1
      BY SMT, <1>1, <1>2, <1>4, <2>2
    <3>2. DaysBeforeYear(year + 400 * era) = DaysBeforeYear(year) + 146097 * era
      BY <1>1, <1>2, EraIsWhole
    <3>3. DaysBeforeYear(year) \in Int /\ DaysBeforeMonth(month + 1) \in Int
      BY SMT, <1>2, <1>4 DEF DaysBeforeYear, DaysBeforeMonth
    <3>. HIDE DEF k
    <3>. QED BY SMT, <1>1, <1>3, <1>4, <2>1, <3>1, <3>2, <3>3
  <2>3. CASE month = 11
    <3>1. (k - 1) \div 12 = (year + 1) + 400 * era /\ (k - 1) % 12 = 0
      BY SMT, <1>1, <1>2, <2>3
    <3>2. DaysBeforeYear((year + 1) + 400 * era) = DaysBeforeYear(year + 1) + 146097 * era
      <4>1. year + 1 \in Int
        BY SMT, <1>2
      <4>. QED BY <1>1, <4>1, EraIsWhole
    <3>3. DaysBeforeYear(year + 1) \in Int /\ DaysBeforeMonth(0) = 0
      BY SMT, <1>2 DEF DaysBeforeYear, DaysBeforeMonth
    <3>. HIDE DEF k
    <3>. QED BY SMT, <1>1, <1>2, <2>1, <3>1, <3>2, <3>3
  <2>. QED BY SMT, <1>4, <2>2, <2>3
<1>12. DayNumber(CivilOf(n).year, CivilOf(n).month + 1, CivilOf(n).day) = n
  <2>1. (MonthIndex(n) \div 12) = CivilOf(n).year /\ (MonthIndex(n) % 12) = CivilOf(n).month
    BY <1>6, MonthParts DEF MonthIndex
  <2>2. FirstOfMonth(MonthIndex(n)) = DayNumber(CivilOf(n).year, CivilOf(n).month + 1, 1)
    BY <2>1 DEF FirstOfMonth
  <2>3. \A y \in Int, m \in 0 .. 11, d \in Int : DayNumber(y, m + 1, d) = DayNumber(y, m + 1, 1) + d - 1
    BY SMT DEF DayNumber
  <2>4. DayNumber(CivilOf(n).year, CivilOf(n).month + 1, 1) \in Int
    BY SMT, <1>6 DEF DayNumber
  <2>. HIDE DEF k
  <2>5. DayNumber(CivilOf(n).year, CivilOf(n).month + 1, CivilOf(n).day) = FirstOfMonth(k) + CivilOf(n).day - 1
    <3>1. CivilOf(n).day \in Int
      BY <1>6
    <3>. QED BY SMTT(30), <1>6, <1>7, <2>2, <2>3, <3>1
  <2>. QED BY <1>10, <2>5
<1>. QED BY <1>6, <1>7, <1>10, <1>11, <1>12

\* A day of a month has the date of that month and day.
THEOREM DayOfDateIsIts ==
  ASSUME NEW k \in Int, NEW d \in Int, 1 <= d, FirstOfMonth(k) + d - 1 < FirstOfMonth(k + 1)
  PROVE  /\ CivilOf(FirstOfMonth(k) + d - 1) = [year |-> k \div 12, month |-> k % 12, day |-> d]
         /\ MonthIndex(FirstOfMonth(k) + d - 1) = k
<1> DEFINE n == FirstOfMonth(k) + d - 1
<1>1. n \in Int /\ FirstOfMonth(k) \in Int /\ FirstOfMonth(k) <= n /\ n < FirstOfMonth(k + 1)
  BY SMT, FirstsAreDays
<1>. HIDE DEF n
<1>2. CivilOf(n).year \in Int /\ CivilOf(n).month \in 0 .. 11 /\ CivilOf(n).day \in 1 .. 31
  BY <1>1, DateOfDayIsIts
<1>3. MonthIndex(n) \in Int
  BY SMT, <1>2 DEF MonthIndex
<1>4. FirstOfMonth(MonthIndex(n)) \in Int
  BY <1>3, FirstsAreDays
<1>5. FirstOfMonth(MonthIndex(n)) <= n /\ n < FirstOfMonth(MonthIndex(n) + 1)
  BY SMT, <1>1, <1>2, <1>4, DateOfDayIsIts
<1>6. MonthIndex(n) = k
  BY <1>1, <1>3, <1>5, MonthIsOnlyOne
<1>7. CivilOf(n).year = k \div 12 /\ CivilOf(n).month = k % 12
  BY <1>2, <1>6, MonthParts DEF MonthIndex
<1>8. CivilOf(n).day = d
  <2>1. n = FirstOfMonth(k) + CivilOf(n).day - 1
    BY <1>1, <1>6, DateOfDayIsIts
  <2>2. n = FirstOfMonth(k) + d - 1
    BY DEF n
  <2>. QED BY SMT, <1>1, <1>2, <2>1, <2>2
<1>9. CivilOf(n) = [year |-> CivilOf(n).year, month |-> CivilOf(n).month, day |-> CivilOf(n).day]
  <2>1. PICK y, m, e : CivilOf(n) = [year |-> y, month |-> m, day |-> e]
    BY <1>1, CivilIs
  <2>. QED BY <2>1
<1>. QED BY <1>6, <1>7, <1>8, <1>9 DEF n

-----------------------------------------------------------------------------
(* The operations on dates *)

\* The first day whose year the platform does not take for one of the 20th century.
FirstFullDay == FirstOfMonth(1200)

\* The first day of the next one.
NextFullYear == FirstOfMonth(1212)

LEMMA FullYears ==
  /\ FirstFullDay = DayNumber(100, 1, 1) /\ FirstFullDay \in Int
  /\ FirstOfMonth(1212) = DayNumber(101, 1, 1) /\ FirstOfMonth(1212) = FirstFullDay + 365
<1>1. 1200 \div 12 = 100 /\ 1200 % 12 = 0 /\ 1212 \div 12 = 101 /\ 1212 % 12 = 0
  BY SMT
<1>2. FirstFullDay = DayNumber(100, 1, 1) /\ FirstOfMonth(1212) = DayNumber(101, 1, 1)
  BY SMT, <1>1 DEF FirstFullDay, FirstOfMonth
<1>3. DayNumber(101, 1, 1) = DayNumber(100, 1, 1) + 365 /\ DayNumber(100, 1, 1) \in Int
  BY SMT DEF DayNumber
<1>. QED BY SMT, <1>2, <1>3

\* From that day on, the year of a day and the index of its month are those of no earlier one.
LEMMA LaterDaysAreFull ==
  ASSUME NEW k \in Int, NEW n \in Int, FirstOfMonth(k) <= n
  PROVE  MonthIndex(n) \in Int /\ k <= MonthIndex(n)
<1>1. CivilOf(n).year \in Int /\ CivilOf(n).month \in 0 .. 11 /\ n < FirstOfMonth(MonthIndex(n) + 1)
  BY DateOfDayIsIts
<1>2. MonthIndex(n) \in Int
  BY SMT, <1>1 DEF MonthIndex
<1>3. MonthIndex(n) < k => FirstOfMonth(MonthIndex(n) + 1) <= FirstOfMonth(k)
  BY <1>2, MonthsAreOrdered
<1>4. FirstOfMonth(MonthIndex(n) + 1) \in Int /\ FirstOfMonth(k) \in Int
  BY SMT, <1>2, FirstsAreDays
<1>. QED BY SMT, <1>1, <1>2, <1>3, <1>4

LEMMA FullYear ==
  ASSUME NEW n \in Int, FirstFullDay <= n
  PROVE  CivilOf(n).year \in Int /\ CivilOf(n).year \notin 0 .. 99
<1>1. CivilOf(n).year \in Int /\ CivilOf(n).month \in 0 .. 11
  BY DateOfDayIsIts
<1>2. 1200 <= MonthIndex(n)
  BY LaterDaysAreFull DEF FirstFullDay
<1>. QED BY SMT, <1>1, <1>2 DEF MonthIndex

\* The last second of a day.
LastSecond == DaySeconds - 1

LEMMA ShiftWithin ==
  ASSUME NEW n \in Int, NEW s \in Int, 0 <= s, s <= LastSecond
  PROVE  Shift(DateOf(n, 0), s) = DateOf(n, s)
BY SMT DEF Shift, DateOf, DaySeconds, LastSecond

\* What new Date(...) makes of a full year: a month or a day out of range carries over.
LEMMA NewDateIs ==
  ASSUME NEW y \in Int, y \notin 0 .. 99, NEW m \in Int, NEW d \in Int
  PROVE  /\ Midnight(y, m, d) = DateOf(FirstOfMonth(12 * y + m) + d - 1, 0)
         /\ NewDate(y, m, d, 23, 59, 59) = DateOf(FirstOfMonth(12 * y + m) + d - 1, LastSecond)
<1> DEFINE first == FirstOfMonth(12 * y + m)
<1>1. (12 * y + m) \div 12 = y + m \div 12 /\ (12 * y + m) % 12 = m % 12
  BY SMT
<1>2. first = DayNumber(y + m \div 12, (m % 12) + 1, 1)
  BY <1>1 DEF FirstOfMonth
<1>3. first \in Int
  BY SMT, FirstsAreDays
<1>4. /\ NewDate(y, m, d, 0, 0, 0) = Shift(DateOf(first + d - 1, 0), 0)
      /\ NewDate(y, m, d, 23, 59, 59) = Shift(DateOf(first + d - 1, 0), LastSecond)
  <2>. HIDE DEF first
  <2>. QED BY SMT, <1>2 DEF NewDate, LastSecond, DaySeconds
<1>5. first + d - 1 \in Int /\ 0 <= LastSecond /\ LastSecond \in Int
  <2>. HIDE DEF first
  <2>. QED BY SMT, <1>3 DEF LastSecond, DaySeconds
<1>. HIDE DEF first
<1>6. /\ Shift(DateOf(first + d - 1, 0), 0) = DateOf(first + d - 1, 0)
      /\ Shift(DateOf(first + d - 1, 0), LastSecond) = DateOf(first + d - 1, LastSecond)
  BY SMT, <1>5, ShiftWithin
<1>. QED BY <1>4, <1>6 DEF first, Midnight

LEMMA MidnightIs ==
  ASSUME NEW y \in Int, y \notin 0 .. 99, NEW m \in Int, NEW d \in Int
  PROVE  Midnight(y, m, d) = DateOf(FirstOfMonth(12 * y + m) + d - 1, 0)
BY NewDateIs

LEMMA DateParts ==
  ASSUME NEW n, NEW s
  PROVE  DateOf(n, s).day = n /\ DateOf(n, s).second = s
BY DEF DateOf

\* The operations of calendarDate.ts on a date of a full year.
LEMMA OperationsOnDays ==
  ASSUME NEW n \in Int, FirstFullDay <= n, NEW s
  PROVE  /\ GetStartOfDay(DateOf(n, s)) = DateOf(n, 0)
         /\ GetEndOfDay(DateOf(n, s)) = DateOf(n, LastSecond)
         /\ GetStartOfMonth(DateOf(n, s)) = DateOf(FirstOfMonth(MonthIndex(n)), 0)
         /\ GetStartOfYear(DateOf(n, s)) = DateOf(FirstOfMonth(12 * CivilOf(n).year), 0)
         /\ \A amount \in Int : AddCalendarDays(DateOf(n, s), amount) = DateOf(n + amount, 0)
         /\ \A amount \in Int : AddCalendarMonths(DateOf(n, s), amount) =
                                  DateOf(FirstOfMonth(MonthIndex(n) + amount) + CivilOf(n).day - 1, 0)
<1> DEFINE y == CivilOf(n).year  m == CivilOf(n).month  d == CivilOf(n).day
<1>1. /\ y \in Int /\ m \in Int /\ d \in Int /\ FirstOfMonth(MonthIndex(n)) + d - 1 = n
      /\ MonthIndex(n) = 12 * y + m /\ MonthIndex(n) \in Int
  BY SMT, DateOfDayIsIts DEF MonthIndex
<1>2. y \notin 0 .. 99
  BY FullYear
<1>3. Year(DateOf(n, s)) = y /\ Month(DateOf(n, s)) = m /\ DayOfMonth(DateOf(n, s)) = d
  BY DateParts DEF Year, Month, DayOfMonth
<1>. HIDE DEF y, m, d
<1>4. FirstOfMonth(MonthIndex(n)) \in Int
  BY <1>1, FirstsAreDays
<1>5. \A month \in Int, day \in Int :
         /\ Midnight(y, month, day) = DateOf(FirstOfMonth(12 * y + month) + day - 1, 0)
         /\ NewDate(y, month, day, 23, 59, 59) = DateOf(FirstOfMonth(12 * y + month) + day - 1, LastSecond)
  BY <1>1, <1>2, NewDateIs
<1>6. GetStartOfDay(DateOf(n, s)) = DateOf(n, 0)
  BY <1>1, <1>3, <1>5 DEF GetStartOfDay
<1>7. GetEndOfDay(DateOf(n, s)) = DateOf(n, LastSecond)
  BY <1>1, <1>3, <1>5 DEF GetEndOfDay
<1>8. GetStartOfMonth(DateOf(n, s)) = DateOf(FirstOfMonth(MonthIndex(n)), 0)
  BY SMT, <1>1, <1>3, <1>4, <1>5 DEF GetStartOfMonth
<1>9. GetStartOfYear(DateOf(n, s)) = DateOf(FirstOfMonth(12 * y), 0)
  <2>1. FirstOfMonth(12 * y) \in Int /\ 12 * y + 0 = 12 * y
    BY SMT, <1>1, FirstsAreDays
  <2>2. Midnight(y, 0, 1) = DateOf(FirstOfMonth(12 * y + 0) + 1 - 1, 0)
    BY SMT, <1>5
  <2>. QED BY SMT, <1>3, <2>1, <2>2 DEF GetStartOfYear
<1>10. ASSUME NEW amount \in Int
       PROVE  AddCalendarDays(DateOf(n, s), amount) = DateOf(n + amount, 0)
  <2>1. d + amount \in Int /\ FirstOfMonth(12 * y + m) + (d + amount) - 1 = n + amount
    BY SMT, <1>1, <1>4
  <2>. QED BY <1>1, <1>3, <1>5, <2>1 DEF AddCalendarDays
<1>11. ASSUME NEW amount \in Int
       PROVE  AddCalendarMonths(DateOf(n, s), amount) = DateOf(FirstOfMonth(MonthIndex(n) + amount) + d - 1, 0)
  <2>1. m + amount \in Int /\ 12 * y + (m + amount) = MonthIndex(n) + amount
    BY SMT, <1>1
  <2>. QED BY <1>1, <1>3, <1>5, <2>1 DEF AddCalendarMonths
<1>. QED BY <1>6, <1>7, <1>8, <1>9, <1>10, <1>11 DEF y, d

\* The days of a range whose ends are given in either order.
LEMMA RangeCount ==
  ASSUME NEW a \in Int, NEW b \in Int, FirstFullDay <= a, a <= b
  PROVE  CountCalendarDaysInDateRange(DateOf(b, LastSecond), DateOf(a, 0)) = b - a + 1
<1> DEFINE x == DateOf(b, LastSecond)  y == DateOf(a, 0)
<1>1. FirstFullDay \in Int /\ FirstFullDay <= b
  BY SMT, FullYears
<1>2. IsValidDate(x) /\ IsValidDate(y)
  BY SMT DEF IsValidDate, DateOf, LastSecond, DaySeconds
<1>3. OrderDates(x, y) = <<y, x>>
  <2>1. ~ AtOrBefore(x, y)
    BY SMT DEF AtOrBefore, DateOf, LastSecond, DaySeconds
  <2>. QED BY <2>1 DEF OrderDates
<1>4. ResolveDateRangePair(x, y) = <<y, x>>
  <2>. HIDE DEF x, y
  <2>. QED BY <1>2, <1>3 DEF ResolveDateRangePair
<1>5. <<y, x>> # NoRange
  BY SMT DEF NoRange, InvalidDate, DateOf
<1>6. NormalizeDateRange(x, y, "dayBounds") = <<DateOf(a, 0), DateOf(b, LastSecond)>>
  <2>1. GetStartOfDay(y) = DateOf(a, 0) /\ GetEndOfDay(x) = DateOf(b, LastSecond)
    BY <1>1, OperationsOnDays
  <2>. HIDE DEF x, y
  <2>. QED BY <1>4, <1>5, <2>1 DEF NormalizeDateRange
<1>. QED BY SMT, <1>6 DEF CountCalendarDaysInDateRange, DateOf

\* The relative ranges of every date from the year 101 on run from the start of a day to the end of a later or the
\* same one, at most a month, and none of them ends after today.
THEOREM RelativeRangesAreOrdered ==
  ASSUME NEW n \in Int, NEW s \in Nat, DayNumber(101, 1, 1) <= n
  PROVE  RangesAreOrdered(DateOf(n, s))
<1> DEFINE now == DateOf(n, s)
           first == FirstOfMonth(MonthIndex(n))
           ago == FirstOfMonth(MonthIndex(n) - 1) + CivilOf(n).day - 1
<1>1. FirstFullDay \in Int /\ FirstFullDay + 365 <= n /\ FirstFullDay <= n /\ FirstFullDay <= n - 1
  BY SMT, FullYears
<1>2. MonthIndex(n) \in Int /\ 1212 <= MonthIndex(n)
  BY SMT, FullYears, LaterDaysAreFull
<1>3. /\ CivilOf(n).day \in 1 .. 31 /\ first + CivilOf(n).day - 1 = n
      /\ n < FirstOfMonth(MonthIndex(n) + 1)
  BY DateOfDayIsIts
<1>4. first \in Int /\ FirstFullDay <= first
  <2>1. FirstOfMonth(1200 + 1) <= first /\ FirstOfMonth(1200) + 28 <= FirstOfMonth(1200 + 1)
    BY SMTT(30), <1>2, MonthsAreOrdered, MonthLength
  <2>2. first \in Int /\ FirstOfMonth(1200) \in Int /\ FirstOfMonth(1200 + 1) \in Int
    BY SMT, <1>2, FirstsAreDays
  <2>. HIDE DEF first
  <2>. QED BY SMT, <2>1, <2>2 DEF FirstFullDay
<1>5. ago \in n - 31 .. n - 28 /\ FirstFullDay <= ago
  <2>1. FirstOfMonth(MonthIndex(n) - 1) \in Int
    BY SMT, <1>2, FirstsAreDays
  <2>2. MonthIndex(n) - 1 \in Int /\ (MonthIndex(n) - 1) + 1 = MonthIndex(n)
    BY SMT, <1>2
  <2>3. FirstOfMonth(MonthIndex(n) - 1) + 28 <= first /\ first <= FirstOfMonth(MonthIndex(n) - 1) + 31
    BY <2>2, MonthLength
  <2>. HIDE DEF first
  <2>. QED BY SMT, <1>1, <1>3, <1>4, <2>1, <2>3
<1>. HIDE DEF first, ago
<1>6. n - first \in 0 .. 30
  BY SMT, <1>3, <1>4
<1> DEFINE Whole(a, b) == <<DateOf(a, 0), DateOf(b, LastSecond)>>
<1>7. ASSUME NEW a \in Int, NEW b \in Int, FirstFullDay <= a, a <= b, b <= n, b - a <= 31, NEW range, range = Whole(a, b)
      PROVE  /\ range[1].second = 0 /\ range[2].second = DaySeconds - 1
             /\ range[1].day <= range[2].day /\ range[2].day <= now.day
             /\ CountCalendarDaysInDateRange(range[2], range[1]) \in 1 .. 32
  <2>1. range[1] = DateOf(a, 0) /\ range[2] = DateOf(b, LastSecond)
    BY <1>7
  <2>2. CountCalendarDaysInDateRange(range[2], range[1]) = b - a + 1
    BY <1>7, <2>1, RangeCount
  <2>3. b - a + 1 \in 1 .. 32
    BY SMT, <1>7
  <2>. QED BY SMT, <1>7, <2>1, <2>2, <2>3 DEF DateOf, DaySeconds, LastSecond
<1>8. \A m \in Int : \A t : FirstFullDay <= m =>
         /\ GetStartOfDay(DateOf(m, t)) = DateOf(m, 0)
         /\ GetEndOfDay(DateOf(m, t)) = DateOf(m, LastSecond)
  BY OperationsOnDays
<1>9. GetStartOfDay(now) = DateOf(n, 0)
  BY <1>1, <1>8
<1>10. /\ GetStartOfMonth(DateOf(n, 0)) = DateOf(first, 0)
       /\ AddCalendarDays(DateOf(n, 0), -1) = DateOf(n - 1, 0)
       /\ AddCalendarMonths(DateOf(n, 0), -1) = DateOf(ago, 0)
  <2>1. -1 \in Int /\ n + (-1) = n - 1 /\ MonthIndex(n) + (-1) = MonthIndex(n) - 1
    BY SMT, <1>2
  <2>2. /\ GetStartOfMonth(DateOf(n, 0)) = DateOf(FirstOfMonth(MonthIndex(n)), 0)
        /\ AddCalendarDays(DateOf(n, 0), -1) = DateOf(n + (-1), 0)
        /\ AddCalendarMonths(DateOf(n, 0), -1) = DateOf(FirstOfMonth(MonthIndex(n) + (-1)) + CivilOf(n).day - 1, 0)
    BY <1>1, <2>1, OperationsOnDays
  <2>. QED BY <2>1, <2>2 DEF first, ago
<1>11. ResolveTodayRange(now) = Whole(n, n)
  BY <1>1, <1>8, <1>9 DEF ResolveTodayRange
<1>12. ResolveMonthStartToTodayRange(now) = Whole(first, n)
  BY <1>1, <1>8, <1>9, <1>10 DEF ResolveMonthStartToTodayRange
<1>13. ResolveYesterdayRange(now) = Whole(n - 1, n - 1)
  BY <1>1, <1>8, <1>9, <1>10 DEF ResolveYesterdayRange
<1>14. ResolveMonthAgoRange(now) = Whole(ago, n)
  BY <1>1, <1>5, <1>8, <1>9, <1>10 DEF ResolveMonthAgoRange
<1>15. ResolveMonthStartToYesterdayRange(now) = Whole(first, IF n - 1 < first THEN first ELSE n - 1)
  <2>1. Before(DateOf(n - 1, 0), DateOf(first, 0)) <=> n - 1 < first
    BY SMT, <1>4 DEF Before, AtOrBefore, DateOf
  <2>. QED BY <1>1, <1>4, <1>8, <1>9, <1>10, <2>1 DEF ResolveMonthStartToYesterdayRange
<1>16. n - 1 \in Int /\ ago \in Int /\ n - ago <= 31 /\ ago <= n /\ n - first <= 31 /\ first <= n
  BY SMT, <1>4, <1>5, <1>6
<1>. HIDE DEF now, Whole
<1>17. SUFFICES ASSUME NEW range \in {ResolveMonthStartToYesterdayRange(now), ResolveMonthStartToTodayRange(now),
                                       ResolveTodayRange(now), ResolveYesterdayRange(now), ResolveMonthAgoRange(now)}
       PROVE  /\ range[1].second = 0 /\ range[2].second = DaySeconds - 1
              /\ range[1].day <= range[2].day /\ range[2].day <= now.day
              /\ CountCalendarDaysInDateRange(range[2], range[1]) \in 1 .. 32
  BY DEF RangesAreOrdered, now
<1>18. PICK a \in Int, b \in Int : FirstFullDay <= a /\ a <= b /\ b <= n /\ b - a <= 31 /\ range = Whole(a, b)
  <2>1. CASE range = ResolveMonthStartToYesterdayRange(now)
    <3>1. CASE n - 1 < first
      <4>1. first <= first /\ first - first <= 31
        BY SMT, <1>4
      <4>. QED BY <1>4, <1>15, <1>16, <2>1, <3>1, <4>1
    <3>2. CASE ~ n - 1 < first
      <4>1. first <= n - 1 /\ n - 1 <= n /\ (n - 1) - first <= 31
        BY SMT, <1>4, <1>16, <3>2
      <4>. QED BY <1>4, <1>15, <1>16, <2>1, <3>2, <4>1
    <3>. QED BY <3>1, <3>2
  <2>2. CASE range = ResolveMonthStartToTodayRange(now)
    <3>1. n <= n
      BY SMT
    <3>. QED BY <1>4, <1>12, <1>16, <2>2, <3>1
  <2>3. CASE range = ResolveTodayRange(now)
    <3>1. n <= n /\ n - n <= 31
      BY SMT
    <3>. QED BY <1>1, <1>11, <2>3, <3>1
  <2>4. CASE range = ResolveYesterdayRange(now)
    <3>1. n - 1 <= n - 1 /\ n - 1 <= n /\ (n - 1) - (n - 1) <= 31
      BY SMT
    <3>. QED BY <1>1, <1>13, <1>16, <2>4, <3>1
  <2>5. CASE range = ResolveMonthAgoRange(now)
    <3>1. n <= n
      BY SMT
    <3>. QED BY <1>5, <1>14, <1>16, <2>5, <3>1
  <2>. QED BY <1>17, <2>1, <2>2, <2>3, <2>4, <2>5
<1>. QED BY <1>7, <1>18

-----------------------------------------------------------------------------
(* The periods of a calendar *)

\* The first and the last day of the period of a day, and the first one after it.
FirstDay(n, mode) ==
  CASE mode = "day" -> n
    [] mode = "week" -> n - ((n + 3) % 7)
    [] mode = "month" -> FirstOfMonth(MonthIndex(n))
    [] mode = "year" -> FirstOfMonth(12 * CivilOf(n).year)
NextPeriod(n, mode) ==
  CASE mode = "day" -> n + 1
    [] mode = "week" -> FirstDay(n, "week") + 7
    [] mode = "month" -> FirstOfMonth(MonthIndex(n) + 1)
    [] mode = "year" -> FirstOfMonth(12 * (CivilOf(n).year + 1))
LastDay(n, mode, weekEndDay) ==
  NextPeriod(n, mode) - (IF mode = "week" THEN 7 - WeekEndDayOffsets[weekEndDay] ELSE 1)

Modes == {"day", "week", "month", "year"}

LEMMA WeekEndDays ==
  ASSUME NEW weekEndDay \in DOMAIN WeekEndDayOffsets
  PROVE  WeekEndDayOffsets[weekEndDay] \in 4 .. 6
BY DEF WeekEndDayOffsets

\* A day is of one year only.
LEMMA YearIsOnlyOne ==
  ASSUME NEW y \in Int, NEW n \in Int
  PROVE  FirstOfMonth(12 * y) <= n /\ n < FirstOfMonth(12 * (y + 1)) <=> CivilOf(n).year = y
<1> DEFINE k == MonthIndex(n)
<1>1. /\ CivilOf(n).year \in Int /\ CivilOf(n).month \in 0 .. 11 /\ CivilOf(n).day \in 1 .. 31
      /\ FirstOfMonth(k) + CivilOf(n).day - 1 = n /\ n < FirstOfMonth(k + 1)
  BY DateOfDayIsIts
<1>2. k \in Int /\ k = 12 * CivilOf(n).year + CivilOf(n).month
  BY SMT, <1>1 DEF MonthIndex
<1>. HIDE DEF k
<1>3. \A m \in Int : FirstOfMonth(m) \in Int
  BY FirstsAreDays
<1>4. FirstOfMonth(k) <= n
  <2>1. FirstOfMonth(k) \in Int
    BY <1>2, <1>3
  <2>. QED BY SMT, <1>1, <2>1
<1>5. 12 * y \in Int /\ 12 * (y + 1) \in Int /\ k + 1 \in Int
  BY SMT, <1>2
<1>6. FirstOfMonth(12 * y) \in Int /\ FirstOfMonth(12 * (y + 1)) \in Int /\ FirstOfMonth(k) \in Int /\ FirstOfMonth(k + 1) \in Int
  BY <1>2, <1>3, <1>5
<1>7. ASSUME NEW l \in Int
      PROVE  FirstOfMonth(l) <= n <=> l <= k
  <2>1. k < l => FirstOfMonth(k + 1) <= FirstOfMonth(l)
    BY <1>2, MonthsAreOrdered
  <2>2. l < k => FirstOfMonth(l + 1) <= FirstOfMonth(k) /\ FirstOfMonth(l) + 28 <= FirstOfMonth(l + 1)
    BY <1>2, MonthsAreOrdered, MonthLength
  <2>3. FirstOfMonth(l) \in Int /\ FirstOfMonth(l + 1) \in Int
    BY SMT, <1>3
  <2>. QED BY SMT, <1>1, <1>2, <1>4, <1>6, <2>1, <2>2, <2>3
<1>8. FirstOfMonth(12 * y) <= n <=> 12 * y <= k
  BY <1>5, <1>7
<1>9. n < FirstOfMonth(12 * (y + 1)) <=> k < 12 * (y + 1)
  <2>1. FirstOfMonth(12 * (y + 1)) <= n <=> 12 * (y + 1) <= k
    BY <1>5, <1>7
  <2>. QED BY SMT, <1>2, <1>5, <1>6, <2>1
<1>. QED BY SMT, <1>1, <1>2, <1>8, <1>9

LEMMA PeriodBounds ==
  ASSUME NEW n \in Int, NEW mode \in Modes
  PROVE  /\ FirstDay(n, mode) \in Int /\ NextPeriod(n, mode) \in Int
         /\ FirstDay(n, mode) <= n /\ n < NextPeriod(n, mode)
         /\ mode = "week" => NextPeriod(n, mode) = FirstDay(n, mode) + 7
<1>1. CASE mode = "day"
  BY SMT, <1>1 DEF FirstDay, NextPeriod
<1>2. CASE mode = "week"
  BY SMT, <1>2 DEF FirstDay, NextPeriod
<1>3. CASE mode = "month"
  <2>1. /\ MonthIndex(n) \in Int /\ CivilOf(n).day \in 1 .. 31 
        /\ FirstOfMonth(MonthIndex(n)) + CivilOf(n).day - 1 = n /\ n < FirstOfMonth(MonthIndex(n) + 1)
    BY SMT, DateOfDayIsIts DEF MonthIndex
  <2>2. FirstOfMonth(MonthIndex(n)) \in Int /\ FirstOfMonth(MonthIndex(n) + 1) \in Int
    BY SMT, <2>1, FirstsAreDays
  <2>3. FirstDay(n, mode) = FirstOfMonth(MonthIndex(n)) /\ NextPeriod(n, mode) = FirstOfMonth(MonthIndex(n) + 1)
    BY <1>3 DEF FirstDay, NextPeriod
  <2>. QED BY SMT, <1>3, <2>1, <2>2, <2>3
<1>4. CASE mode = "year"
  <2>1. CivilOf(n).year \in Int
    BY DateOfDayIsIts
  <2>2. FirstOfMonth(12 * CivilOf(n).year) <= n /\ n < FirstOfMonth(12 * (CivilOf(n).year + 1))
    BY <2>1, YearIsOnlyOne
  <2>3. 12 * CivilOf(n).year \in Int /\ 12 * (CivilOf(n).year + 1) \in Int
    BY SMT, <2>1
  <2>4. FirstDay(n, mode) = FirstOfMonth(12 * CivilOf(n).year) /\ NextPeriod(n, mode) = FirstOfMonth(12 * (CivilOf(n).year + 1))
    BY <1>4 DEF FirstDay, NextPeriod
  <2>. QED BY <1>4, <2>2, <2>3, <2>4, FirstsAreDays
<1>. QED BY <1>1, <1>2, <1>3, <1>4 DEF Modes

\* Weeks begin on a Monday, the first day of January 1970 being a Thursday.
LEMMA MondayIsFirst ==
  ASSUME NEW n \in Int
  PROVE  n - ((n + 3) % 7) \in Int /\ (n - ((n + 3) % 7) + 3) % 7 = 0
<1>1. PICK week \in Int, r \in 0 .. 6 : n + 3 = 7 * week + r /\ (n + 3) % 7 = r
  <2>1. (n + 3) \div 7 \in Int /\ (n + 3) % 7 \in 0 .. 6 /\ n + 3 = 7 * ((n + 3) \div 7) + ((n + 3) % 7)
    BY SMT
  <2>. QED BY <2>1
<1>2. n - r + 3 = 7 * week
  BY SMT, <1>1
<1>3. (7 * week) % 7 = 0
  BY SMT
<1>. QED BY SMT, <1>1, <1>2, <1>3

LEMMA SameMonday ==
  ASSUME NEW n \in Int, NEW d \in Int, n - ((n + 3) % 7) <= d, d < n - ((n + 3) % 7) + 7
  PROVE  d - ((d + 3) % 7) = n - ((n + 3) % 7)
<1> DEFINE monday == n - ((n + 3) % 7)
<1>1. monday \in Int /\ (monday + 3) % 7 = 0 /\ monday <= d /\ d < monday + 7
  BY MondayIsFirst
<1>. HIDE DEF monday
<1>2. (d + 3) % 7 = d - monday
  BY SMT, <1>1
<1>3. d - ((d + 3) % 7) = monday
  BY SMT, <1>1, <1>2
<1>. QED BY <1>3 DEF monday

\* The days of a period have that period, and the day after it begins the next one.
LEMMA PeriodIsShared ==
  ASSUME NEW n \in Int, NEW mode \in Modes, NEW d \in Int, FirstDay(n, mode) <= d, d < NextPeriod(n, mode), mode # "day"
  PROVE  FirstDay(d, mode) = FirstDay(n, mode) /\ NextPeriod(d, mode) = NextPeriod(n, mode)
<1>2. CASE mode = "week"
  <2>1. FirstDay(n, mode) = n - ((n + 3) % 7) /\ FirstDay(n, mode) <= d /\ d < FirstDay(n, mode) + 7
    BY <1>2, PeriodBounds DEF FirstDay
  <2>2. d - ((d + 3) % 7) = n - ((n + 3) % 7)
    BY <2>1, SameMonday
  <2>3. FirstDay(d, mode) = FirstDay(n, mode)
    BY <1>2, <2>2 DEF FirstDay
  <2>. QED BY <1>2, <2>3, PeriodBounds
<1>3. CASE mode = "month"
  <2>1. MonthIndex(n) \in Int
    BY SMT, DateOfDayIsIts DEF MonthIndex
  <2>2. /\ MonthIndex(d) \in Int /\ CivilOf(d).day \in 1 .. 31 
        /\ FirstOfMonth(MonthIndex(d)) + CivilOf(d).day - 1 = d /\ d < FirstOfMonth(MonthIndex(d) + 1)
    BY SMT, DateOfDayIsIts DEF MonthIndex
  <2>3. FirstOfMonth(MonthIndex(d)) \in Int
    BY <2>2, FirstsAreDays
  <2>4. FirstOfMonth(MonthIndex(d)) <= d
    BY SMT, <2>2, <2>3
  <2>5. FirstOfMonth(MonthIndex(n)) <= d /\ d < FirstOfMonth(MonthIndex(n) + 1)
    BY <1>3 DEF FirstDay, NextPeriod
  <2>6. MonthIndex(d) = MonthIndex(n)
    BY <2>1, <2>2, <2>4, <2>5, MonthIsOnlyOne
  <2>. QED BY <1>3, <2>6 DEF FirstDay, NextPeriod
<1>4. CASE mode = "year"
  <2>1. CivilOf(n).year \in Int
    BY DateOfDayIsIts
  <2>2. FirstOfMonth(12 * CivilOf(n).year) <= d /\ d < FirstOfMonth(12 * (CivilOf(n).year + 1))
    BY <1>4 DEF FirstDay, NextPeriod
  <2>3. CivilOf(d).year = CivilOf(n).year
    BY <2>1, <2>2, YearIsOnlyOne
  <2>. QED BY <1>4, <2>3 DEF FirstDay, NextPeriod
<1>. QED BY <1>2, <1>3, <1>4 DEF Modes

LEMMA NextPeriodFollows ==
  ASSUME NEW n \in Int, NEW mode \in Modes
  PROVE  FirstDay(NextPeriod(n, mode), mode) = NextPeriod(n, mode)
<1>1. CASE mode = "day"
  BY <1>1 DEF FirstDay
<1>2. CASE mode = "week"
  <2> DEFINE monday == n - ((n + 3) % 7)  next == NextPeriod(n, mode)
  <2>1. monday \in Int /\ (monday + 3) % 7 = 0 /\ next = monday + 7
    BY SMT, <1>2, MondayIsFirst DEF NextPeriod, FirstDay
  <2>. HIDE DEF monday, next
  <2>2. next \in Int /\ (next + 3) % 7 = 0
    BY SMT, <2>1
  <2>3. next - ((next + 3) % 7) = next
    BY SMT, <2>2
  <2>. QED BY <1>2, <2>3 DEF FirstDay, next
<1>3. CASE mode = "month"
  <2> DEFINE k == MonthIndex(n) + 1
  <2>1. k \in Int
    BY SMT, DateOfDayIsIts DEF MonthIndex
  <2>. HIDE DEF k
  <2>2. FirstOfMonth(k) \in Int /\ FirstOfMonth(k + 1) \in Int /\ FirstOfMonth(k) + 28 <= FirstOfMonth(k + 1)
    BY SMT, <2>1, FirstsAreDays, MonthLength
  <2>3. FirstOfMonth(k) + 1 - 1 = FirstOfMonth(k) /\ FirstOfMonth(k) + 1 - 1 < FirstOfMonth(k + 1)
    BY SMT, <2>2
  <2>4. MonthIndex(FirstOfMonth(k) + 1 - 1) = k
    <3>1. 1 \in Int /\ 1 <= 1
      BY SMT
    <3>. QED BY <2>1, <2>3, <3>1, DayOfDateIsIts
  <2>5. MonthIndex(FirstOfMonth(k)) = k
    BY <2>3, <2>4
  <2>. QED BY <1>3, <2>5 DEF FirstDay, NextPeriod, k
<1>4. CASE mode = "year"
  <2> DEFINE y == CivilOf(n).year + 1
  <2>1. y \in Int
    BY SMT, DateOfDayIsIts
  <2>. HIDE DEF y
  <2>2. FirstOfMonth(12 * y) \in Int /\ FirstOfMonth(12 * (y + 1)) \in Int
    BY SMT, <2>1, FirstsAreDays
  <2>3. FirstOfMonth(12 * y) < FirstOfMonth(12 * (y + 1))
    <3>1. 12 * y \in Int /\ 12 * (y + 1) \in Int /\ 12 * y < 12 * (y + 1) /\ FirstOfMonth(12 * y + 1) \in Int
      BY SMT, <2>1, FirstsAreDays
    <3>2. FirstOfMonth(12 * y) + 28 <= FirstOfMonth(12 * y + 1) /\ FirstOfMonth(12 * y + 1) <= FirstOfMonth(12 * (y + 1))
      BY <3>1, MonthLength, MonthsAreOrdered
    <3>. QED BY SMT, <2>2, <3>1, <3>2
  <2>4. CivilOf(FirstOfMonth(12 * y)).year = y
    <3>1. FirstOfMonth(12 * y) <= FirstOfMonth(12 * y)
      BY SMT, <2>2
    <3>. QED BY <2>1, <2>2, <2>3, <3>1, YearIsOnlyOne
  <2>. QED BY <1>4, <2>4 DEF FirstDay, NextPeriod, y
<1>. QED BY <1>1, <1>2, <1>3, <1>4 DEF Modes

\* The period of a date, from the start of its first day to the end of its last.
LEMMA PeriodIs ==
  ASSUME NEW n \in Int, FirstFullDay + 7 <= n, NEW s \in Nat, NEW mode \in Modes, NEW weekEndDay \in DOMAIN WeekEndDayOffsets
  PROVE  GetCalendarPeriod(DateOf(n, s), mode, weekEndDay) =
           <<DateOf(FirstDay(n, mode), 0), DateOf(LastDay(n, mode, weekEndDay), LastSecond)>>
<1> DEFINE date == DateOf(n, s)
           offset == WeekEndDayOffsets[weekEndDay]
           y == CivilOf(n).year
           m == CivilOf(n).month
<1>1. FirstFullDay \in Int /\ FirstFullDay <= n /\ offset \in 4 .. 6
  BY SMT, FullYears, WeekEndDays
<1>2. IsValidDate(date)
  BY SMT DEF IsValidDate, DateOf
<1>3. \A d \in Int : \A t : FirstFullDay <= d => GetStartOfDay(DateOf(d, t)) = DateOf(d, 0) /\ GetEndOfDay(DateOf(d, t)) = DateOf(d, LastSecond)
  BY OperationsOnDays
<1>4. FirstDay(n, mode) \in Int /\ NextPeriod(n, mode) \in Int /\ FirstDay(n, mode) <= n /\ n < NextPeriod(n, mode)
  BY PeriodBounds
<1>5. /\ y \in Int /\ m \in 0 .. 11 /\ MonthIndex(n) = 12 * y + m /\ MonthIndex(n) \in Int
      /\ Year(date) = y /\ Month(date) = m /\ y \notin 0 .. 99
  BY SMTT(40), <1>1, DateOfDayIsIts, DateParts, FullYear DEF MonthIndex, Year, Month
<1>. HIDE DEF date, offset, y, m
<1>6. CASE mode = "day"
  <2>1. GetCalendarPeriod(date, mode, weekEndDay) = <<GetStartOfDay(date), GetEndOfDay(date)>>
    BY <1>2, <1>6 DEF GetCalendarPeriod
  <2>2. FirstDay(n, mode) = n /\ LastDay(n, mode, weekEndDay) = n
    BY SMT, <1>6 DEF FirstDay, LastDay, NextPeriod
  <2>. QED BY <1>1, <1>3, <2>1, <2>2 DEF date
<1>7. CASE mode = "week"
  <2> DEFINE monday == FirstDay(n, mode)
  <2>1. monday = n - ((n + 3) % 7) /\ monday \in Int /\ n - 6 <= monday
    BY SMT, <1>4, <1>7 DEF FirstDay
  <2>2. GetStartOfWeek(date, 1) = DateOf(monday, 0)
    <3>1. GetStartOfDay(date) = DateOf(n, 0)
      BY <1>1, <1>3 DEF date
    <3>2. - ((WeekDay(DateOf(n, 0)) - (1 % 7) + 7) % 7) = - ((n + 3) % 7)
      <4>1. WeekDay(DateOf(n, 0)) = (n + 4) % 7
        BY DateParts DEF WeekDay
      <4>2. (((n + 4) % 7) - (1 % 7) + 7) % 7 = (n + 3) % 7
        BY SMT
      <4>. QED BY <4>1, <4>2
    <3>3. - ((n + 3) % 7) \in Int /\ n + (- ((n + 3) % 7)) = n - ((n + 3) % 7)
      BY SMT
    <3>4. AddCalendarDays(DateOf(n, 0), - ((n + 3) % 7)) = DateOf(n + (- ((n + 3) % 7)), 0)
      BY <1>1, <3>3, OperationsOnDays
    <3>. QED BY <2>1, <3>1, <3>2, <3>3, <3>4 DEF GetStartOfWeek
  <2>. HIDE DEF monday
  <2>3. FirstFullDay <= monday /\ FirstFullDay <= monday + offset /\ monday + offset \in Int /\ offset \in Int
    BY SMT, <1>1, <2>1
  <2>4. GetEndOfDay(AddCalendarDays(DateOf(monday, 0), offset)) = DateOf(monday + offset, LastSecond)
    <3>1. AddCalendarDays(DateOf(monday, 0), offset) = DateOf(monday + offset, 0)
      BY <2>1, <2>3, OperationsOnDays
    <3>. QED BY <1>3, <2>3, <3>1
  <2>5. LastDay(n, mode, weekEndDay) = monday + offset
    <3>1. NextPeriod(n, mode) = monday + 7
      BY <1>7, PeriodBounds DEF monday
    <3>. QED BY SMT, <1>1, <1>7, <2>1, <3>1 DEF LastDay, offset
  <2>6. GetCalendarPeriod(date, mode, weekEndDay) =
          <<GetStartOfWeek(date, 1), GetEndOfDay(AddCalendarDays(GetStartOfWeek(date, 1), offset))>>
    BY <1>2, <1>7 DEF GetCalendarPeriod, offset
  <2>. QED BY <2>2, <2>4, <2>5, <2>6 DEF monday, date
<1>8. CASE mode = "month"
  <2> DEFINE next == FirstOfMonth(MonthIndex(n) + 1)
  <2>1. FirstDay(n, mode) = FirstOfMonth(MonthIndex(n)) /\ NextPeriod(n, mode) = next
    BY <1>8 DEF FirstDay, NextPeriod
  <2>2. GetStartOfMonth(date) = DateOf(FirstOfMonth(MonthIndex(n)), 0)
    BY <1>1, OperationsOnDays DEF date
  <2>3. Midnight(y, m + 1, 0) = DateOf(next - 1, 0)
    <3> DEFINE following == m + 1
    <3>1. following \in Int /\ 0 \in Int /\ 12 * y + following = MonthIndex(n) + 1
      BY SMT, <1>5
    <3>2. next + 0 - 1 = next - 1
      BY SMT, <1>4, <2>1
    <3>. HIDE DEF following
    <3>3. Midnight(y, following, 0) = DateOf(FirstOfMonth(12 * y + following) + 0 - 1, 0)
      <4>1. y \in Int /\ y \notin 0 .. 99 /\ following \in Int /\ 0 \in Int
        BY <1>5, <3>1
      <4>. HIDE DEF y
      <4>. QED BY <4>1, MidnightIs
    <3>. QED BY <3>1, <3>2, <3>3 DEF following
  <2>4. next - 1 \in Int /\ FirstFullDay <= next - 1
    BY SMT, <1>1, <1>4, <2>1
  <2>5. LastDay(n, mode, weekEndDay) = next - 1
    BY <1>8, <2>1 DEF LastDay
  <2>6. GetCalendarPeriod(date, mode, weekEndDay) = <<GetStartOfMonth(date), GetEndOfDay(Midnight(Year(date), Month(date) + 1, 0))>>
    BY <1>2, <1>8 DEF GetCalendarPeriod
  <2>. HIDE DEF next
  <2>. QED BY <1>3, <1>5, <2>1, <2>2, <2>3, <2>4, <2>5, <2>6 DEF date
<1>9. CASE mode = "year"
  <2> DEFINE next == FirstOfMonth(12 * (y + 1))
  <2>1. FirstDay(n, mode) = FirstOfMonth(12 * y) /\ NextPeriod(n, mode) = next
    BY <1>9 DEF FirstDay, NextPeriod, y
  <2>2. GetStartOfYear(date) = DateOf(FirstOfMonth(12 * y), 0)
    BY <1>1, OperationsOnDays DEF date, y
  <2>3. FirstOfMonth(12 * y + 11) + 31 = next
    <3> DEFINE december == 12 * y + 11  january == 12 * (y + 1)
    <3>1. december \in Int /\ january \in Int
      BY SMT, <1>5
    <3>2. (december - 2) \div 12 = y /\ (december - 2) % 12 = 9 /\ (january - 2) \div 12 = y /\ (january - 2) % 12 = 10
      BY SMT, <1>5
    <3>. HIDE DEF december, january
    <3>3. /\ FirstOfMonth(december) = DaysBeforeYear(y) + DaysBeforeMonth(9) - 719468
          /\ FirstOfMonth(january) = DaysBeforeYear(y) + DaysBeforeMonth(10) - 719468
      <4>1. FirstOfMonth(december) = DaysBeforeYear(y) + DaysBeforeMonth(9) - 719468
        BY SMT, <3>1, <3>2, FirstOfMonthIs
      <4>2. FirstOfMonth(january) = DaysBeforeYear(y) + DaysBeforeMonth(10) - 719468
        BY SMT, <3>1, <3>2, FirstOfMonthIs
      <4>. QED BY SMT, <4>1, <4>2
    <3>4. DaysBeforeMonth(9) = 275 /\ DaysBeforeMonth(10) = 306 /\ DaysBeforeYear(y) \in Int
      BY SMT, <1>5 DEF DaysBeforeMonth, DaysBeforeYear
    <3>5. FirstOfMonth(december) + 31 = FirstOfMonth(january)
      BY SMT, <3>3, <3>4
    <3>. QED BY <3>5 DEF december, january
  <2>4. Midnight(y, 11, 31) = DateOf(next - 1, 0)
    <3> DEFINE december == FirstOfMonth(12 * y + 11)
    <3>1. 11 \in Int /\ 31 \in Int /\ december \in Int
      BY SMT, <1>5, FirstsAreDays
    <3>2. Midnight(y, 11, 31) = DateOf(december + 31 - 1, 0)
      <4> DEFINE month == 11  day == 31
      <4>1. month \in Int /\ day \in Int
        BY <3>1
      <4>. HIDE DEF month, day
      <4>2. Midnight(y, month, day) = DateOf(FirstOfMonth(12 * y + month) + day - 1, 0)
        BY ZenonT(20), <1>5, <4>1, MidnightIs
      <4>. QED BY <4>2 DEF month, day
    <3>. HIDE DEF december, next
    <3>3. december + 31 - 1 = next - 1
      BY SMT, <2>3, <3>1 DEF december
    <3>. QED BY <3>2, <3>3
  <2>5. next - 1 \in Int /\ FirstFullDay <= next - 1
    BY SMT, <1>1, <1>4, <2>1
  <2>6. LastDay(n, mode, weekEndDay) = next - 1
    BY <1>9, <2>1 DEF LastDay
  <2>7. GetCalendarPeriod(date, mode, weekEndDay) = <<GetStartOfYear(date), GetEndOfDay(Midnight(Year(date), 11, 31))>>
    BY <1>2, <1>9 DEF GetCalendarPeriod
  <2>. HIDE DEF next
  <2>. QED BY <1>3, <1>5, <2>1, <2>2, <2>4, <2>5, <2>6, <2>7 DEF date
<1>. QED BY <1>6, <1>7, <1>8, <1>9 DEF Modes, date

\* A period of a date from the year 101 on contains it (a working week may end before a Sunday), each of its days has
\* the same period, and the day after it begins the next one: the periods of a mode share no day and leave none out.
THEOREM PeriodsHoldTheirDays ==
  ASSUME NEW n \in Int, NEW s \in Nat, DayNumber(101, 1, 1) <= n,
         NEW mode \in {"day", "week", "month", "year"}, NEW weekEndDay \in DOMAIN WeekEndDayOffsets
  PROVE  /\ PeriodIsOfItsDays(DateOf(n, s), mode, weekEndDay)
         /\ \A d \in FirstDay(n, mode) .. LastDay(n, mode, weekEndDay) :
              GetCalendarPeriod(DateOf(d, s), mode, weekEndDay) = GetCalendarPeriod(DateOf(n, s), mode, weekEndDay)
<1> DEFINE first == FirstDay(n, mode)  last == LastDay(n, mode, weekEndDay)  next == NextPeriod(n, mode)
           rest == IF mode = "week" THEN 7 - WeekEndDayOffsets[weekEndDay] ELSE 1
           period == <<DateOf(first, 0), DateOf(last, LastSecond)>>
<1>. mode \in Modes
  BY DEF Modes
<1>1. /\ first \in Int /\ next \in Int /\ first <= n /\ n < next /\ (mode = "week" => next = first + 7)
      /\ rest \in 1 .. 3 /\ last = next - rest /\ (mode # "week" => rest = 1) /\ last \in Int
  <2>1. rest \in 1 .. 3
    BY SMT, WeekEndDays
  <2>2. first \in Int /\ next \in Int /\ first <= n /\ n < next /\ (mode = "week" => next = first + 7)
    BY PeriodBounds
  <2>3. last = next - rest
    BY DEF LastDay
  <2>4. mode # "week" => rest = 1
    OBVIOUS
  <2>. HIDE DEF rest, next, last, first
  <2>. QED BY SMT, <2>1, <2>2, <2>3, <2>4
<1>2. first <= last
  <2>. HIDE DEF rest, next, last, first
  <2>. QED BY SMT, <1>1
<1>3. FirstFullDay \in Int /\ FirstFullDay + 365 <= n /\ FirstFullDay + 7 <= n /\ FirstOfMonth(1212) <= n
  BY SMT, FullYears
<1>4. FirstFullDay + 7 <= first
  <2>1. CASE mode = "day"
    BY <1>3, <2>1 DEF FirstDay
  <2>2. CASE mode = "week"
    BY SMT, <1>3, <2>2 DEF FirstDay
  <2>3. CASE mode = "month"
    <3>1. MonthIndex(n) \in Int /\ 1212 <= MonthIndex(n)
      BY SMT, <1>3, LaterDaysAreFull
    <3>. HIDE DEF first
    <3>2. FirstOfMonth(1212) <= FirstOfMonth(MonthIndex(n))
      <4>1. CASE MonthIndex(n) = 1212
        BY SMT, <4>1, FirstsAreDays
      <4>2. CASE 1212 < MonthIndex(n)
        <5>1. FirstOfMonth(1212 + 1) <= FirstOfMonth(MonthIndex(n)) /\ FirstOfMonth(1212) + 28 <= FirstOfMonth(1212 + 1)
          BY SMTT(40), <3>1, <4>2, MonthsAreOrdered, MonthLength
        <5>2. FirstOfMonth(1212 + 1) \in Int /\ FirstOfMonth(1212) \in Int /\ FirstOfMonth(MonthIndex(n)) \in Int
          BY SMT, <3>1, FirstsAreDays
        <5>. QED BY SMT, <5>1, <5>2
      <4>. QED BY SMT, <3>1, <4>1, <4>2
    <3>3. first = FirstOfMonth(MonthIndex(n))
      BY <2>3 DEF first, FirstDay
    <3>. QED BY SMT, <1>1, <3>2, <3>3, FullYears
  <2>4. CASE mode = "year"
    <3>1. MonthIndex(n) \in Int /\ 1212 <= MonthIndex(n) /\ CivilOf(n).year \in Int /\ CivilOf(n).month \in 0 .. 11
      BY SMT, <1>3, LaterDaysAreFull, DateOfDayIsIts
    <3> DEFINE k == 12 * CivilOf(n).year
    <3>2. k \in Int /\ 1212 <= k
      BY SMT, <3>1 DEF MonthIndex
    <3>3. first = FirstOfMonth(k)
      BY <2>4 DEF FirstDay
    <3>. HIDE DEF first, k
    <3>4. FirstOfMonth(1212) <= FirstOfMonth(k)
      <4>1. CASE k = 1212
        BY SMT, <4>1, FirstsAreDays
      <4>2. CASE 1212 < k
        <5>1. FirstOfMonth(1212 + 1) <= FirstOfMonth(k) /\ FirstOfMonth(1212) + 28 <= FirstOfMonth(1212 + 1)
          BY SMTT(40), <3>2, <4>2, MonthsAreOrdered, MonthLength
        <5>2. FirstOfMonth(1212 + 1) \in Int /\ FirstOfMonth(1212) \in Int /\ FirstOfMonth(k) \in Int
          BY SMT, <3>2, FirstsAreDays
        <5>. QED BY SMT, <5>1, <5>2
      <4>. QED BY SMT, <3>2, <4>1, <4>2
    <3>. QED BY SMT, <1>1, <3>3, <3>4, FullYears
  <2>. QED BY <2>1, <2>2, <2>3, <2>4
<1>5. GetCalendarPeriod(DateOf(n, s), mode, weekEndDay) = period
  BY <1>3, PeriodIs
<1>6. ASSUME NEW d \in Int, first <= d, d <= last, NEW t \in Nat
      PROVE  GetCalendarPeriod(DateOf(d, t), mode, weekEndDay) = period
  <2>1. FirstFullDay + 7 <= d
    <3>. HIDE DEF first, last
    <3>. QED BY SMT, <1>1, <1>3, <1>4, <1>6
  <2>2. GetCalendarPeriod(DateOf(d, t), mode, weekEndDay) =
          <<DateOf(FirstDay(d, mode), 0), DateOf(LastDay(d, mode, weekEndDay), LastSecond)>>
    BY <2>1, PeriodIs
  <2>3. CASE mode = "day"
    <3>1. d = n
      BY SMT, <1>6, <2>3 DEF FirstDay, LastDay, NextPeriod
    <3>. QED BY <2>2, <3>1
  <2>4. CASE mode # "day"
    <3>1. d < next
      <4>. HIDE DEF first, last, next, rest
      <4>. QED BY SMT, <1>1, <1>6
    <3>2. FirstDay(d, mode) = first /\ NextPeriod(d, mode) = next
      BY <1>6, <2>4, <3>1, PeriodIsShared
    <3>. QED BY <2>2, <3>2 DEF LastDay
  <2>. QED BY <2>3, <2>4
<1>7. GetCalendarPeriod(DateOf(next, 0), mode, weekEndDay)[1].day = next
  <2>1. FirstFullDay + 7 <= next /\ 0 \in Nat
    <3>. HIDE DEF next
    <3>. QED BY SMT, <1>1, <1>3
  <2>2. GetCalendarPeriod(DateOf(next, 0), mode, weekEndDay)[1] = DateOf(FirstDay(next, mode), 0)
    BY <1>1, <2>1, PeriodIs
  <2>3. FirstDay(next, mode) = next
    BY NextPeriodFollows
  <2>. QED BY <2>2, <2>3, DateParts
<1>8. WeekDay(DateOf(n, s)) \in 1 .. 5 => IsDateInsideCalendarPeriod(DateOf(n, s), period)
  <2>1. SUFFICES ASSUME WeekDay(DateOf(n, s)) \in 1 .. 5 PROVE IsDateInsideCalendarPeriod(DateOf(n, s), period)
    OBVIOUS
  <2>2. GetStartOfDay(DateOf(n, s)) = DateOf(n, 0)
    <3>1. FirstFullDay <= n
      BY SMT, <1>3
    <3>. QED BY <3>1, OperationsOnDays
  <2>3. IsValidDate(DateOf(n, s)) /\ period # NoRange
    BY SMT DEF IsValidDate, DateOf, NoRange, InvalidDate
  <2>4. n <= last
    <3>1. CASE mode = "week"
      <4>1. (n + 4) % 7 \in 1 .. 5
        BY <2>1, DateParts DEF WeekDay
      <4>2. first = n - ((n + 3) % 7)
        BY <3>1 DEF FirstDay
      <4>3. (n + 3) % 7 <= 4
        BY SMT, <4>1
      <4>4. last = first + WeekEndDayOffsets[weekEndDay]
        BY SMT, <1>1, <3>1, WeekEndDays
      <4>. HIDE DEF first, last
      <4>. QED BY SMT, <1>1, <4>2, <4>3, <4>4, WeekEndDays
    <3>2. CASE mode # "week"
      <4>. HIDE DEF next, rest, last, first
      <4>. QED BY SMT, <1>1, <3>2
    <3>. QED BY <3>1, <3>2
  <2>5. AtOrBefore(DateOf(first, 0), DateOf(n, 0)) /\ AtOrBefore(DateOf(n, 0), DateOf(last, LastSecond))
    <3>. HIDE DEF first, last
    <3>. QED BY SMT, <1>1, <2>4 DEF AtOrBefore, DateOf, LastSecond, DaySeconds
  <2>. QED BY <2>2, <2>3, <2>5 DEF IsDateInsideCalendarPeriod
<1>9. PeriodIsOfItsDays(DateOf(n, s), mode, weekEndDay)
  <2>1. period[1].day = first /\ period[2].day = last
    BY DateParts
  <2>2. ASSUME NEW d \in {first, (first + last) \div 2, last}
        PROVE  GetCalendarPeriod(DateOf(d, 43200), mode, weekEndDay) = period
    <3>1. d \in Int /\ first <= d /\ d <= last /\ 43200 \in Nat
      <4>. HIDE DEF first, last
      <4>. QED BY SMT, <1>1, <1>2, <2>2
    <3>. HIDE DEF period, first, last
    <3>2. QED BY SMT, <1>6, <3>1
  <2>3. last + rest = next
    <3>. HIDE DEF rest, next, last, first
    <3>. QED BY SMT, <1>1
  <2>. HIDE DEF period, first, last, next
  <2>. QED BY <1>5, <1>7, <1>8, <2>1, <2>2, <2>3 DEF PeriodIsOfItsDays
<1>10. \A d \in first .. last : GetCalendarPeriod(DateOf(d, s), mode, weekEndDay) = period
  <2>1. \A d \in first .. last : d \in Int /\ first <= d /\ d <= last
    <3>. HIDE DEF first, last
    <3>. QED BY SMT, <1>1
  <2>. HIDE DEF first, last, period
  <2>. QED BY <1>6, <2>1
<1>. QED BY <1>5, <1>9, <1>10

-----------------------------------------------------------------------------
(* The weeks of a school year *)

LEMMA MonthsAscend ==
  ASSUME NEW k \in Int, NEW l \in Int, k < l
  PROVE  FirstOfMonth(k) + 28 <= FirstOfMonth(l)
<1>1. FirstOfMonth(k) \in Int /\ FirstOfMonth(k + 1) \in Int /\ FirstOfMonth(l) \in Int
  BY SMT, FirstsAreDays
<1>2. FirstOfMonth(k) + 28 <= FirstOfMonth(k + 1) /\ FirstOfMonth(k + 1) <= FirstOfMonth(l)
  BY MonthLength, MonthsAreOrdered
<1>. QED BY SMT, <1>1, <1>2

\* The year the platform takes a year for: one from 0 to 99 is of the 20th century.
FullYearOf(y) == IF y \in 0 .. 99 THEN 1900 + y ELSE y

LEMMA MidnightOfYear ==
  ASSUME NEW y \in Nat, NEW m \in Int, NEW d \in Int
  PROVE  /\ FullYearOf(y) \in Int /\ 100 <= FullYearOf(y)
         /\ Midnight(y, m, d) = DateOf(FirstOfMonth(12 * FullYearOf(y) + m) + d - 1, 0)
<1> DEFINE year == FullYearOf(y)
<1>1. year \in Int /\ 100 <= year /\ year \notin 0 .. 99
  BY SMT DEF FullYearOf
<1>2. Midnight(y, m, d) = Midnight(year, m, d)
  BY SMT, <1>1 DEF Midnight, NewDate, FullYearOf
<1>. HIDE DEF year
<1>3. Midnight(year, m, d) = DateOf(FirstOfMonth(12 * year + m) + d - 1, 0)
  BY <1>1, NewDateIs
<1>. QED BY <1>1, <1>2, <1>3 DEF year

\* A key of four digits of year, two of month and two of day.
DateKeys == {key \in Nat \X Nat \X Nat : key[1] <= 9999 /\ key[2] <= 99 /\ key[3] <= 99}

\* What a key is read as: no date, or the day that has its year, month and day.
LEMMA KeyIsRead ==
  ASSUME NEW key \in DateKeys \cup {NoKey}
  PROVE  \/ ParseEducationDateKey(key) = InvalidDate
         \/ \E p \in Int : FirstFullDay <= p /\ ParseEducationDateKey(key) = DateOf(p, 0)
<1>1. CASE key = NoKey
  BY <1>1 DEF ParseEducationDateKey
<1>2. CASE key # NoKey
  <2>1. PICK y \in Nat, month \in Nat, d \in Nat : key = <<y, month, d>>
    <3>1. key \in Nat \X Nat \X Nat
      BY <1>2 DEF DateKeys
    <3>. QED BY <3>1
  <2> DEFINE m == month - 1  date == Midnight(y, m, d)
  <2>2. m \in Int /\ y \in Int /\ d \in Int /\ key[1] = y /\ key[2] - 1 = m /\ key[3] = d
    BY SMT, <2>1
  <2>3. ParseEducationDateKey(key) =
          IF CivilOf(date.day) = [year |-> y, month |-> m, day |-> d] THEN date ELSE InvalidDate
    BY <1>2, <2>2 DEF ParseEducationDateKey
  <2>. HIDE DEF m, date
  <2>4. SUFFICES ASSUME CivilOf(date.day) = [year |-> y, month |-> m, day |-> d]
        PROVE  \E p \in Int : FirstFullDay <= p /\ date = DateOf(p, 0)
    BY <2>3
  <2>5. ASSUME NEW year \in Int, 100 <= year, date = DateOf(FirstOfMonth(12 * year + m) + d - 1, 0)
        PROVE  year = y /\ \E p \in Int : FirstFullDay <= p /\ date = DateOf(p, 0)
    <3> DEFINE k == 12 * year + m  l == 12 * y + m  p == FirstOfMonth(k) + d - 1
    <3>1. k \in Int /\ l \in Int
      BY SMT, <2>2
    <3>2. date.day = p
      BY <2>5, DateParts
    <3>. HIDE DEF k
    <3>3. FirstOfMonth(k) \in Int /\ p \in Int
      BY SMTT(30), <2>2, <3>1, FirstsAreDays
    <3>4. CivilOf(p).year = y /\ CivilOf(p).month = m /\ CivilOf(p).day = d /\ MonthIndex(p) = l
      BY <2>4, <3>2 DEF MonthIndex
    <3>5. m \in 0 .. 11 /\ d \in 1 .. 31 /\ FirstOfMonth(l) + d - 1 = p
      <4>. HIDE DEF p, l
      <4>. QED BY <3>3, <3>4, DateOfDayIsIts
    <3>6. FirstOfMonth(l) = FirstOfMonth(k)
      <4>1. FirstOfMonth(l) \in Int
        BY <3>1, FirstsAreDays
      <4>. HIDE DEF l
      <4>. QED BY SMT, <2>2, <3>3, <3>5, <4>1
    <3>7. k = l
      <4>. HIDE DEF l
      <4>1. k < l => FirstOfMonth(k) + 28 <= FirstOfMonth(l)
        BY <3>1, MonthsAscend
      <4>2. l < k => FirstOfMonth(l) + 28 <= FirstOfMonth(k)
        BY <3>1, MonthsAscend
      <4>. QED BY SMT, <3>1, <3>3, <3>6, <4>1, <4>2
    <3>8. year = y
      BY SMT, <2>2, <3>7 DEF k
    <3>9. FirstFullDay <= p
      <4>1. 1200 <= k
        BY SMT, <2>2, <2>5, <3>5 DEF k
      <4>2. 1200 < k => FirstOfMonth(1200) + 28 <= FirstOfMonth(k)
        BY SMT, <3>1, MonthsAscend
      <4>3. FirstOfMonth(1200) \in Int
        BY SMT, FirstsAreDays
      <4>4. FirstOfMonth(1200) <= FirstOfMonth(k)
        BY SMT, <3>1, <3>3, <4>1, <4>2, <4>3
      <4>. QED BY SMT, <3>3, <3>5, <4>3, <4>4 DEF FirstFullDay
    <3>10. date = DateOf(p, 0)
      BY <2>5 DEF k
    <3>. HIDE DEF p
    <3>. QED BY <3>3, <3>8, <3>9, <3>10
  <2>6. /\ FullYearOf(y) \in Int /\ 100 <= FullYearOf(y)
        /\ date = DateOf(FirstOfMonth(12 * FullYearOf(y) + m) + d - 1, 0)
    BY ZenonT(30), <2>1, <2>2, MidnightOfYear DEF date
  <2>. QED BY <2>5, <2>6
<1>. QED BY <1>1, <1>2

\* The key of a day is read as that day.
LEMMA KeyOfDay ==
  ASSUME NEW p \in Int, FirstFullDay <= p, NEW t
  PROVE  /\ ParseEducationDateKey(FormatEducationDateKey(DateOf(p, t))) = DateOf(p, 0)
         /\ FormatEducationDateKey(DateOf(p, t)) # NoKey
<1> DEFINE y == CivilOf(p).year  m == CivilOf(p).month  d == CivilOf(p).day  key == <<y, m + 1, d>>
<1>1. y \in Int /\ m \in Int /\ d \in Int /\ m + 1 - 1 = m /\ FirstOfMonth(12 * y + m) + d - 1 = p
  BY SMT, DateOfDayIsIts DEF MonthIndex
<1>2. CivilOf(p) = [year |-> y, month |-> m, day |-> d]
  <2>1. PICK a, b, c : CivilOf(p) = [year |-> a, month |-> b, day |-> c]
    BY CivilIs
  <2>. QED BY <2>1
<1>3. y \notin 0 .. 99
  BY FullYear
<1>4. FormatEducationDateKey(DateOf(p, t)) = key
  BY DateParts DEF FormatEducationDateKey, Year, Month, DayOfMonth
<1>. HIDE DEF y, m, d
<1>5. Midnight(y, m, d) = DateOf(p, 0)
  BY ZenonT(30), <1>1, <1>3, MidnightIs
<1>6. key # NoKey /\ key[1] = y /\ key[2] = m + 1 /\ key[3] = d
  BY DEF NoKey
<1>. HIDE DEF key
<1>7. ParseEducationDateKey(key) = DateOf(p, 0)
  <2>1. Midnight(key[1], key[2] - 1, key[3]) = DateOf(p, 0)
    BY <1>1, <1>5, <1>6
  <2>2. CivilOf(DateOf(p, 0).day) = [year |-> key[1], month |-> key[2] - 1, day |-> key[3]]
    BY <1>1, <1>2, <1>6, DateParts
  <2>. QED BY <1>6, <2>1, <2>2 DEF ParseEducationDateKey
<1>. QED BY <1>4, <1>6, <1>7

\* The Monday of the week of a day; a Sunday belongs to the next one.
SchoolMonday(p) == IF (p + 3) % 7 = 6 THEN p + 1 ELSE p - ((p + 3) % 7)

LEMMA SchoolMondayIs ==
  ASSUME NEW p \in Int, FirstFullDay <= p, NEW t
  PROVE  /\ GetEducationWeekStartDate(DateOf(p, t)) = DateOf(SchoolMonday(p), 0)
         /\ SchoolMonday(p) \in Int /\ p - 5 <= SchoolMonday(p) /\ SchoolMonday(p) <= p + 1
         /\ (SchoolMonday(p) + 3) % 7 = 0
<1>1. GetStartOfDay(DateOf(p, t)) = DateOf(p, 0)
  BY OperationsOnDays
<1>2. (WeekDay(DateOf(p, t)) + 6) % 7 = (p + 3) % 7
  <2>1. WeekDay(DateOf(p, t)) = (p + 4) % 7
    BY DateParts DEF WeekDay
  <2>2. (((p + 4) % 7) + 6) % 7 = (p + 3) % 7
    BY SMT
  <2>. QED BY <2>1, <2>2
<1> DEFINE back == (p + 3) % 7
<1>3. back \in 0 .. 6
  BY SMT
<1>4. CASE back = 6
  <2>1. GetEducationWeekStartDate(DateOf(p, t)) = AddCalendarDays(DateOf(p, 0), 1)
    BY <1>1, <1>2, <1>4 DEF GetEducationWeekStartDate
  <2>2. AddCalendarDays(DateOf(p, 0), 1) = DateOf(p + 1, 0)
    BY OperationsOnDays
  <2>3. SchoolMonday(p) = p + 1
    BY <1>4 DEF SchoolMonday
  <2>4. (p + 1 + 3) % 7 = 0
    BY SMT, <1>4
  <2>. QED BY SMT, <2>1, <2>2, <2>3, <2>4
<1>5. CASE back # 6
  <2>1. GetEducationWeekStartDate(DateOf(p, t)) = AddCalendarDays(DateOf(p, 0), - back)
    BY <1>1, <1>2, <1>5 DEF GetEducationWeekStartDate
  <2>2. AddCalendarDays(DateOf(p, 0), - back) = DateOf(p + (- back), 0)
    <3>1. - back \in Int
      BY SMT
    <3>. HIDE DEF back
    <3>. QED BY <3>1, OperationsOnDays
  <2>3. SchoolMonday(p) = p - back
    BY <1>5 DEF SchoolMonday
  <2>4. (p - back + 3) % 7 = 0
    BY MondayIsFirst
  <2>. HIDE DEF back
  <2>. QED BY SMT, <1>3, <1>5, <2>1, <2>2, <2>3, <2>4
<1>. QED BY <1>4, <1>5

\* The Monday of a Monday is itself.
LEMMA MondayOfMonday ==
  ASSUME NEW w \in Int, (w + 3) % 7 = 0
  PROVE  SchoolMonday(w) = w /\ \A t : WeekDay(DateOf(w, t)) = 1
<1>1. (w + 4) % 7 = 1
  BY SMT
<1>2. SchoolMonday(w) = w
  BY SMT DEF SchoolMonday
<1>. QED BY <1>1, <1>2, DateParts DEF WeekDay

\* A day of the school year of a date after the year 100 is at least 200 days later than the year 100 began.
LEMMA SchoolYearIsFull ==
  ASSUME NEW n \in Int, NextFullYear <= n, NEW s, NEW p \in Int, FirstFullDay <= p, NEW t,
         IsEducationDateInCurrentYear(DateOf(p, t), DateOf(n, s))
  PROVE  FirstFullDay + 200 <= p
<1> DEFINE year == GetEducationYear(DateOf(n, s))
<1>1. CivilOf(n).year \in Int /\ 101 <= CivilOf(n).year
  <2>1. CivilOf(n).year \in Int /\ CivilOf(n).month \in 0 .. 11 /\ 1212 <= MonthIndex(n)
    BY SMT, DateOfDayIsIts, LaterDaysAreFull DEF NextFullYear
  <2>. QED BY SMT, <2>1 DEF MonthIndex
<1>2. year \in {CivilOf(n).year - 1, CivilOf(n).year}
  BY DateParts DEF GetEducationYear, Year, Month
<1>3. year \in Int /\ 100 <= year /\ year \notin 0 .. 99
  <2>. HIDE DEF year
  <2>. QED BY SMT, <1>1, <1>2
<1>. HIDE DEF year
<1>4. GetEducationYearRange(DateOf(n, s))[1] = DateOf(FirstOfMonth(12 * year + 8) + 1 - 1, 0)
  <2> DEFINE september == 8  day == 1
  <2>1. september \in Int /\ day \in Int
    BY SMT
  <2>. HIDE DEF september, day
  <2>2. Midnight(year, september, day) = DateOf(FirstOfMonth(12 * year + september) + day - 1, 0)
    BY ZenonT(30), <1>3, <2>1, NewDateIs
  <2>3. GetEducationYearRange(DateOf(n, s))[1] = Midnight(year, 8, 1)
    BY DEF GetEducationYearRange, year
  <2>. QED BY <2>2, <2>3 DEF september, day
<1>5. FirstOfMonth(12 * year + 8) \in Int /\ FirstFullDay \in Int
  BY SMT, <1>3, FirstsAreDays, FullYears
<1>6. AtOrBefore(DateOf(FirstOfMonth(12 * year + 8) + 1 - 1, 0), DateOf(p, 0))
  <2>1. GetStartOfDay(DateOf(p, t)) = DateOf(p, 0)
    BY OperationsOnDays
  <2>. QED BY <1>4, <2>1 DEF IsEducationDateInCurrentYear
<1>7. FirstOfMonth(12 * year + 8) <= p
  <2> DEFINE first == FirstOfMonth(12 * year + 8)
  <2>. HIDE DEF first
  <2>1. AtOrBefore(DateOf(first + 1 - 1, 0), DateOf(p, 0)) => first <= p
    BY SMT, <1>5 DEF AtOrBefore, DateOf, first
  <2>. QED BY <1>6, <2>1 DEF first
<1>8. FirstOfMonth(1208) <= FirstOfMonth(12 * year + 8)
  <2> DEFINE k == 12 * year + 8
  <2>1. k \in Int /\ 1208 <= k
    BY SMT, <1>3
  <2>. HIDE DEF k
  <2>2. 1208 < k => FirstOfMonth(1208) + 28 <= FirstOfMonth(k)
    BY SMT, <2>1, MonthsAscend
  <2>3. FirstOfMonth(1208) \in Int /\ FirstOfMonth(k) \in Int
    BY SMTT(30), <2>1, FirstsAreDays
  <2>4. FirstOfMonth(1208) <= FirstOfMonth(k)
    BY SMT, <2>1, <2>2, <2>3
  <2>. QED BY SMT, <2>4 DEF k
<1>9. FirstOfMonth(1208) = FirstFullDay + 243
  <2>1. FirstOfMonth(1208) = DayNumber(100, 9, 1)
    <3>1. 1208 \div 12 = 100 /\ (1208 % 12) + 1 = 9
      BY SMT
    <3>. QED BY SMT, <3>1 DEF FirstOfMonth
  <2>2. DayNumber(100, 9, 1) = DayNumber(100, 1, 1) + 243
    BY SMT DEF DayNumber
  <2>. QED BY SMT, <2>1, <2>2, FullYears
<1>. QED BY SMT, <1>5, <1>7, <1>8, <1>9

\* Seen from a date of the years that keys have, from 1001 on, a chosen week is a Monday of the school year of that date or the current
\* week, choosing it again changes nothing, and its six days are six, whatever the key it is chosen by.
THEOREM WeeksAreChosen ==
  ASSUME NEW n \in Int, DayNumber(1001, 1, 1) <= n, NEW s, NEW key \in DateKeys \cup {NoKey}
  PROVE  WeekIsChosen(key, DateOf(n, s))
<1> DEFINE now == DateOf(n, s)
           Key(w) == FormatEducationDateKey(DateOf(w, 0))
           InYear(w) == IsEducationDateInCurrentYear(DateOf(w, 0), now)
           current == SchoolMonday(n)
<1>1. FirstFullDay \in Int /\ FirstFullDay + 365 <= n /\ FirstFullDay <= n /\ NextFullYear <= n
  <2>1. DayNumber(101, 1, 1) <= DayNumber(1001, 1, 1) /\ DayNumber(101, 1, 1) \in Int /\ DayNumber(1001, 1, 1) \in Int
    BY SMT DEF DayNumber
  <2>. QED BY SMT, <2>1, FullYears DEF NextFullYear
<1>2. current \in Int /\ FirstFullDay <= current /\ (current + 3) % 7 = 0 /\ GetEducationWeekStartDate(now) = DateOf(current, 0)
  <2>1. /\ SchoolMonday(n) \in Int /\ n - 5 <= SchoolMonday(n) /\ (SchoolMonday(n) + 3) % 7 = 0
        /\ GetEducationWeekStartDate(DateOf(n, s)) = DateOf(SchoolMonday(n), 0)
    BY <1>1, SchoolMondayIs
  <2>. HIDE DEF current
  <2>2. SchoolMonday(n) \in Int /\ FirstFullDay <= SchoolMonday(n)
    BY SMT, <1>1, <2>1
  <2>. QED BY <2>1, <2>2 DEF current
<1>3. GetCurrentEducationWeekKey(now) = Key(current)
  BY <1>2 DEF GetCurrentEducationWeekKey
<1>. HIDE DEF current, now
<1>4. ASSUME NEW p \in Int, FirstFullDay <= p, InYear(p)
      PROVE  FirstFullDay <= SchoolMonday(p)
  <2>1. FirstFullDay + 200 <= p
    BY <1>1, <1>4, SchoolYearIsFull DEF now
  <2>2. SchoolMonday(p) \in Int /\ p - 5 <= SchoolMonday(p)
    BY <1>4, SchoolMondayIs
  <2>. QED BY SMT, <1>1, <2>1, <2>2
<1>5. ASSUME NEW k, NEW p \in Int, FirstFullDay <= p, ParseEducationDateKey(k) = DateOf(p, 0)
      PROVE  ResolveEducationWeekKey(k, now) =
               IF InYear(p) /\ InYear(SchoolMonday(p)) THEN Key(SchoolMonday(p)) ELSE Key(current)
  <2>1. IsValidDate(DateOf(p, 0)) /\ GetEducationWeekStartDate(DateOf(p, 0)) = DateOf(SchoolMonday(p), 0)
    <3>1. IsValidDate(DateOf(p, 0))
      BY SMT DEF IsValidDate, DateOf
    <3>. QED BY <1>5, <3>1, SchoolMondayIs
  <2>2. NormalizeEducationWeekKey(k, now) = IF InYear(p) /\ InYear(SchoolMonday(p)) THEN Key(SchoolMonday(p)) ELSE NoKey
    BY <1>5, <2>1 DEF NormalizeEducationWeekKey
  <2>3. InYear(p) => Key(SchoolMonday(p)) # NoKey
    <3>1. InYear(p) => SchoolMonday(p) \in Int /\ FirstFullDay <= SchoolMonday(p)
      BY <1>4, <1>5, SchoolMondayIs
    <3>. QED BY <3>1, KeyOfDay
  <2>. HIDE DEF InYear, Key
  <2>. QED BY <1>3, <2>2, <2>3 DEF ResolveEducationWeekKey
<1>6. ASSUME ParseEducationDateKey(key) = InvalidDate
      PROVE  ResolveEducationWeekKey(key, now) = Key(current)
  <2>1. ~ IsValidDate(InvalidDate)
    BY SMT DEF IsValidDate, InvalidDate, DateOf
  <2>2. NormalizeEducationWeekKey(key, now) = NoKey
    BY <1>6, <2>1 DEF NormalizeEducationWeekKey
  <2>. QED BY <1>3, <2>2 DEF ResolveEducationWeekKey
<1>7. PICK w \in Int : /\ FirstFullDay <= w /\ (w + 3) % 7 = 0
                       /\ ResolveEducationWeekKey(key, now) = Key(w)
                       /\ InYear(w) \/ w = current
  <2>1. CASE ParseEducationDateKey(key) = InvalidDate
    BY <1>2, <1>6, <2>1
  <2>2. CASE \E p \in Int : FirstFullDay <= p /\ ParseEducationDateKey(key) = DateOf(p, 0)
    <3>1. PICK p \in Int : FirstFullDay <= p /\ ParseEducationDateKey(key) = DateOf(p, 0)
      BY <2>2
    <3>2. SchoolMonday(p) \in Int /\ (SchoolMonday(p) + 3) % 7 = 0
      BY <3>1, SchoolMondayIs
    <3>. HIDE DEF InYear, Key
    <3>3. ResolveEducationWeekKey(key, now) =
            IF InYear(p) /\ InYear(SchoolMonday(p)) THEN Key(SchoolMonday(p)) ELSE Key(current)
      BY <1>5, <3>1
    <3>4. CASE InYear(p) /\ InYear(SchoolMonday(p))
      BY <1>4, <3>1, <3>2, <3>3, <3>4
    <3>5. CASE ~ (InYear(p) /\ InYear(SchoolMonday(p)))
      BY <1>2, <3>3, <3>5
    <3>. QED BY <3>4, <3>5
  <2>. QED BY <2>1, <2>2, KeyIsRead
<1>8. ParseEducationDateKey(Key(w)) = DateOf(w, 0)
  BY <1>7, KeyOfDay
<1>9. IsValidDate(DateOf(w, 0)) /\ WeekDay(DateOf(w, 0)) = 1 /\ SchoolMonday(w) = w
  <2>1. IsValidDate(DateOf(w, 0))
    BY SMT DEF IsValidDate, DateOf
  <2>. QED BY <1>7, <2>1, MondayOfMonday
<1>10. ResolveEducationWeekKey(Key(w), now) = Key(w)
  <2>. HIDE DEF InYear, Key
  <2>. QED BY <1>5, <1>7, <1>8, <1>9
<1>11. InYear(w) \/ Key(w) = GetCurrentEducationWeekKey(now)
  BY <1>3, <1>7
<1>12. Cardinality(ToSet(GetEducationWeekDays(Key(w), now))) = 6
  <2> DEFINE days == [i \in 1 .. 6 |-> FormatEducationDateKey(AddCalendarDays(DateOf(w, 0), i - 1))]
  <2>1. GetEducationWeekDays(Key(w), now) = days
    BY <1>8, <1>9 DEF GetEducationWeekDays
  <2>2. ASSUME NEW i \in 1 .. 6
        PROVE  w + (i - 1) \in Int /\ FirstFullDay <= w + (i - 1) /\ days[i] = Key(w + (i - 1))
    <3>1. i - 1 \in Int /\ w + (i - 1) \in Int /\ FirstFullDay <= w + (i - 1)
      BY SMT, <1>1, <1>7
    <3>2. AddCalendarDays(DateOf(w, 0), i - 1) = DateOf(w + (i - 1), 0)
      BY <1>7, <3>1, OperationsOnDays
    <3>. QED BY <3>1, <3>2
  <2>3. ASSUME NEW i \in 1 .. 6, NEW j \in 1 .. 6, days[i] = days[j]
        PROVE  i = j
    <3>1. /\ ParseEducationDateKey(days[i]) = DateOf(w + (i - 1), 0)
          /\ ParseEducationDateKey(days[j]) = DateOf(w + (j - 1), 0)
      BY <2>2, KeyOfDay
    <3>2. w + (i - 1) = w + (j - 1)
      BY <2>3, <3>1, DateParts
    <3>. QED BY SMT, <1>7, <3>2
  <2>. HIDE DEF days
  <2>4. ToSet(days) = {days[i] : i \in 1 .. 6}
    <3>1. DOMAIN days = 1 .. 6
      BY DEF days
    <3>. QED BY <3>1 DEF ToSet
  <2>5. days \in [1 .. 6 -> ToSet(days)]
    <3>1. days = [i \in 1 .. 6 |-> days[i]]
      BY DEF days
    <3>. QED BY <2>4, <3>1
  <2>6. days \in Bijection(1 .. 6, ToSet(days))
    <3>1. \A t \in ToSet(days) : \E i \in 1 .. 6 : days[i] = t
      BY <2>4
    <3>. QED BY <2>3, <2>5, <3>1, Fun_IsBij
  <2>7. ExistsBijection(1 .. 6, ToSet(days))
    BY <2>6, Fun_ExistsBij
  <2>8. 6 \in Nat
    BY SMT
  <2>9. Cardinality(ToSet(days)) = 6
    BY <2>7, <2>8, FS_CountingElements
  <2>. QED BY <2>1, <2>9
<1>. HIDE DEF Key
<1>. QED BY <1>7, <1>8, <1>9, <1>10, <1>11, <1>12 DEF WeekIsChosen, now


-----------------------------------------------------------------------------
(* The dates that are written *)

\* Months that begin on one day are one month.
LEMMA MonthOfFirst ==
  ASSUME NEW k \in Int, NEW l \in Int, FirstOfMonth(k) = FirstOfMonth(l)
  PROVE  k = l
<1>1. FirstOfMonth(k) \in Int /\ FirstOfMonth(l) \in Int
  BY FirstsAreDays
<1>2. k < l => FirstOfMonth(k) + 28 <= FirstOfMonth(l)
  BY MonthsAscend
<1>3. l < k => FirstOfMonth(l) + 28 <= FirstOfMonth(k)
  BY MonthsAscend
<1>. QED BY SMT, <1>1, <1>2, <1>3

DaysOfMonth(k) == FirstOfMonth(k + 1) - FirstOfMonth(k)
DayExists(y, month, d) == 100 <= y /\ 1 <= month /\ month <= 12 /\ 1 <= d /\ d <= DaysOfMonth(12 * y + month - 1)
TimeExists(hour, minute, second) == hour <= 23 /\ minute <= 59 /\ second <= 59
SecondOf(hour, minute, second) == 3600 * hour + 60 * minute + second

\* What new Date(...) makes of a year that is written: the time carries over to the days.
LEMMA NewDateOfYear ==
  ASSUME NEW y \in Nat, NEW m \in Int, NEW d \in Int, NEW hour \in Nat, NEW minute \in Nat, NEW second \in Nat
  PROVE  /\ FirstOfMonth(12 * FullYearOf(y) + m) \in Int /\ SecondOf(hour, minute, second) \in Nat
         /\ NewDate(y, m, d, hour, minute, second) =
              DateOf(FirstOfMonth(12 * FullYearOf(y) + m) + d - 1 + SecondOf(hour, minute, second) \div DaySeconds,
                     SecondOf(hour, minute, second) % DaySeconds)
<1> DEFINE year == FullYearOf(y)  first == FirstOfMonth(12 * year + m)  time == SecondOf(hour, minute, second)
<1>1. year \in Int
  BY MidnightOfYear
<1>2. (12 * year + m) \div 12 = year + m \div 12 /\ (12 * year + m) % 12 = m % 12 /\ 12 * year + m \in Int
  <2>. HIDE DEF year
  <2>. QED BY SMT, <1>1
<1>3. first = DayNumber(year + m \div 12, (m % 12) + 1, 1)
  BY <1>2 DEF FirstOfMonth
<1>4. first \in Int
  BY <1>2, FirstsAreDays
<1>5. time \in Nat
  BY SMT DEF SecondOf
<1>6. NewDate(y, m, d, hour, minute, second) = Shift(DateOf(first + d - 1, 0), time)
  BY <1>3 DEF NewDate, FullYearOf, SecondOf
<1>7. Shift(DateOf(first + d - 1, 0), time) = DateOf(first + d - 1 + time \div DaySeconds, time % DaySeconds)
  <2>. HIDE DEF first, time
  <2>1. DateOf(first + d - 1, 0).day = first + d - 1 /\ DateOf(first + d - 1, 0).second + time = time
    BY SMT, <1>4, <1>5, DateParts
  <2>. QED BY <2>1 DEF Shift
<1>. QED BY <1>4, <1>5, <1>6, <1>7

\* The hours, minutes and seconds of a second of a day.
LEMMA ClockIs ==
  ASSUME NEW n, NEW s \in Nat, s < DaySeconds
  PROVE  /\ Hours(DateOf(n, s)) \in 0 .. 23 /\ Minutes(DateOf(n, s)) \in 0 .. 59 /\ Seconds(DateOf(n, s)) \in 0 .. 59
         /\ s = SecondOf(Hours(DateOf(n, s)), Minutes(DateOf(n, s)), Seconds(DateOf(n, s)))
<1> DEFINE q == s \div 60  r == s % 60  a == q \div 60  b == q % 60
<1>2. s = 60 * q + r /\ q \in Nat /\ r \in 0 .. 59
  BY SMT
<1>. HIDE DEF q, r
<1>3. q = 60 * a + b /\ a \in Nat /\ b \in 0 .. 59
  BY SMT, <1>2
<1>. HIDE DEF a, b
<1>4. s = 3600 * a + 60 * b + r /\ a <= 23 /\ s \div 3600 = a
  BY SMT, <1>2, <1>3 DEF DaySeconds
<1>1. /\ s \div 3600 \in 0 .. 23 /\ (s \div 60) % 60 \in 0 .. 59 /\ s % 60 \in 0 .. 59
      /\ s = (3600 * (s \div 3600)) + (60 * ((s \div 60) % 60)) + (s % 60)
  <2>1. (s \div 60) % 60 = b /\ s % 60 = r
    BY DEF q, r, b
  <2>2. a \in 0 .. 23
    BY SMT, <1>3, <1>4
  <2>. QED BY <1>2, <1>3, <1>4, <2>1, <2>2
<1>5. Hours(DateOf(n, s)) = s \div 3600 /\ Minutes(DateOf(n, s)) = (s \div 60) % 60 /\ Seconds(DateOf(n, s)) = s % 60
  BY DateParts DEF Hours, Minutes, Seconds
<1>. QED BY <1>1, <1>5 DEF SecondOf

\* And back.
LEMMA TimeIs ==
  ASSUME NEW n, NEW hour \in Nat, NEW minute \in Nat, NEW second \in Nat, TimeExists(hour, minute, second)
  PROVE  LET time == SecondOf(hour, minute, second)
         IN  /\ time \in Nat /\ time < DaySeconds /\ time \div DaySeconds = 0 /\ time % DaySeconds = time
             /\ Hours(DateOf(n, time)) = hour /\ Minutes(DateOf(n, time)) = minute /\ Seconds(DateOf(n, time)) = second
<1> DEFINE time == SecondOf(hour, minute, second)
<1>1. time \in Nat /\ time < DaySeconds /\ time \div DaySeconds = 0 /\ time % DaySeconds = time
  BY SMT DEF SecondOf, TimeExists, DaySeconds
<1>2. time \div 3600 = hour /\ (time \div 60) % 60 = minute /\ time % 60 = second
  <2>1. time \div 60 = 60 * hour + minute /\ time % 60 = second
    BY SMT DEF SecondOf, TimeExists
  <2>2. time \div 3600 = hour
    BY SMT DEF SecondOf, TimeExists
  <2>3. (60 * hour + minute) % 60 = minute
    BY SMT DEF TimeExists
  <2>. QED BY <2>1, <2>2, <2>3
<1>3. Hours(DateOf(n, time)) = hour /\ Minutes(DateOf(n, time)) = minute /\ Seconds(DateOf(n, time)) = second
  BY <1>2, DateParts DEF Hours, Minutes, Seconds
<1>. QED BY <1>1, <1>3

(***************************************************************************)
(* createCalendarDate gives the date of the components it is given, or,    *)
(* when there is no such day or time, an invalid one, where new Date(...)  *)
(* alone would have carried the excess over to another day or, for the     *)
(* years before 100, to another century.                                   *)
(***************************************************************************)
THEOREM CalendarDateIsExact ==
  ASSUME NEW y \in Nat, NEW month \in Int, NEW d \in Int, NEW hour \in Nat, NEW minute \in Nat, NEW second \in Nat
  PROVE  CalendarDate(y, month, d, hour, minute, second) =
           IF DayExists(y, month, d) /\ TimeExists(hour, minute, second)
           THEN DateOf(FirstOfMonth(12 * y + month - 1) + d - 1, SecondOf(hour, minute, second)) ELSE InvalidDate
<1> DEFINE m == month - 1
           date == NewDate(y, m, d, hour, minute, second)
           time == SecondOf(hour, minute, second)
           year == FullYearOf(y)
           l == 12 * y + m
           k == 12 * year + m
           Same == /\ CivilOf(date.day) = [year |-> y, month |-> m, day |-> d]
                   /\ Hours(date) = hour /\ Minutes(date) = minute /\ Seconds(date) = second
<1>1. m \in Int /\ year \in Int /\ 100 <= year /\ k \in Int /\ l \in Int /\ l = 12 * y + month - 1 /\ l + 1 = 12 * y + month
      /\ m + 1 = month
  <2>1. year \in Int /\ 100 <= year
    BY MidnightOfYear
  <2>. HIDE DEF year
  <2>. QED BY SMT, <2>1
<1>2. CalendarDate(y, month, d, hour, minute, second) = IF Same THEN date ELSE InvalidDate
  BY DEF CalendarDate
<1>. HIDE DEF m, year
<1>3. /\ FirstOfMonth(k) \in Int /\ FirstOfMonth(l) \in Int /\ FirstOfMonth(l + 1) \in Int /\ time \in Nat
      /\ date = DateOf(FirstOfMonth(k) + d - 1 + time \div DaySeconds, time % DaySeconds)
  <2>1. /\ FirstOfMonth(k) \in Int /\ time \in Nat
        /\ date = DateOf(FirstOfMonth(k) + d - 1 + time \div DaySeconds, time % DaySeconds)
    <3>1. m \in Int
      BY <1>1
    <3>. HIDE DEF l
    <3>. QED BY SMTT(30), <3>1, NewDateOfYear DEF year
  <2>2. l \in Int /\ l + 1 \in Int
    BY SMT, <1>1
  <2>. HIDE DEF l
  <2>3. FirstOfMonth(l) \in Int /\ FirstOfMonth(l + 1) \in Int
    BY <2>2, FirstsAreDays
  <2>. QED BY <2>1, <2>3
<1>. HIDE DEF date, time
<1>4. ASSUME DayExists(y, month, d), TimeExists(hour, minute, second)
      PROVE  Same /\ date = DateOf(FirstOfMonth(l) + d - 1, time)
  <2>1. k = l
    BY SMT, <1>1, <1>4 DEF DayExists, FullYearOf, year
  <2>2. time \div DaySeconds = 0 /\ time % DaySeconds = time
    BY <1>4, TimeIs DEF time
  <2>3. date = DateOf(FirstOfMonth(l) + d - 1, time)
    <3>1. FirstOfMonth(l) + d - 1 + 0 = FirstOfMonth(l) + d - 1
      BY SMT, <1>3
    <3>. QED BY <1>3, <2>1, <2>2, <3>1
  <2>4. 1 <= d /\ FirstOfMonth(l) + d - 1 < FirstOfMonth(l + 1)
    BY SMT, <1>1, <1>3, <1>4 DEF DayExists, DaysOfMonth
  <2>5. l \div 12 = y /\ l % 12 = m
    BY SMT, <1>1, <1>4 DEF DayExists
  <2>6. CivilOf(FirstOfMonth(l) + d - 1) = [year |-> y, month |-> m, day |-> d]
    BY <1>1, <2>4, <2>5, DayOfDateIsIts
  <2>7. Hours(date) = hour /\ Minutes(date) = minute /\ Seconds(date) = second
    BY <1>4, <2>3, TimeIs DEF time
  <2>. QED BY <2>3, <2>6, <2>7, DateParts
<1>5. ASSUME Same
      PROVE  DayExists(y, month, d) /\ TimeExists(hour, minute, second)
  <2>1. time % DaySeconds \in Nat /\ time % DaySeconds < DaySeconds
    BY SMT, <1>3 DEF DaySeconds
  <2>2. TimeExists(hour, minute, second)
    <3>1. hour \in 0 .. 23 /\ minute \in 0 .. 59 /\ second \in 0 .. 59
      BY <1>3, <1>5, <2>1, ClockIs
    <3>. QED BY SMT, <3>1 DEF TimeExists
  <2> DEFINE p == FirstOfMonth(k) + d - 1
  <2>3. date.day = p /\ p \in Int
    <3>1. time \div DaySeconds = 0
      BY <2>2, TimeIs DEF time
    <3>2. FirstOfMonth(k) + d - 1 + 0 = p /\ p \in Int
      BY SMT, <1>3
    <3>. QED BY <1>3, <3>1, <3>2, DateParts
  <2>. HIDE DEF p
  <2>4. CivilOf(p).year = y /\ CivilOf(p).month = m /\ CivilOf(p).day = d
    BY <1>5, <2>3
  <2>5. m \in 0 .. 11 /\ d \in 1 .. 31 /\ FirstOfMonth(l) + d - 1 = p /\ p < FirstOfMonth(l + 1)
    BY <2>3, <2>4, DateOfDayIsIts DEF MonthIndex
  <2>6. FirstOfMonth(k) = FirstOfMonth(l)
    BY SMT, <1>3, <2>5 DEF p
  <2>7. k = l
    <3>. HIDE DEF k, l
    <3>. QED BY <1>1, <2>6, MonthOfFirst
  <2>8. year = y
    BY SMT, <1>1, <2>7
  <2>9. 1 <= d /\ d <= FirstOfMonth(l + 1) - FirstOfMonth(l)
    <3>. HIDE DEF l
    <3>. QED BY SMT, <1>3, <2>5
  <2>10. 100 <= y /\ 1 <= month /\ month <= 12
    BY SMT, <1>1, <2>5, <2>8
  <2>. QED BY <1>1, <2>2, <2>9, <2>10 DEF DayExists, DaysOfMonth
<1>. QED BY <1>1, <1>2, <1>4, <1>5 DEF time


-----------------------------------------------------------------------------
(* Texts of dates *)

Marks == {"", "-", ".", "/", ":", "T", "Z", "+", " "}
Signs == {"#", "-", ".", "/", ":", "T", "Z", "+", " "}
Pieces == [lit : Marks, n : Nat]
SignOf(piece) == IF piece.lit = "" THEN "#" ELSE piece.lit

LEMMA PiecesAre ==
  /\ \A n \in Nat : Pair(n) \in Pieces /\ Pair(n).lit = "" /\ Pair(n).n = n /\ SignOf(Pair(n)) = "#"
  /\ \A mark \in Marks \ {""} : Lit(mark) \in Pieces /\ Lit(mark).lit = mark /\ SignOf(Lit(mark)) = mark
BY DEF Pair, Lit, Pieces, Marks, SignOf

LEMMA ShapeIs ==
  ASSUME NEW s \in Seq(Pieces)
  PROVE  /\ Shape(s) \in Seq(Signs) /\ Len(Shape(s)) = Len(s)
         /\ \A i \in 1 .. Len(s) : Shape(s)[i] = SignOf(s[i])
<1>1. Len(s) \in Nat /\ DOMAIN s = 1 .. Len(s) /\ \A i \in 1 .. Len(s) : s[i] \in Pieces
  BY LenProperties, ElementOfSeq
<1>2. Shape(s) = [i \in 1 .. Len(s) |-> SignOf(s[i])]
  BY <1>1 DEF Shape, SignOf
<1>3. \A piece \in Pieces : SignOf(piece) \in Signs
  BY DEF SignOf, Pieces, Signs, Marks
<1>4. \A i \in 1 .. Len(s) : SignOf(s[i]) \in Signs
  BY <1>1, <1>3
<1> DEFINE n == Len(s)  shape == [i \in 1 .. n |-> SignOf(s[i])]
<1>5. n \in Nat /\ shape \in [1 .. n -> Signs]
  BY <1>1, <1>4
<1>. HIDE DEF n
<1>6. shape \in Seq(Signs)
  BY <1>5, SeqDef
<1>7. Len(shape) = n
  <2>. HIDE DEF shape
  <2>. QED BY <1>5, <1>6, LenProperties
<1>. QED BY <1>2, <1>6, <1>7 DEF n

\* The pieces of two texts, one after the other.
LEMMA Joined ==
  ASSUME NEW S, NEW s \in Seq(S), NEW t \in Seq(S)
  PROVE  /\ s \o t \in Seq(S) /\ Len(s \o t) = Len(s) + Len(t)
         /\ \A i \in 1 .. Len(s) : (s \o t)[i] = s[i]
         /\ \A i \in 1 .. Len(t) : (s \o t)[Len(s) + i] = t[i]
<1>1. s \o t \in Seq(S) /\ Len(s \o t) = Len(s) + Len(t)
      /\ \A i \in 1 .. Len(s) + Len(t) : (s \o t)[i] = IF i <= Len(s) THEN s[i] ELSE t[i - Len(s)]
  BY ConcatProperties
<1> DEFINE m == Len(s)  n == Len(t)
<1>2. m \in Nat /\ n \in Nat
  BY LenProperties
<1>. HIDE DEF m, n
<1>3. \A i \in 1 .. m : i \in 1 .. m + n /\ i <= m
  BY SMT, <1>2
<1>4. \A i \in 1 .. n : m + i \in 1 .. m + n /\ ~ (m + i <= m) /\ m + i - m = i
  BY SMT, <1>2
<1>. QED BY <1>1, <1>3, <1>4 DEF m, n

LEMMA PiecesJoined ==
  \A s \in Seq(Pieces) : \A u \in Seq(Pieces) : \A i \in 1 .. Len(u) : (s \o u)[Len(s) + i] = u[i]
<1>1. ASSUME NEW s \in Seq(Pieces), NEW u \in Seq(Pieces)
      PROVE  \A i \in 1 .. Len(u) : (s \o u)[Len(s) + i] = u[i]
  BY Joined
<1>. QED BY <1>1

LEMMA SignsTogether ==
  \A s \in Seq(Signs) : \A u \in Seq(Signs) :
    s \o u \in Seq(Signs) /\ Len(s \o u) = Len(s) + Len(u) /\ \A i \in 1 .. Len(s) : (s \o u)[i] = s[i]
<1>1. ASSUME NEW s \in Seq(Signs), NEW u \in Seq(Signs)
      PROVE  s \o u \in Seq(Signs) /\ Len(s \o u) = Len(s) + Len(u) /\ \A i \in 1 .. Len(s) : (s \o u)[i] = s[i]
  BY Joined
<1>. QED BY <1>1

LEMMA SignsJoined ==
  \A s \in Seq(Signs) : \A u \in Seq(Signs) : \A i \in 1 .. Len(u) : (s \o u)[Len(s) + i] = u[i]
<1>1. ASSUME NEW s \in Seq(Signs), NEW u \in Seq(Signs)
      PROVE  \A i \in 1 .. Len(u) : (s \o u)[Len(s) + i] = u[i]
  BY Joined
<1>. QED BY <1>1

LEMMA YearIs ==
  ASSUME NEW y \in Nat
  PROVE  /\ YearPairs(y) \in Seq(Pieces) /\ Len(YearPairs(y)) = 2
         /\ YearPairs(y)[1] = Pair(y \div 100) /\ YearPairs(y)[2] = Pair(y % 100)
         /\ y \div 100 \in Nat /\ y % 100 \in Nat /\ 100 * (y \div 100) + (y % 100) = y
<1>1. y \div 100 \in Nat /\ y % 100 \in Nat /\ 100 * (y \div 100) + (y % 100) = y
  BY SMT
<1> DEFINE p == Pair(y \div 100)  q == Pair(y % 100)
<1>2. p \in Pieces /\ q \in Pieces
  BY <1>1, PiecesAre
<1>. HIDE DEF p, q
<1>3. <<p, q>> \in Seq(Pieces) /\ Len(<<p, q>>) = 2 /\ <<p, q>>[1] = p /\ <<p, q>>[2] = q
  BY <1>2
<1>. QED BY <1>1, <1>3 DEF YearPairs, p, q

\* A text of eight pieces or less after a year, and of four before one.
LEMMA AfterYear ==
  ASSUME NEW y \in Nat, NEW t \in Seq(Pieces), NEW n \in Nat, Len(t) = n
  PROVE  /\ YearPairs(y) \o t \in Seq(Pieces) /\ Len(YearPairs(y) \o t) = 2 + n /\ YearAt(YearPairs(y) \o t, 1) = y
         /\ SignOf((YearPairs(y) \o t)[1]) = "#" /\ SignOf((YearPairs(y) \o t)[2]) = "#"
         /\ \A i \in 1 .. n : (YearPairs(y) \o t)[2 + i] = t[i]
<1> DEFINE year == YearPairs(y)  s == year \o t
<1>1. year \in Seq(Pieces) /\ Len(year) = 2 /\ 2 \in Nat
  BY YearIs
<1>2. s \in Seq(Pieces) /\ Len(s) = 2 + n /\ (\A i \in 1 .. 2 : s[i] = year[i]) /\ (\A i \in 1 .. n : s[2 + i] = t[i])
  <2>. HIDE DEF year
  <2>1. s \in Seq(Pieces) /\ Len(s) = Len(year) + Len(t)
    BY <1>1, Joined
  <2>2. \A i \in 1 .. Len(year) : s[i] = year[i]
    BY <1>1, Joined
  <2>3. \A i \in 1 .. Len(t) : s[Len(year) + i] = t[i]
    <3>1. year \in Seq(Pieces)
      BY <1>1
    <3>. QED BY <3>1, PiecesJoined
  <2>. QED BY <1>1, <2>1, <2>2, <2>3
<1>3. year[1] = Pair(y \div 100) /\ year[2] = Pair(y % 100)
  BY YearIs
<1>. HIDE DEF year, s
<1>4. s[1] = Pair(y \div 100) /\ s[2] = Pair(y % 100)
  <2>1. 1 \in 1 .. 2 /\ 2 \in 1 .. 2
    BY SMT
  <2>. QED BY <1>2, <1>3, <2>1
<1>5. YearAt(s, 1) = y
  <2>1. s[1 + 1] = s[2]
    BY SMT
  <2>2. YearAt(s, 1) = 100 * Pair(y \div 100).n + Pair(y % 100).n
    BY <1>4, <2>1 DEF YearAt
  <2>3. Pair(y \div 100).n = y \div 100 /\ Pair(y % 100).n = y % 100
    BY DEF Pair
  <2>4. 100 * (y \div 100) + (y % 100) = y
    BY YearIs
  <2>. QED BY <2>2, <2>3, <2>4
<1>7. SignOf(s[1]) = "#" /\ SignOf(s[2]) = "#"
  <2>1. y \div 100 \in Nat /\ y % 100 \in Nat
    BY YearIs
  <2>2. SignOf(Pair(y \div 100)) = "#" /\ SignOf(Pair(y % 100)) = "#"
    BY <2>1, PiecesAre
  <2>. QED BY <1>4, <2>2
<1>. QED BY <1>2, <1>4, <1>5, <1>7 DEF s, year

LEMMA BeforeYear ==
  ASSUME NEW y \in Nat, NEW t \in Seq(Pieces), Len(t) = 4
  PROVE  /\ t \o YearPairs(y) \in Seq(Pieces) /\ Len(t \o YearPairs(y)) = 6 /\ YearAt(t \o YearPairs(y), 5) = y
         /\ SignOf((t \o YearPairs(y))[5]) = "#" /\ SignOf((t \o YearPairs(y))[6]) = "#"
         /\ (t \o YearPairs(y))[1] = t[1] /\ (t \o YearPairs(y))[2] = t[2]
         /\ (t \o YearPairs(y))[3] = t[3] /\ (t \o YearPairs(y))[4] = t[4]
<1> DEFINE year == YearPairs(y)  s == t \o year
<1>1. year \in Seq(Pieces) /\ Len(year) = 2 /\ 2 \in Nat /\ 4 \in Nat
  BY YearIs
<1>2. s \in Seq(Pieces) /\ Len(s) = 4 + 2 /\ (\A i \in 1 .. 4 : s[i] = t[i]) /\ (\A i \in 1 .. 2 : s[4 + i] = year[i])
  <2>. HIDE DEF year
  <2>1. s \in Seq(Pieces) /\ Len(s) = Len(t) + Len(year)
    BY <1>1, Joined
  <2>2. \A i \in 1 .. Len(t) : s[i] = t[i]
    BY ZenonT(30), <1>1, Joined
  <2>3. \A i \in 1 .. Len(year) : s[Len(t) + i] = year[i]
    <3>1. year \in Seq(Pieces)
      BY <1>1
    <3>. QED BY <3>1, PiecesJoined
  <2>. QED BY <1>1, <2>1, <2>2, <2>3
<1>3. year[1] = Pair(y \div 100) /\ year[2] = Pair(y % 100)
  BY YearIs
<1>. HIDE DEF year, s
<1>4. s[1] = t[1] /\ s[2] = t[2] /\ s[3] = t[3] /\ s[4] = t[4] /\ Len(s) = 6
  BY SMT, <1>2
<1>5. s[5] = Pair(y \div 100) /\ s[6] = Pair(y % 100)
  <2>1. 1 \in 1 .. 2 /\ 2 \in 1 .. 2 /\ 4 + 1 = 5 /\ 4 + 2 = 6
    BY SMT
  <2>. QED BY <1>2, <1>3, <2>1
<1>6. YearAt(s, 5) = y
  <2>1. s[5 + 1] = s[6]
    BY SMT
  <2>2. YearAt(s, 5) = 100 * Pair(y \div 100).n + Pair(y % 100).n
    BY <1>5, <2>1 DEF YearAt
  <2>3. Pair(y \div 100).n = y \div 100 /\ Pair(y % 100).n = y % 100
    BY DEF Pair
  <2>4. 100 * (y \div 100) + (y % 100) = y
    BY YearIs
  <2>. QED BY <2>2, <2>3, <2>4
<1>7. SignOf(s[5]) = "#" /\ SignOf(s[6]) = "#"
  <2>1. y \div 100 \in Nat /\ y % 100 \in Nat
    BY YearIs
  <2>2. SignOf(Pair(y \div 100)) = "#" /\ SignOf(Pair(y % 100)) = "#"
    BY <2>1, PiecesAre
  <2>. QED BY <1>5, <2>2
<1>. QED BY <1>2, <1>4, <1>5, <1>6, <1>7 DEF s, year


\* A suffix that differs in one place is not there.
LEMMA NotEnding ==
  ASSUME NEW s \in Seq(Signs), NEW u \in Seq(Signs), NEW m \in Int, NEW i \in 1 .. Len(u),
         m \in 1 .. Len(s), Len(u) = Len(s) - m + 1, s[m + i - 1] # u[i]
  PROVE  SubSeq(s, m, Len(s)) # u
<1> DEFINE n == Len(s)
<1>1. n \in Nat /\ (\A j \in 1 .. n : s[j] \in Signs)
  BY LenProperties, ElementOfSeq
<1>. HIDE DEF n
<1>2. n \in Int /\ (\A j \in m .. n : s[j] \in Signs)
  BY SMT, <1>1
<1>3. \A j \in 1 .. n - m + 1 : SubSeq(s, m, n)[j] = s[m + j - 1]
  BY <1>2, SubSeqProperties
<1>. QED BY <1>3 DEF n

\* The suffixes of the zones.
LEMMA SuffixesAre ==
  /\ <<"Z">> \in Seq(Signs) /\ Len(<<"Z">>) = 1
  /\ <<"+", "#", ":", "#">> \in Seq(Signs) /\ Len(<<"+", "#", ":", "#">>) = 4
  /\ <<"-", "#", ":", "#">> \in Seq(Signs) /\ Len(<<"-", "#", ":", "#">>) = 4
  /\ <<"+", "#", "#">> \in Seq(Signs) /\ Len(<<"+", "#", "#">>) = 3
  /\ <<"-", "#", "#">> \in Seq(Signs) /\ Len(<<"-", "#", "#">>) = 3
BY DEF Signs

\* A text that ends in a number, with no plus or minus before it, has no zone.
LEMMA NoZone ==
  ASSUME NEW s \in Seq(Pieces), 4 <= Len(s), SignOf(s[Len(s)]) = "#",
         SignOf(s[Len(s) - 2]) \notin {"+", "-"}, SignOf(s[Len(s) - 3]) \notin {"+", "-"}
  PROVE  ZoneLength(s) = 0
<1> DEFINE sh == Shape(s)  n == Len(sh)
<1>1. sh \in Seq(Signs) /\ n = Len(s) /\ \A i \in 1 .. n : sh[i] = SignOf(s[i])
  BY ShapeIs
<1>2. n \in Nat /\ 4 <= n /\ n \in 1 .. n /\ n - 2 \in 1 .. n /\ n - 3 \in 1 .. n
  <2>1. n \in Nat
    BY <1>1, LenProperties
  <2>. HIDE DEF n
  <2>. QED BY SMT, <1>1, <2>1
<1>3. sh[n] = "#" /\ sh[n - 2] \notin {"+", "-"} /\ sh[n - 3] \notin {"+", "-"}
  BY <1>1, <1>2
<1>. HIDE DEF sh
<1>4. SubSeq(sh, n, n) # <<"Z">>
  <2> DEFINE u == <<"Z">>
  <2>1. u \in Seq(Signs) /\ Len(u) = n - n + 1 /\ 1 \in 1 .. Len(u) /\ u[1] = "Z" /\ n + 1 - 1 = n
    BY SMT, <1>2, SuffixesAre
  <2>2. sh[n + 1 - 1] # u[1]
    BY <1>3, <2>1
  <2>. HIDE DEF u
  <2>3. SubSeq(sh, n, n) # u
    BY <1>1, <1>2, <2>1, <2>2, NotEnding
  <2>. QED BY <2>3 DEF u
<1>5. ASSUME NEW sign \in {"+", "-"}
      PROVE  SubSeq(sh, n - 3, n) # <<sign, "#", ":", "#">> /\ SubSeq(sh, n - 2, n) # <<sign, "#", "#">>
  <2> DEFINE u == <<sign, "#", ":", "#">>  v == <<sign, "#", "#">>
  <2>1. u \in Seq(Signs) /\ Len(u) = 4 /\ v \in Seq(Signs) /\ Len(v) = 3 /\ u[1] = sign /\ v[1] = sign
    BY SuffixesAre
  <2>. HIDE DEF u, v
  <2>2. /\ Len(u) = n - (n - 3) + 1 /\ Len(v) = n - (n - 2) + 1 /\ 1 \in 1 .. Len(u) /\ 1 \in 1 .. Len(v)
        /\ n - 3 + 1 - 1 = n - 3 /\ n - 2 + 1 - 1 = n - 2 /\ n - 3 \in Int /\ n - 2 \in Int
    BY SMT, <1>2, <2>1
  <2>3. sh[n - 3 + 1 - 1] # u[1] /\ sh[n - 2 + 1 - 1] # v[1]
    BY <1>3, <2>1, <2>2
  <2>4. SubSeq(sh, n - 3, n) # u
    BY <1>1, <1>2, <2>1, <2>2, <2>3, NotEnding
  <2>5. SubSeq(sh, n - 2, n) # v
    BY <1>1, <1>2, <2>1, <2>2, <2>3, NotEnding
  <2>. QED BY <2>4, <2>5 DEF u, v
<1>6. n - 1 + 1 = n /\ n - 4 + 1 = n - 3 /\ n - 3 + 1 = n - 2
  BY SMT, <1>2
<1>7. /\ SubSeq(sh, n - Len(<<"Z">>) + 1, n) # <<"Z">>
      /\ \A sign \in {"+", "-"} : /\ SubSeq(sh, n - Len(<<sign, "#", ":", "#">>) + 1, n) # <<sign, "#", ":", "#">>
                                  /\ SubSeq(sh, n - Len(<<sign, "#", "#">>) + 1, n) # <<sign, "#", "#">>
  BY <1>4, <1>5, <1>6, SuffixesAre
<1>. QED BY <1>7 DEF ZoneLength, sh

\* What ISO dates have in common.
LEMMA IsoDateIs == IsoDate \in Seq(Signs) /\ Len(IsoDate) = 6 /\ IsoDate[3] = "-"
BY SMT DEF IsoDate, Signs

LEMMA TimesAre ==
  /\ \A separator \in IsoSeparators : <<separator, "#">> \in Seq(Signs) /\ Len(<<separator, "#">>) = 2
  /\ IsoMinutes \subseteq Seq(Signs)
<1>1. <<"T", "#">> \in Seq(Signs) /\ Len(<<"T", "#">>) = 2
  BY DEF Signs
<1>2. <<" ", "#">> \in Seq(Signs) /\ Len(<<" ", "#">>) = 2
  BY DEF Signs
<1>3. <<":", "#">> \in Seq(Signs)
  BY DEF Signs
<1>4. <<":", "#", ":", "#">> \in Seq(Signs)
  BY DEF Signs
<1>5. <<>> \in Seq(Signs)
  BY EmptySeq
<1>6. \A separator \in IsoSeparators : <<separator, "#">> \in Seq(Signs) /\ Len(<<separator, "#">>) = 2
  BY <1>1, <1>2 DEF IsoSeparators
<1>7. IsoMinutes \subseteq Seq(Signs)
  BY <1>3, <1>4, <1>5 DEF IsoMinutes
<1>. QED BY <1>6, <1>7

LEMMA FirstPlaces ==
  ASSUME NEW a \in Seq(Signs), NEW b \in Seq(Signs), NEW c \in Seq(Signs), NEW i \in 1 .. Len(a)
  PROVE  (a \o b \o c)[i] = a[i]
<1> DEFINE d == a \o b
<1>1. d \in Seq(Signs) /\ Len(d) = Len(a) + Len(b) /\ \A j \in 1 .. Len(a) : d[j] = a[j]
  <2>1. d \in Seq(Signs)
    BY Joined
  <2>2. Len(d) = Len(a) + Len(b)
    BY Joined
  <2>3. \A j \in 1 .. Len(a) : d[j] = a[j]
    BY Joined
  <2>. QED BY <2>1, <2>2, <2>3
<1>2. Len(a) \in Nat /\ Len(b) \in Nat
  BY LenProperties
<1>. HIDE DEF d
<1>3. i \in 1 .. Len(d)
  <2> DEFINE m == Len(a)  n == Len(b)
  <2>1. m \in Nat /\ n \in Nat /\ Len(d) = m + n /\ i \in 1 .. m
    BY <1>1, <1>2
  <2>. HIDE DEF m, n
  <2>. QED BY SMT, <2>1
<1>4. \A j \in 1 .. Len(d) : (d \o c)[j] = d[j]
  <2>1. d \in Seq(Signs)
    BY <1>1
  <2>. QED BY <2>1, Joined
<1>. QED BY <1>1, <1>3, <1>4 DEF d

LEMMA IsoShapesBegin ==
  ASSUME NEW x \in IsoShapes
  PROVE  x[3] = "-"
<1>1. IsoDate \in Seq(Signs) /\ 3 \in 1 .. Len(IsoDate) /\ IsoDate[3] = "-"
  BY SMT, IsoDateIs
<1>2. ASSUME NEW separator \in IsoSeparators, NEW minutes \in IsoMinutes
      PROVE  IsoTime(separator, minutes)[3] = "-"
  <2> DEFINE b == <<separator, "#">>
  <2>1. b \in Seq(Signs) /\ minutes \in Seq(Signs)
    BY TimesAre
  <2>. HIDE DEF b
  <2>2. (IsoDate \o b \o minutes)[3] = IsoDate[3]
    BY <1>1, <2>1, FirstPlaces
  <2>. QED BY <1>1, <2>2 DEF b, IsoTime
<1>3. x = IsoDate \/ \E separator \in IsoSeparators, minutes \in IsoMinutes : x = IsoTime(separator, minutes)
  BY SMT DEF IsoShapes
<1>. QED BY Zenon, <1>1, <1>2, <1>3

LEMMA NotIso ==
  ASSUME NEW s \in Seq(Pieces), 3 <= Len(s), SignOf(s[3]) # "-"
  PROVE  ParseIsoLocal(s) = NoDate
<1>1. 3 \in 1 .. Len(s)
  BY SMT, LenProperties
<1>2. Shape(s)[3] # "-"
  BY <1>1, ShapeIs
<1>. QED BY <1>2, IsoShapesBegin DEF ParseIsoLocal

LEMMA NotDigits ==
  ASSUME NEW s \in Seq(Pieces), NEW i \in 1 .. Len(s), SignOf(s[i]) # "#"
  PROVE  ~ IsDigits(s)
<1>1. DOMAIN s = 1 .. Len(s)
  BY LenProperties
<1>. QED BY <1>1 DEF IsDigits, SignOf

\* The first result is that of the only way to read a text.
LEMMA FirstIs ==
  ASSUME NEW S, NEW s \in Seq(S), NEW k \in 1 .. Len(s), \A i \in 1 .. k - 1 : s[i] = NoDate,
         s[k] # NoDate \/ \A i \in k + 1 .. Len(s) : s[i] = NoDate
  PROVE  FirstOf(s) = s[k]
<1> DEFINE n == Len(s)  found == {i \in 1 .. n : s[i] # NoDate}
<1>1. n \in Nat /\ DOMAIN s = 1 .. n
  BY LenProperties
<1>2. FirstOf(s) = IF found = {} THEN NoDate ELSE s[CHOOSE i \in found : \A j \in found : i <= j]
  BY <1>1 DEF FirstOf
<1>3. CASE s[k] = NoDate
  <2>1. \A i \in 1 .. n : i \in 1 .. k - 1 \/ i = k \/ i \in k + 1 .. n
    <3>. HIDE DEF n
    <3>. QED BY SMT, <1>1
  <2>2. found = {}
    BY <1>3, <2>1
  <2>. QED BY <1>2, <1>3, <2>2
<1>4. CASE s[k] # NoDate
  <2>1. k \in found /\ \A i \in found : k <= i
    <3>1. \A i \in 1 .. n : i \in 1 .. k - 1 \/ k <= i
      <4>. HIDE DEF n
      <4>. QED BY SMT, <1>1
    <3>. QED BY <1>4, <3>1
  <2>2. \A i \in found : (\A j \in found : i <= j) => i = k
    <3>1. \A i \in 1 .. n : k <= i /\ i <= k => i = k
      BY SMT
    <3>. QED BY <2>1, <3>1
  <2>3. (CHOOSE i \in found : \A j \in found : i <= j) = k
    <3>. HIDE DEF found
    <3>. QED BY <2>1, <2>2
  <2>. QED BY <1>2, <2>1, <2>3
<1>. QED BY <1>3, <1>4


-----------------------------------------------------------------------------
(* The four ways to write a date *)

IsoText(y, month, d, hour) ==
  YearPairs(y) \o <<Lit("-"), Pair(month), Lit("-"), Pair(d), Lit("T"), Pair(hour), Lit(":"), Pair(59)>>
CompactText(y, month, d) == YearPairs(y) \o <<Pair(month), Pair(d)>>
\* DD.MM.YYYY and MM/DD/YYYY
Points == {".", "/"}
PointedText(mark, a, b, y) == <<Pair(a), Lit(mark), Pair(b), Lit(mark)>> \o YearPairs(y)

LEMMA Tuples ==
  ASSUME NEW S, NEW a \in S, NEW b \in S, NEW c \in S, NEW d \in S, NEW e \in S, NEW f \in S, NEW g \in S, NEW h \in S
  PROVE  /\ <<a, b>> \in Seq(S) /\ Len(<<a, b>>) = 2
         /\ <<a, b, c, d>> \in Seq(S) /\ Len(<<a, b, c, d>>) = 4
         /\ <<a, b, c, d, e, f>> \in Seq(S) /\ Len(<<a, b, c, d, e, f>>) = 6
         /\ <<a, b, c, d, e, f, g>> \in Seq(S) /\ Len(<<a, b, c, d, e, f, g>>) = 7
         /\ <<a, b, c, d, e, f, g, h>> \in Seq(S) /\ Len(<<a, b, c, d, e, f, g, h>>) = 8
BY SMT

LEMMA IsoTextIs ==
  ASSUME NEW y \in Nat, NEW month \in Nat, NEW d \in Nat, NEW hour \in Nat
  PROVE  /\ IsoText(y, month, d, hour) \in Seq(Pieces) /\ Len(IsoText(y, month, d, hour)) = 10 /\ YearAt(IsoText(y, month, d, hour), 1) = y
         /\ SignOf(IsoText(y, month, d, hour)[1]) = "#" /\ SignOf(IsoText(y, month, d, hour)[2]) = "#"
         /\ IsoText(y, month, d, hour)[3] = Lit("-") /\ IsoText(y, month, d, hour)[4] = Pair(month) /\ IsoText(y, month, d, hour)[5] = Lit("-") /\ IsoText(y, month, d, hour)[6] = Pair(d)
         /\ IsoText(y, month, d, hour)[7] = Lit("T") /\ IsoText(y, month, d, hour)[8] = Pair(hour) /\ IsoText(y, month, d, hour)[9] = Lit(":") /\ IsoText(y, month, d, hour)[10] = Pair(59)
<1> DEFINE s == IsoText(y, month, d, hour)  t == <<Lit("-"), Pair(month), Lit("-"), Pair(d), Lit("T"), Pair(hour), Lit(":"), Pair(59)>>
<1>1. t \in Seq(Pieces) /\ Len(t) = 8
  <2>1. Lit("-") \in Pieces /\ Lit("T") \in Pieces /\ Lit(":") \in Pieces
    BY PiecesAre DEF Marks
  <2>2. Pair(month) \in Pieces /\ Pair(d) \in Pieces /\ Pair(hour) \in Pieces /\ Pair(59) \in Pieces
    BY PiecesAre
  <2>. QED BY <2>1, <2>2, Tuples
<1>2. /\ t[1] = Lit("-") /\ t[2] = Pair(month) /\ t[3] = Lit("-") /\ t[4] = Pair(d)
      /\ t[5] = Lit("T") /\ t[6] = Pair(hour) /\ t[7] = Lit(":") /\ t[8] = Pair(59)
  OBVIOUS
<1>3. s = YearPairs(y) \o t
  BY DEF IsoText
<1>. HIDE DEF t, s
<1>4. /\ s \in Seq(Pieces) /\ Len(s) = 2 + 8 /\ YearAt(s, 1) = y
      /\ SignOf(s[1]) = "#" /\ SignOf(s[2]) = "#" /\ \A i \in 1 .. 8 : s[2 + i] = t[i]
  <2>1. t \in Seq(Pieces) /\ Len(t) = 8 /\ 8 \in Nat
    BY <1>1
  <2>2. /\ YearPairs(y) \o t \in Seq(Pieces) /\ Len(YearPairs(y) \o t) = 2 + 8 /\ YearAt(YearPairs(y) \o t, 1) = y
        /\ SignOf((YearPairs(y) \o t)[1]) = "#" /\ SignOf((YearPairs(y) \o t)[2]) = "#"
    BY ZenonT(30), <2>1, AfterYear
  <2>3. \A i \in 1 .. 8 : (YearPairs(y) \o t)[2 + i] = t[i]
    BY <2>1, AfterYear
  <2>. QED BY <1>3, <2>2, <2>3
<1>6. s[3] = t[1] /\ s[4] = t[2] /\ s[5] = t[3] /\ s[6] = t[4] /\ s[7] = t[5] /\ s[8] = t[6] /\ s[9] = t[7] /\ s[10] = t[8]
  BY SMT, <1>4
<1>. QED BY <1>2, <1>4, <1>6 DEF s

LEMMA CompactTextIs ==
  ASSUME NEW y \in Nat, NEW month \in Nat, NEW d \in Nat
  PROVE  /\ CompactText(y, month, d) \in Seq(Pieces) /\ Len(CompactText(y, month, d)) = 4 /\ YearAt(CompactText(y, month, d), 1) = y
         /\ SignOf(CompactText(y, month, d)[1]) = "#" /\ SignOf(CompactText(y, month, d)[2]) = "#" /\ CompactText(y, month, d)[3] = Pair(month) /\ CompactText(y, month, d)[4] = Pair(d)
<1> DEFINE s == CompactText(y, month, d)  t == <<Pair(month), Pair(d)>>
<1>1. t \in Seq(Pieces) /\ Len(t) = 2
  <2>1. Pair(month) \in Pieces /\ Pair(d) \in Pieces
    BY PiecesAre
  <2>. QED BY <2>1, Tuples
<1>2. t[1] = Pair(month) /\ t[2] = Pair(d)
  OBVIOUS
<1>3. s = YearPairs(y) \o t
  BY DEF CompactText
<1>. HIDE DEF t, s
<1>4. /\ s \in Seq(Pieces) /\ Len(s) = 2 + 2 /\ YearAt(s, 1) = y
      /\ SignOf(s[1]) = "#" /\ SignOf(s[2]) = "#" /\ \A i \in 1 .. 2 : s[2 + i] = t[i]
  <2>1. t \in Seq(Pieces) /\ Len(t) = 2 /\ 2 \in Nat
    BY <1>1
  <2>2. /\ YearPairs(y) \o t \in Seq(Pieces) /\ Len(YearPairs(y) \o t) = 2 + 2 /\ YearAt(YearPairs(y) \o t, 1) = y
        /\ SignOf((YearPairs(y) \o t)[1]) = "#" /\ SignOf((YearPairs(y) \o t)[2]) = "#"
    BY ZenonT(30), <2>1, AfterYear
  <2>3. \A i \in 1 .. 2 : (YearPairs(y) \o t)[2 + i] = t[i]
    BY <2>1, AfterYear
  <2>. QED BY <1>3, <2>2, <2>3
<1>6. s[3] = t[1] /\ s[4] = t[2]
  BY SMT, <1>4
<1>. QED BY <1>2, <1>4, <1>6 DEF s

LEMMA PointedTextIs ==
  ASSUME NEW y \in Nat, NEW a \in Nat, NEW b \in Nat, NEW mark \in Points
  PROVE  /\ PointedText(mark, a, b, y) \in Seq(Pieces) /\ Len(PointedText(mark, a, b, y)) = 6 /\ YearAt(PointedText(mark, a, b, y), 5) = y
         /\ PointedText(mark, a, b, y)[1] = Pair(a) /\ PointedText(mark, a, b, y)[2] = Lit(mark) /\ PointedText(mark, a, b, y)[3] = Pair(b) /\ PointedText(mark, a, b, y)[4] = Lit(mark)
         /\ SignOf(PointedText(mark, a, b, y)[5]) = "#" /\ SignOf(PointedText(mark, a, b, y)[6]) = "#"
<1> DEFINE s == PointedText(mark, a, b, y)  t == <<Pair(a), Lit(mark), Pair(b), Lit(mark)>>
<1>1. t \in Seq(Pieces) /\ Len(t) = 4
  <2>1. Pair(a) \in Pieces /\ Pair(b) \in Pieces /\ Lit(mark) \in Pieces
    BY PiecesAre DEF Marks, Points
  <2>. QED BY <2>1, Tuples
<1>2. t[1] = Pair(a) /\ t[2] = Lit(mark) /\ t[3] = Pair(b) /\ t[4] = Lit(mark) /\ s = t \o YearPairs(y)
  BY DEF PointedText
<1>. HIDE DEF t, s
<1>4. /\ s \in Seq(Pieces) /\ Len(s) = 6 /\ YearAt(s, 5) = y
      /\ SignOf(s[5]) = "#" /\ SignOf(s[6]) = "#"
      /\ s[1] = t[1] /\ s[2] = t[2] /\ s[3] = t[3] /\ s[4] = t[4]
  <2>1. s = t \o YearPairs(y)
    BY <1>2
  <2>2. /\ t \o YearPairs(y) \in Seq(Pieces) /\ Len(t \o YearPairs(y)) = 6 /\ YearAt(t \o YearPairs(y), 5) = y
        /\ SignOf((t \o YearPairs(y))[5]) = "#" /\ SignOf((t \o YearPairs(y))[6]) = "#"
    BY <1>1, BeforeYear
  <2>3. /\ (t \o YearPairs(y))[1] = t[1] /\ (t \o YearPairs(y))[2] = t[2]
        /\ (t \o YearPairs(y))[3] = t[3] /\ (t \o YearPairs(y))[4] = t[4]
    BY <1>1, BeforeYear
  <2>. QED BY <2>1, <2>2, <2>3
<1>. QED BY <1>2, <1>4 DEF s

LEMMA Shapes ==
  /\ <<"#", ".", "#", ".", "#", "#">> \in Seq(Signs) /\ Len(<<"#", ".", "#", ".", "#", "#">>) = 6
  /\ <<"#", "/", "#", "/", "#", "#">> \in Seq(Signs) /\ Len(<<"#", "/", "#", "/", "#", "#">>) = 6
  /\ <<"T", "#">> \in Seq(Signs) /\ Len(<<"T", "#">>) = 2
  /\ <<":", "#">> \in Seq(Signs) /\ Len(<<":", "#">>) = 2
BY DEF Signs

LEMMA SameSixPlaces ==
  ASSUME NEW S, NEW s \in Seq(S), NEW t \in Seq(S), Len(s) = 6, Len(t) = 6,
         s[1] = t[1], s[2] = t[2], s[3] = t[3], s[4] = t[4], s[5] = t[5], s[6] = t[6]
  PROVE  s = t
<1>1. \A i \in 1 .. 6 : i = 1 \/ i = 2 \/ i = 3 \/ i = 4 \/ i = 5 \/ i = 6
  BY SMT
<1>2. \A i \in 1 .. Len(s) : s[i] = t[i]
  BY <1>1
<1>. QED BY <1>2, SeqEqual

LEMMA ShapeOfPointed ==
  ASSUME NEW y \in Nat, NEW a \in Nat, NEW b \in Nat, NEW mark \in Points
  PROVE  Shape(PointedText(mark, a, b, y)) = <<"#", mark, "#", mark, "#", "#">>
<1> DEFINE s == PointedText(mark, a, b, y)
           t == <<"#", mark, "#", mark, "#", "#">>
<1>1. /\ s \in Seq(Pieces) /\ Len(s) = 6
      /\ s[1] = Pair(a) /\ s[2] = Lit(mark) /\ s[3] = Pair(b) /\ s[4] = Lit(mark)
      /\ SignOf(s[5]) = "#" /\ SignOf(s[6]) = "#"
  <2>1. s \in Seq(Pieces) /\ Len(s) = 6
    BY PointedTextIs
  <2>2. s[1] = Pair(a) /\ s[2] = Lit(mark) /\ s[3] = Pair(b) /\ s[4] = Lit(mark)
    BY PointedTextIs
  <2>3. SignOf(s[5]) = "#" /\ SignOf(s[6]) = "#"
    BY PointedTextIs
  <2>. QED BY <2>1, <2>2, <2>3
<1>2. t \in Seq(Signs) /\ Len(t) = 6 /\ t[1] = "#" /\ t[2] = mark /\ t[3] = "#" /\ t[4] = mark /\ t[5] = "#" /\ t[6] = "#"
  BY Shapes DEF Points
<1>3. SignOf(Pair(a)) = "#" /\ SignOf(Pair(b)) = "#" /\ SignOf(Lit(mark)) = mark
  BY PiecesAre DEF Marks, Points
<1>. HIDE DEF s, t
<1>4. Shape(s) \in Seq(Signs) /\ Len(Shape(s)) = 6 /\ \A i \in 1 .. 6 : Shape(s)[i] = SignOf(s[i])
  BY <1>1, ShapeIs
<1>5. 1 \in 1 .. 6 /\ 2 \in 1 .. 6 /\ 3 \in 1 .. 6 /\ 4 \in 1 .. 6 /\ 5 \in 1 .. 6 /\ 6 \in 1 .. 6
  BY SMT
<1>6. /\ Shape(s)[1] = t[1] /\ Shape(s)[2] = t[2] /\ Shape(s)[3] = t[3]
      /\ Shape(s)[4] = t[4] /\ Shape(s)[5] = t[5] /\ Shape(s)[6] = t[6]
  BY <1>1, <1>2, <1>3, <1>4, <1>5
<1>7. Shape(s) = t
  BY <1>2, <1>4, <1>6, SameSixPlaces
<1>. QED BY <1>7 DEF s, t

LEMMA ShapeOfIso ==
  ASSUME NEW y \in Nat, NEW month \in Nat, NEW d \in Nat, NEW hour \in Nat
  PROVE  Shape(IsoText(y, month, d, hour)) = IsoDate \o <<"T", "#">> \o <<":", "#">>
<1> DEFINE s == IsoText(y, month, d, hour)  sh == Shape(s)
           a == IsoDate  b == <<"T", "#">>  c == <<":", "#">>  e == a \o b  t == e \o c
<1>1. a \in Seq(Signs) /\ Len(a) = 6 /\ a[1] = "#" /\ a[2] = "#" /\ a[3] = "-" /\ a[4] = "#" /\ a[5] = "-" /\ a[6] = "#"
  BY IsoDateIs DEF IsoDate
<1>2. b \in Seq(Signs) /\ Len(b) = 2 /\ b[1] = "T" /\ b[2] = "#" /\ c \in Seq(Signs) /\ Len(c) = 2 /\ c[1] = ":" /\ c[2] = "#"
  BY Shapes
<1>3. /\ s \in Seq(Pieces) /\ Len(s) = 10
      /\ SignOf(s[1]) = "#" /\ SignOf(s[2]) = "#"
      /\ s[3] = Lit("-") /\ s[4] = Pair(month) /\ s[5] = Lit("-") /\ s[6] = Pair(d)
      /\ s[7] = Lit("T") /\ s[8] = Pair(hour) /\ s[9] = Lit(":") /\ s[10] = Pair(59)
  BY IsoTextIs
<1>4. /\ SignOf(Pair(month)) = "#" /\ SignOf(Pair(d)) = "#" /\ SignOf(Pair(hour)) = "#" /\ SignOf(Pair(59)) = "#"
      /\ SignOf(Lit("-")) = "-" /\ SignOf(Lit("T")) = "T" /\ SignOf(Lit(":")) = ":"
  BY PiecesAre DEF Marks
<1>. HIDE DEF a, b, c, s
<1>5. sh \in Seq(Signs) /\ Len(sh) = 10 /\ \A i \in 1 .. 10 : sh[i] = SignOf(s[i])
  BY <1>3, ShapeIs
<1>6. e \in Seq(Signs) /\ Len(e) = 8 /\ (\A i \in 1 .. 6 : e[i] = a[i]) /\ (\A i \in 1 .. 2 : e[6 + i] = b[i])
  <2>1. e \in Seq(Signs) /\ Len(e) = 6 + 2
    <3>1. a \in Seq(Signs) /\ b \in Seq(Signs)
      BY <1>1, <1>2
    <3>. QED BY ZenonT(30), <1>1, <1>2, <3>1, SignsTogether
  <2>2. \A i \in 1 .. Len(a) : e[i] = a[i]
    <3>1. a \in Seq(Signs) /\ b \in Seq(Signs)
      BY <1>1, <1>2
    <3>. QED BY <3>1, SignsTogether
  <2>3. \A i \in 1 .. Len(b) : e[Len(a) + i] = b[i]
    BY <1>1, <1>2, SignsJoined
  <2>. QED BY SMTT(30), <1>1, <1>2, <2>1, <2>2, <2>3
<1>. HIDE DEF e
<1>7. t \in Seq(Signs) /\ Len(t) = 10 /\ (\A i \in 1 .. 8 : t[i] = e[i]) /\ (\A i \in 1 .. 2 : t[8 + i] = c[i])
  <2>1. t \in Seq(Signs) /\ Len(t) = 8 + 2
    <3>1. e \in Seq(Signs) /\ c \in Seq(Signs)
      BY <1>2, <1>6
    <3>2. Len(e) = 8 /\ Len(c) = 2
      BY <1>2, <1>6
    <3>3. t \in Seq(Signs)
      BY <3>1, SignsTogether
    <3>4. Len(t) = Len(e) + Len(c)
      BY <3>1, SignsTogether
    <3>. QED BY <3>2, <3>3, <3>4
  <2>2. \A i \in 1 .. Len(e) : t[i] = e[i]
    <3>1. e \in Seq(Signs) /\ c \in Seq(Signs)
      BY <1>2, <1>6
    <3>. QED BY <3>1, SignsTogether
  <2>3. \A i \in 1 .. Len(c) : t[Len(e) + i] = c[i]
    BY <1>2, <1>6, SignsJoined
  <2>. QED BY SMTT(30), <1>2, <1>6, <2>1, <2>2, <2>3
<1>. HIDE DEF t, sh
<1>8. /\ t[1] = a[1] /\ t[2] = a[2] /\ t[3] = a[3] /\ t[4] = a[4] /\ t[5] = a[5] /\ t[6] = a[6]
      /\ t[7] = b[1] /\ t[8] = b[2] /\ t[9] = c[1] /\ t[10] = c[2]
  <2>1. /\ e[1] = a[1] /\ e[2] = a[2] /\ e[3] = a[3] /\ e[4] = a[4] /\ e[5] = a[5] /\ e[6] = a[6]
        /\ e[7] = b[1] /\ e[8] = b[2]
    BY SMT, <1>6
  <2>2. /\ t[1] = e[1] /\ t[2] = e[2] /\ t[3] = e[3] /\ t[4] = e[4] /\ t[5] = e[5] /\ t[6] = e[6]
        /\ t[7] = e[7] /\ t[8] = e[8] /\ t[9] = c[1] /\ t[10] = c[2]
    BY SMT, <1>7
  <2>. QED BY <2>1, <2>2
<1>9. /\ sh[1] = "#" /\ sh[2] = "#" /\ sh[3] = "-" /\ sh[4] = "#" /\ sh[5] = "-" /\ sh[6] = "#"
      /\ sh[7] = "T" /\ sh[8] = "#" /\ sh[9] = ":" /\ sh[10] = "#"
  <2>1. /\ sh[1] = SignOf(s[1]) /\ sh[2] = SignOf(s[2]) /\ sh[3] = SignOf(s[3]) /\ sh[4] = SignOf(s[4]) /\ sh[5] = SignOf(s[5])
        /\ sh[6] = SignOf(s[6]) /\ sh[7] = SignOf(s[7]) /\ sh[8] = SignOf(s[8]) /\ sh[9] = SignOf(s[9]) /\ sh[10] = SignOf(s[10])
    BY SMT, <1>5
  <2>. QED BY <1>3, <1>4, <2>1
<1>10. sh = t
  <2>1. \A i \in 1 .. 10 : i = 1 \/ i = 2 \/ i = 3 \/ i = 4 \/ i = 5 \/ i = 6 \/ i = 7 \/ i = 8 \/ i = 9 \/ i = 10
    BY SMT
  <2>2. \A i \in 1 .. 10 : sh[i] = t[i]
    BY <1>1, <1>2, <1>8, <1>9, <2>1
  <2>. QED BY <1>5, <1>7, <2>2, SeqEqual
<1>. QED BY <1>10 DEF sh, s, t, e, a, b, c

\* Of the ways to read a text, the only one that reads it.
LEMMA SevenWays ==
  ASSUME NEW a, NEW b, NEW c, NEW d, NEW e, NEW f, NEW g, a = NoDate, e = NoDate
  PROVE  /\ c = NoDate /\ d = NoDate /\ f = NoDate /\ g = NoDate => FirstOf(<<a, b, c, d, e, f, g>>) = b
         /\ b = NoDate /\ d = NoDate /\ f = NoDate /\ g = NoDate => FirstOf(<<a, b, c, d, e, f, g>>) = c
         /\ b = NoDate /\ c = NoDate /\ f = NoDate /\ g = NoDate => FirstOf(<<a, b, c, d, e, f, g>>) = d
         /\ b = NoDate /\ c = NoDate /\ d = NoDate /\ f # NoDate => FirstOf(<<a, b, c, d, e, f, g>>) = f
<1> DEFINE s == <<a, b, c, d, e, f, g>>  S == {a, b, c, d, e, f, g}
<1>1. /\ s \in Seq(S) /\ Len(s) = 7
      /\ s[1] = a /\ s[2] = b /\ s[3] = c /\ s[4] = d /\ s[5] = e /\ s[6] = f /\ s[7] = g
  <2>1. a \in S /\ b \in S /\ c \in S /\ d \in S /\ e \in S /\ f \in S /\ g \in S
    OBVIOUS
  <2>. HIDE DEF S
  <2>. QED BY <2>1, Tuples
<1>. HIDE DEF s, S
<1>2. /\ 2 \in 1 .. 7 /\ 3 \in 1 .. 7 /\ 4 \in 1 .. 7 /\ 6 \in 1 .. 7
      /\ \A i \in 1 .. 2 - 1 : i = 1
      /\ \A i \in 1 .. 3 - 1 : i = 1 \/ i = 2
      /\ \A i \in 1 .. 4 - 1 : i = 1 \/ i = 2 \/ i = 3
      /\ \A i \in 1 .. 6 - 1 : i = 1 \/ i = 2 \/ i = 3 \/ i = 4 \/ i = 5
      /\ \A i \in 2 + 1 .. 7 : i = 3 \/ i = 4 \/ i = 5 \/ i = 6 \/ i = 7
      /\ \A i \in 3 + 1 .. 7 : i = 4 \/ i = 5 \/ i = 6 \/ i = 7
      /\ \A i \in 4 + 1 .. 7 : i = 5 \/ i = 6 \/ i = 7
  BY SMT
<1>3. ASSUME c = NoDate, d = NoDate, f = NoDate, g = NoDate
      PROVE  FirstOf(s) = b
  <2>1. \A i \in 1 .. 2 - 1 : s[i] = NoDate
    BY <1>1, <1>2
  <2>2. \A i \in 2 + 1 .. Len(s) : s[i] = NoDate
    BY <1>1, <1>2, <1>3
  <2>3. 2 \in 1 .. Len(s) /\ s \in Seq(S) /\ s[2] = b
    BY <1>1, <1>2
  <2>. QED BY <2>1, <2>2, <2>3, FirstIs
<1>4. ASSUME b = NoDate, d = NoDate, f = NoDate, g = NoDate
      PROVE  FirstOf(s) = c
  <2>1. \A i \in 1 .. 3 - 1 : s[i] = NoDate
    BY <1>1, <1>2, <1>4
  <2>2. \A i \in 3 + 1 .. Len(s) : s[i] = NoDate
    BY <1>1, <1>2, <1>4
  <2>3. 3 \in 1 .. Len(s) /\ s \in Seq(S) /\ s[3] = c
    BY <1>1, <1>2
  <2>. QED BY <2>1, <2>2, <2>3, FirstIs
<1>5. ASSUME b = NoDate, c = NoDate, f = NoDate, g = NoDate
      PROVE  FirstOf(s) = d
  <2>1. \A i \in 1 .. 4 - 1 : s[i] = NoDate
    BY <1>1, <1>2, <1>5
  <2>2. \A i \in 4 + 1 .. Len(s) : s[i] = NoDate
    BY <1>1, <1>2, <1>5
  <2>3. 4 \in 1 .. Len(s) /\ s \in Seq(S) /\ s[4] = d
    BY <1>1, <1>2
  <2>. QED BY <2>1, <2>2, <2>3, FirstIs
<1>6. ASSUME b = NoDate, c = NoDate, d = NoDate, f # NoDate
      PROVE  FirstOf(s) = f
  <2>1. \A i \in 1 .. 6 - 1 : s[i] = NoDate
    BY <1>1, <1>2, <1>6
  <2>3. 6 \in 1 .. Len(s) /\ s \in Seq(S) /\ s[6] = f /\ s[6] # NoDate
    BY <1>1, <1>2, <1>6
  <2>. QED BY <2>1, <2>3, FirstIs
<1>. QED BY <1>3, <1>4, <1>5, <1>6 DEF s

LEMMA FourWays ==
  ASSUME NEW a, NEW b, NEW c, NEW d, a = NoDate, b = NoDate, c = NoDate
  PROVE  FirstOf(<<a, b, c, d>>) = d
<1> DEFINE s == <<a, b, c, d>>  S == {a, b, c, d}
<1>1. s \in Seq(S) /\ Len(s) = 4 /\ s[1] = a /\ s[2] = b /\ s[3] = c /\ s[4] = d
  <2>1. a \in S /\ b \in S /\ c \in S /\ d \in S
    OBVIOUS
  <2>. HIDE DEF S
  <2>. QED BY <2>1, Tuples
<1>. HIDE DEF s, S
<1>2. 4 \in 1 .. 4 /\ (\A i \in 1 .. 4 - 1 : i = 1 \/ i = 2 \/ i = 3) /\ ~ \E i \in 4 + 1 .. 4 : TRUE
  BY SMT
<1>3. \A i \in 1 .. 4 - 1 : s[i] = NoDate
  BY <1>1, <1>2
<1>4. \A i \in 4 + 1 .. Len(s) : s[i] = NoDate
  BY <1>1, <1>2
<1>5. 4 \in 1 .. Len(s) /\ s \in Seq(S) /\ s[4] = d
  BY <1>1, <1>2
<1>6. FirstOf(s) = d
  BY <1>3, <1>4, <1>5, FirstIs
<1>. QED BY <1>6 DEF s

LEMMA IsoIsRead ==
  ASSUME NEW y \in Nat, NEW month \in Nat, NEW d \in Nat, NEW hour \in Nat, NEW mode
  PROVE  ParseDateString(IsoText(y, month, d, hour), mode) = ResultOf(CalendarDate(y, month, d, hour, 59, 0), "iso-local")
<1> DEFINE s == IsoText(y, month, d, hour)
<1>1. /\ s \in Seq(Pieces) /\ Len(s) = 10 /\ YearAt(s, 1) = y /\ SignOf(s[1]) = "#" /\ SignOf(s[2]) = "#"
      /\ s[3] = Lit("-") /\ s[4] = Pair(month) /\ s[5] = Lit("-") /\ s[6] = Pair(d)
      /\ s[7] = Lit("T") /\ s[8] = Pair(hour) /\ s[9] = Lit(":") /\ s[10] = Pair(59)
  BY IsoTextIs
<1>2. Shape(s) = IsoDate \o <<"T", "#">> \o <<":", "#">>
  BY ShapeOfIso
<1>. HIDE DEF s
<1>3. /\ SignOf(Pair(hour)) = "#" /\ SignOf(Pair(59)) = "#" /\ SignOf(Lit("-")) = "-" /\ SignOf(Lit("T")) = "T"
      /\ Pair(month).n = month /\ Pair(d).n = d /\ Pair(hour).n = hour /\ Pair(59).n = 59
  BY PiecesAre DEF Marks
<1>4. DOMAIN s = 1 .. 10
  BY <1>1, LenProperties
<1>5. 3 \in 1 .. 10 /\ 8 \in 1 .. 10 /\ 10 \in 1 .. 10 /\ 12 \notin 1 .. 10 /\ 10 - 2 = 8 /\ 10 - 3 = 7 /\ 4 <= 10
  BY SMT
<1>6. ZoneLength(s) = 0
  <2>1. /\ s \in Seq(Pieces) /\ 4 <= Len(s) /\ SignOf(s[Len(s)]) = "#"
        /\ SignOf(s[Len(s) - 2]) \notin {"+", "-"} /\ SignOf(s[Len(s) - 3]) \notin {"+", "-"}
    BY <1>1, <1>3, <1>5
  <2>. QED BY <2>1, NoZone
<1>7. ParseIsoZoned(s, mode) = NoDate
  BY <1>6 DEF ParseIsoZoned
<1>8. ParseIsoLocal(s) = ResultOf(CalendarDate(y, month, d, hour, 59, 0), "iso-local")
  <2>1. "T" \in IsoSeparators /\ <<":", "#">> \in IsoMinutes
    BY DEF IsoSeparators, IsoMinutes
  <2>2. Shape(s) = IsoTime("T", <<":", "#">>)
    BY <1>2 DEF IsoTime
  <2>3. Shape(s) \in IsoShapes
    BY <2>1, <2>2 DEF IsoShapes
  <2>4. s[4].n = month /\ s[6].n = d /\ s[8].n = hour /\ s[10].n = 59
    BY <1>1, <1>3
  <2>5. NumberAt(s, 8) = hour /\ NumberAt(s, 10) = 59 /\ NumberAt(s, 12) = 0
    BY <1>4, <1>5, <2>4 DEF NumberAt
  <2>. QED BY <1>1, <2>3, <2>4, <2>5 DEF ParseIsoLocal
<1>9. Shape(s)[3] = "-"
  <2>1. s \in Seq(Pieces) /\ 3 \in 1 .. Len(s)
    BY <1>1, <1>5
  <2>2. Shape(s)[3] = SignOf(s[3])
    BY <2>1, ShapeIs
  <2>. QED BY <1>1, <1>3, <2>2
<1>10. ~ IsDigits(s)
  BY <1>1, <1>3, <1>5, NotDigits
<1>11. ParseAbapDotted(s) = NoDate /\ ParseSlashDate(s) = NoDate
  BY <1>9 DEF ParseAbapDotted, ParseSlashDate
<1>12. ParseAbapTimestamp(s) = NoDate /\ ParseAbapCompact(s) = NoDate
  BY <1>10 DEF ParseAbapTimestamp, ParseAbapCompact
<1>. QED BY <1>7, <1>8, <1>10, <1>11, <1>12, SevenWays DEF ParseDateString, s

LEMMA PointedIsRead ==
  ASSUME NEW y \in Nat, NEW a \in Nat, NEW b \in Nat, NEW mark \in Points, NEW mode
  PROVE  ParseDateString(PointedText(mark, a, b, y), mode) =
           IF mark = "." THEN ResultOf(CalendarDate(y, b, a, 0, 0, 0), "abap-dotted")
           ELSE ResultOf(CalendarDate(y, a, b, 0, 0, 0), "slash-date")
<1> DEFINE s == PointedText(mark, a, b, y)
<1>1. /\ s \in Seq(Pieces) /\ Len(s) = 6 /\ YearAt(s, 5) = y
      /\ s[1] = Pair(a) /\ s[2] = Lit(mark) /\ s[3] = Pair(b) /\ s[4] = Lit(mark)
      /\ SignOf(s[5]) = "#" /\ SignOf(s[6]) = "#"
  <2>1. s \in Seq(Pieces) /\ Len(s) = 6 /\ YearAt(s, 5) = y
    BY PointedTextIs
  <2>2. s[1] = Pair(a) /\ s[2] = Lit(mark) /\ s[3] = Pair(b) /\ s[4] = Lit(mark)
    BY PointedTextIs
  <2>3. SignOf(s[5]) = "#" /\ SignOf(s[6]) = "#"
    BY PointedTextIs
  <2>. QED BY <2>1, <2>2, <2>3
<1>2. Shape(s) = <<"#", mark, "#", mark, "#", "#">>
  BY ShapeOfPointed
<1>. HIDE DEF s
<1>3. Pair(a).n = a /\ Pair(b).n = b /\ SignOf(Pair(b)) = "#" /\ SignOf(Lit(mark)) = mark
  BY PiecesAre DEF Marks, Points
<1>4. mark = "." \/ mark = "/"
  BY DEF Points
<1>5. 2 \in 1 .. 6 /\ 4 \in 1 .. 6 /\ 6 - 2 = 4 /\ 6 - 3 = 3 /\ 4 <= 6 /\ 3 <= 6
  BY SMT
<1>6. ZoneLength(s) = 0
  <2>1. /\ s \in Seq(Pieces) /\ 4 <= Len(s) /\ SignOf(s[Len(s)]) = "#"
        /\ SignOf(s[Len(s) - 2]) \notin {"+", "-"} /\ SignOf(s[Len(s) - 3]) \notin {"+", "-"}
    BY <1>1, <1>3, <1>4, <1>5
  <2>. QED BY <2>1, NoZone
<1>7. ParseIsoZoned(s, mode) = NoDate
  BY <1>6 DEF ParseIsoZoned
<1>8. ParseIsoLocal(s) = NoDate
  <2>1. s \in Seq(Pieces) /\ 3 <= Len(s) /\ SignOf(s[3]) # "-"
    BY <1>1, <1>3, <1>5
  <2>. QED BY <2>1, NotIso
<1>9. ~ IsDigits(s)
  <2>1. s \in Seq(Pieces) /\ 2 \in 1 .. Len(s) /\ SignOf(s[2]) # "#"
    BY <1>1, <1>3, <1>4, <1>5
  <2>. QED BY <2>1, NotDigits
<1>10. ParseAbapTimestamp(s) = NoDate /\ ParseAbapCompact(s) = NoDate
  BY <1>9 DEF ParseAbapTimestamp, ParseAbapCompact
<1>11. s[1].n = a /\ s[3].n = b
  BY <1>1, <1>3
<1>12. CASE mark = "."
  <2>1. ParseAbapDotted(s) = ResultOf(CalendarDate(y, b, a, 0, 0, 0), "abap-dotted")
    BY <1>1, <1>2, <1>11, <1>12 DEF ParseAbapDotted
  <2>2. ParseSlashDate(s) = NoDate
    BY <1>2, <1>12 DEF ParseSlashDate
  <2>. QED BY <1>7, <1>8, <1>9, <1>10, <1>12, <2>1, <2>2, SevenWays DEF ParseDateString, s
<1>13. CASE mark = "/"
  <2>1. ParseSlashDate(s) = ResultOf(CalendarDate(y, a, b, 0, 0, 0), "slash-date")
    BY <1>1, <1>2, <1>11, <1>13 DEF ParseSlashDate
  <2>2. ParseAbapDotted(s) = NoDate
    BY <1>2, <1>13 DEF ParseAbapDotted
  <2>. QED BY <1>7, <1>8, <1>9, <1>10, <1>13, <2>1, <2>2, SevenWays DEF ParseDateString, s
<1>. QED BY <1>4, <1>12, <1>13

\* Four pairs of digits, when they are those of a day.
LEMMA CompactIsRead ==
  ASSUME NEW y \in Nat, NEW month \in Nat, NEW d \in Nat, NEW mode, IsValidDate(CalendarDate(y, month, d, 0, 0, 0))
  PROVE  ParseDateString(CompactText(y, month, d), mode) = ResultOf(CalendarDate(y, month, d, 0, 0, 0), "abap-compact")
<1> DEFINE s == CompactText(y, month, d)  r == ResultOf(CalendarDate(y, month, d, 0, 0, 0), "abap-compact")
<1>1. /\ s \in Seq(Pieces) /\ Len(s) = 4 /\ YearAt(s, 1) = y
      /\ SignOf(s[1]) = "#" /\ SignOf(s[2]) = "#" /\ s[3] = Pair(month) /\ s[4] = Pair(d)
  BY CompactTextIs
<1>. HIDE DEF s
<1>2. /\ SignOf(Pair(month)) = "#" /\ SignOf(Pair(d)) = "#" /\ Pair(month).lit = "" /\ Pair(d).lit = ""
      /\ Pair(month).n = month /\ Pair(d).n = d
  BY PiecesAre
<1>3. /\ 2 \in 1 .. 4 /\ 4 - 2 = 2 /\ 4 - 3 = 1 /\ 4 <= 4 /\ 3 <= 4 /\ ~ (4 >= 7)
      /\ \A i \in 1 .. 4 : i = 1 \/ i = 2 \/ i = 3 \/ i = 4
  BY SMT
<1>4. ZoneLength(s) = 0
  <2>1. /\ s \in Seq(Pieces) /\ 4 <= Len(s) /\ SignOf(s[Len(s)]) = "#"
        /\ SignOf(s[Len(s) - 2]) \notin {"+", "-"} /\ SignOf(s[Len(s) - 3]) \notin {"+", "-"}
    BY <1>1, <1>2, <1>3
  <2>. QED BY <2>1, NoZone
<1>5. ParseIsoZoned(s, mode) = NoDate
  BY <1>4 DEF ParseIsoZoned
<1>6. ParseIsoLocal(s) = NoDate
  <2>1. s \in Seq(Pieces) /\ 3 <= Len(s) /\ SignOf(s[3]) # "-"
    BY <1>1, <1>2, <1>3
  <2>. QED BY <2>1, NotIso
<1>7. Shape(s)[2] = "#"
  <2>1. s \in Seq(Pieces) /\ 2 \in 1 .. Len(s)
    BY <1>1, <1>3
  <2>2. Shape(s)[2] = SignOf(s[2])
    BY <2>1, ShapeIs
  <2>. QED BY <1>1, <2>2
<1>8. ParseAbapDotted(s) = NoDate /\ ParseSlashDate(s) = NoDate
  BY <1>7 DEF ParseAbapDotted, ParseSlashDate
<1>9. ParseAbapTimestamp(s) = NoDate
  BY <1>1, <1>3 DEF ParseAbapTimestamp
<1>10. IsDigits(s)
  <2>1. DOMAIN s = 1 .. 4
    BY <1>1, LenProperties
  <2>2. s[1].lit = "" /\ s[2].lit = "" /\ s[3].lit = "" /\ s[4].lit = ""
    <3>1. s[1] \in Pieces /\ s[2] \in Pieces
      <4>1. s \in Seq(Pieces) /\ 1 \in 1 .. Len(s) /\ 2 \in 1 .. Len(s)
        BY SMT, <1>1
      <4>. QED BY <4>1, ElementOfSeq
    <3>2. \A piece \in Pieces : SignOf(piece) = "#" => piece.lit = ""
      BY DEF SignOf, Pieces, Marks
    <3>. QED BY <1>1, <1>2, <3>1, <3>2
  <2>3. s # <<>>
    BY <1>1, EmptySeq
  <2>. QED BY <1>3, <2>1, <2>2, <2>3 DEF IsDigits
<1>11. ParseAbapCompact(s) = r
  BY <1>1, <1>2, <1>10 DEF ParseAbapCompact
<1>12. r # NoDate
  BY DEF ResultOf, AsDateTimeValue, NoDate
<1>. HIDE DEF r
<1>13. ParseDateString(s, mode) = r
  BY <1>5, <1>6, <1>8, <1>9, <1>11, <1>12, SevenWays DEF ParseDateString
<1>. QED BY <1>13 DEF r, s

LEMMA PlainIsRead ==
  ASSUME NEW p, NEW date, NEW source, IsValidDate(date) \/ date = InvalidDate,
         ParseDateString(p, "floating") = ResultOf(date, source)
  PROVE  ParseDate(Plain(p)) = date
<1> DEFINE x == Plain(p)  r == ParseDateString(p, "floating")
<1>1. x.t = "text" /\ x.shape = "plain" /\ x.pieces = p
  BY DEF Plain
<1>2. ParseODataTicks(x, "floating") = NoDate /\ ParseODataLiteral(x, "floating") = NoDate /\ ParseIsoDuration(x) = NoDate
  <2>. HIDE DEF x
  <2>. QED BY <1>1 DEF ParseODataTicks, ParseODataLiteral, ParseIsoDuration
<1>3. ParseDateValue(x) = r
  <2> DEFINE last == CASE x.shape = "plain" -> ParseDateString(x.pieces, "floating")
                       [] x.shape = "integer" -> ParseTimestamp(x.unit, x.instant, "floating")
                       [] OTHER -> NoDate
             ways == FirstOf(<<ParseODataTicks(x, "floating"), ParseODataLiteral(x, "floating"), ParseIsoDuration(x), last>>)
  <2>. HIDE DEF x
  <2>1. last = r
    BY <1>1
  <2>. HIDE DEF last, r
  <2>2. ways = last
    BY <1>2, FourWays
  <2>3. ParseDateValue(x) = ways
    BY <1>1 DEF ParseDateValue, ParseDateValueInternal, last
  <2>. QED BY <2>1, <2>2, <2>3
<1>4. r = ResultOf(date, source)
  OBVIOUS
<1>5. ParseDate(x) = CoerceParsedDateToDate(ResultOf(date, source))
  BY <1>3, <1>4 DEF ParseDate
<1>6. CASE IsValidDate(date)
  BY <1>5, <1>6 DEF CoerceParsedDateToDate, ResultOf, AsDateTimeValue
<1>7. CASE ~ IsValidDate(date)
  BY <1>5, <1>7 DEF CoerceParsedDateToDate, ResultOf, NoDate
<1>. QED BY <1>6, <1>7

\* The last day of a month is the day before the next.
LEMMA LastDayIs ==
  ASSUME NEW y \in Nat, NEW month \in 1 .. 12, 100 <= y
  PROVE  DayOfMonth(NewDate(y, month, 0, 0, 0, 0)) = DaysOfMonth(12 * y + month - 1)
<1> DEFINE k == 12 * y + month - 1  n == DaysOfMonth(k)
<1>1. k \in Int /\ k + 1 = 12 * y + month /\ month \in Int /\ month \in Nat
  BY SMT
<1>2. FullYearOf(y) = y
  BY SMT DEF FullYearOf
<1>3. FirstOfMonth(k) \in Int /\ FirstOfMonth(k + 1) \in Int /\ FirstOfMonth(k) + 28 <= FirstOfMonth(k + 1)
  <2>1. k < k + 1 /\ k + 1 \in Int
    BY SMT, <1>1
  <2>. HIDE DEF k
  <2>. QED BY <1>1, <2>1, MonthsAscend, FirstsAreDays
<1>4. SecondOf(0, 0, 0) = 0 /\ 0 \div DaySeconds = 0 /\ 0 % DaySeconds = 0
  BY SMT DEF SecondOf, DaySeconds
<1>5. NewDate(y, month, 0, 0, 0, 0) = DateOf(FirstOfMonth(k + 1) + 0 - 1 + 0, 0)
  <2>1. 12 * y + month = k + 1
    BY <1>1
  <2>2. 0 \in Int /\ 0 \in Nat /\ month \in Int
    BY SMT
  <2>3. NewDate(y, month, 0, 0, 0, 0) =
          DateOf(FirstOfMonth(12 * FullYearOf(y) + month) + 0 - 1 + SecondOf(0, 0, 0) \div DaySeconds, SecondOf(0, 0, 0) % DaySeconds)
    BY <2>2, NewDateOfYear
  <2>. HIDE DEF k
  <2>. QED BY <1>2, <1>4, <2>1, <2>3
<1>. HIDE DEF k
<1>6. n \in Int /\ 1 <= n /\ FirstOfMonth(k) + n - 1 < FirstOfMonth(k + 1) /\ FirstOfMonth(k + 1) + 0 - 1 + 0 = FirstOfMonth(k) + n - 1
  BY SMT, <1>3 DEF DaysOfMonth
<1>. HIDE DEF n
<1>7. CivilOf(FirstOfMonth(k) + n - 1).day = n
  <2>1. k \in Int /\ n \in Int /\ 1 <= n /\ FirstOfMonth(k) + n - 1 < FirstOfMonth(k + 1)
    BY <1>1, <1>6
  <2>2. CivilOf(FirstOfMonth(k) + n - 1) = [year |-> k \div 12, month |-> k % 12, day |-> n]
    BY <2>1, DayOfDateIsIts
  <2>. QED BY <2>2
<1>8. DayOfMonth(NewDate(y, month, 0, 0, 0, 0)) = n
  BY <1>5, <1>6, <1>7, DateParts DEF DayOfMonth
<1>. QED BY <1>8 DEF k, n

\* A day that is written is in its month.
LEMMA DayExistsIs ==
  ASSUME NEW y \in Nat, NEW month \in Nat, NEW d \in Nat
  PROVE  DayExists(y, month, d)
           <=> (y >= 100 /\ month \in 1 .. 12 /\ d >= 1 /\ d <= DayOfMonth(NewDate(y, month, 0, 0, 0, 0)))
<1>1. CASE y >= 100 /\ month \in 1 .. 12
  <2>1. DayOfMonth(NewDate(y, month, 0, 0, 0, 0)) = DaysOfMonth(12 * y + month - 1)
    BY <1>1, LastDayIs
  <2> DEFINE n == DaysOfMonth(12 * y + month - 1)
  <2>2. DayExists(y, month, d) <=> 1 <= d /\ d <= n
    BY <1>1 DEF DayExists
  <2>. HIDE DEF n
  <2>. QED BY <1>1, <2>1, <2>2 DEF n
<1>2. CASE ~ (y >= 100 /\ month \in 1 .. 12)
  BY <1>2 DEF DayExists
<1>. QED BY <1>1, <1>2

LEMMA CalendarDateIsNew ==
  ASSUME NEW y \in Nat, NEW month \in Nat, NEW d \in Nat, NEW hour \in Nat, NEW minute \in Nat, minute <= 59
  PROVE  /\ CalendarDate(y, month, d, hour, minute, 0) =
              IF DayExists(y, month, d) /\ hour <= 23 THEN NewDate(y, month - 1, d, hour, minute, 0) ELSE InvalidDate
         /\ IsValidDate(CalendarDate(y, month, d, hour, minute, 0)) \/ CalendarDate(y, month, d, hour, minute, 0) = InvalidDate
         /\ DayExists(y, month, d) /\ hour <= 23 => IsValidDate(CalendarDate(y, month, d, hour, minute, 0))
<1> DEFINE date == CalendarDate(y, month, d, hour, minute, 0)  new == NewDate(y, month - 1, d, hour, minute, 0)
           time == SecondOf(hour, minute, 0)  there == DayExists(y, month, d) /\ hour <= 23
           first == FirstOfMonth(12 * y + month - 1) + d - 1
<1>1. date = new \/ date = InvalidDate
  BY DEF CalendarDate
<1>2. date = IF there THEN DateOf(first, time) ELSE InvalidDate
  <2>1. month \in Int /\ d \in Int /\ 0 \in Nat
    BY SMT
  <2>2. date = IF DayExists(y, month, d) /\ TimeExists(hour, minute, 0) THEN DateOf(first, time) ELSE InvalidDate
    BY <2>1, CalendarDateIsExact
  <2>3. TimeExists(hour, minute, 0) <=> hour <= 23
    BY SMT DEF TimeExists
  <2>. QED BY <2>2, <2>3
<1>3. time >= 0
  BY SMT DEF SecondOf
<1>. HIDE DEF date, new, time, first
<1>4. CASE there
  <2>1. date.second = time /\ IsValidDate(date)
    BY <1>2, <1>3, <1>4, DateParts DEF IsValidDate
  <2>2. InvalidDate.second = -1
    BY DateParts DEF InvalidDate
  <2>3. time # -1
    <3>1. time \in Int
      BY SMT DEF time, SecondOf
    <3>. QED BY SMT, <1>3, <3>1
  <2>4. date = new
    BY <1>1, <2>1, <2>2, <2>3
  <2>. QED BY <1>4, <2>1, <2>4 DEF date, new
<1>5. CASE ~ there
  BY <1>2, <1>5 DEF date
<1>. QED BY <1>4, <1>5

(***************************************************************************)
(* A date that is written in one of the four ways is read as that date:    *)
(* an ISO text with its time, DD.MM.YYYY, MM/DD/YYYY, or eight digits of   *)
(* a day that exists.  Of a day or hour that does not exist, or of a year  *)
(* before 100, none of the first three is read as any date.                *)
(***************************************************************************)
THEOREM WrittenDatesAreRead ==
  ASSUME NEW y \in Nat, NEW month \in Nat, NEW d \in Nat, NEW hour \in Nat
  PROVE  NoOtherDay(y, month, d, hour)
<1> DEFINE exists == /\ y >= 100 /\ month \in 1 .. 12 /\ hour <= 23 /\ d >= 1
                     /\ d <= DayOfMonth(NewDate(y, month, 0, 0, 0, 0))
           iso == IsoText(y, month, d, hour)
           dotted == PointedText(".", d, month, y)
           slash == PointedText("/", month, d, y)
           compact == CompactText(y, month, d)
           Wanted(minute) == IF exists THEN NewDate(y, month - 1, d, hour, minute, 0) ELSE InvalidDate
<1>1. exists <=> DayExists(y, month, d) /\ hour <= 23
  <2>1. DayExists(y, month, d)
           <=> (y >= 100 /\ month \in 1 .. 12 /\ d >= 1 /\ d <= DayOfMonth(NewDate(y, month, 0, 0, 0, 0)))
    BY DayExistsIs
  <2>. QED BY Zenon, <2>1
<1>. HIDE DEF exists
<1>2. 59 \in Nat /\ 59 <= 59 /\ 0 \in Nat /\ 0 <= 59
  BY SMT
<1>3. ParseDate(Plain(iso)) = Wanted(59)
  <2> DEFINE date == CalendarDate(y, month, d, hour, 59, 0)
  <2>1. date = Wanted(59) /\ (IsValidDate(date) \/ date = InvalidDate)
    BY <1>1, <1>2, CalendarDateIsNew
  <2>2. ParseDateString(iso, "floating") = ResultOf(date, "iso-local")
    BY IsoIsRead
  <2>. HIDE DEF date, iso, Wanted
  <2>3. ParseDate(Plain(iso)) = date
    BY <2>1, <2>2, PlainIsRead
  <2>. QED BY <2>1, <2>3
<1>4. ASSUME hour = 0
      PROVE  /\ ParseDate(Plain(dotted)) = Wanted(0) /\ ParseDate(Plain(slash)) = Wanted(0)
             /\ exists => ParseDate(Plain(compact)) = Wanted(0)
  <2> DEFINE date == CalendarDate(y, month, d, 0, 0, 0)
  <2>1. date = Wanted(0) /\ (IsValidDate(date) \/ date = InvalidDate) /\ (exists => IsValidDate(date))
    BY <1>1, <1>2, <1>4, CalendarDateIsNew
  <2>2. "." \in Points /\ "/" \in Points /\ "/" # "."
    BY DEF Points
  <2>3. ParseDateString(dotted, "floating") = ResultOf(date, "abap-dotted")
    BY <2>2, PointedIsRead
  <2>4. ParseDateString(slash, "floating") = ResultOf(date, "slash-date")
    BY <2>2, PointedIsRead
  <2>5. exists => ParseDateString(compact, "floating") = ResultOf(date, "abap-compact")
    BY <2>1, CompactIsRead
  <2>. HIDE DEF date, dotted, slash, compact, Wanted
  <2>6. ParseDate(Plain(dotted)) = date
    BY <2>1, <2>3, PlainIsRead
  <2>7. ParseDate(Plain(slash)) = date
    BY <2>1, <2>4, PlainIsRead
  <2>8. exists => ParseDate(Plain(compact)) = date
    BY <2>1, <2>5, PlainIsRead
  <2>. QED BY <2>1, <2>6, <2>7, <2>8
<1>5. dotted # iso /\ slash # iso /\ compact # iso
  <2>1. Len(iso) = 10
    BY IsoTextIs
  <2>2. Len(compact) = 4
    BY CompactTextIs
  <2>3. Len(dotted) = 6 /\ Len(slash) = 6
    <3>1. "." \in Points /\ "/" \in Points
      BY DEF Points
    <3>. QED BY <3>1, PointedTextIs
  <2>. HIDE DEF iso, compact, dotted, slash
  <2>. QED BY <2>1, <2>2, <2>3
<1>6. \A pieces \in {iso} \cup (IF hour = 0 THEN {dotted, slash} \cup (IF exists THEN {compact} ELSE {}) ELSE {}) :
        ParseDate(Plain(pieces)) = IF exists THEN NewDate(y, month - 1, d, hour, IF pieces = iso THEN 59 ELSE 0, 0) ELSE InvalidDate
  <2>. HIDE DEF iso, compact, dotted, slash
  <2>. QED BY <1>3, <1>4, <1>5
<1>. QED BY <1>6 DEF NoOtherDay, IsoText, CompactText, PointedText, exists

-----------------------------------------------------------------------------
(* Fields of segments *)

SegmentIds == {"year", "month", "day", "hours", "minutes", "seconds"}

\* The bounds of the values of a token.
BoundsOf(t) == TokenMap[t].min .. TokenMap[t].max
TokenIsOfItsId(t) ==
  /\ TokenMap[t].kind = "editable" /\ TokenMap[t].id \in SegmentIds /\ TokenMap[t].length \in {2, 4}
  /\ TokenMap[t].length = 4 => TokenMap[t].id = "year"
  /\ TokenMap[t].id = "year" => BoundsOf(t) = IF TokenMap[t].length = 4 THEN 1 .. 9999 ELSE 0 .. 99
  /\ TokenMap[t].id = "month" => BoundsOf(t) = 1 .. 12
  /\ TokenMap[t].id = "day" => BoundsOf(t) = 1 .. 31
  /\ TokenMap[t].id = "hours" => BoundsOf(t) = 0 .. 23
  /\ TokenMap[t].id \in {"minutes", "seconds"} => BoundsOf(t) = 0 .. 59

\* Every token is a segment of a component; a year has two digits or four.
LEMMA TokensAre ==
  ASSUME NEW t \in DOMAIN TokenMap
  PROVE  TokenIsOfItsId(t)
<1>1. t \in {"YYYY", "yyyy", "yy", "MM", "DD", "dd", "hh", "HH", "mm", "ss"}
  BY DEF TokenMap
<1>2. CASE t \in {"YYYY", "yyyy"}
  <2>1. TokenMap[t] = Editable("year", 4, 1, 9999)
    BY <1>2 DEF TokenMap
  <2>. QED BY <2>1 DEF Editable, SegmentIds, BoundsOf, TokenIsOfItsId
<1>3. CASE t = "yy"
  <2>1. TokenMap[t] = Editable("year", 2, 0, 99)
    BY <1>3 DEF TokenMap
  <2>. QED BY <2>1 DEF Editable, SegmentIds, BoundsOf, TokenIsOfItsId
<1>4. CASE t = "MM"
  <2>1. TokenMap[t] = Editable("month", 2, 1, 12)
    BY <1>4 DEF TokenMap
  <2>. QED BY <2>1 DEF Editable, SegmentIds, BoundsOf, TokenIsOfItsId
<1>5. CASE t \in {"DD", "dd"}
  <2>1. TokenMap[t] = Editable("day", 2, 1, 31)
    BY <1>5 DEF TokenMap
  <2>. QED BY <2>1 DEF Editable, SegmentIds, BoundsOf, TokenIsOfItsId
<1>6. CASE t \in {"hh", "HH"}
  <2>1. TokenMap[t] = Editable("hours", 2, 0, 23)
    BY <1>6 DEF TokenMap
  <2>. QED BY <2>1 DEF Editable, SegmentIds, BoundsOf, TokenIsOfItsId
<1>7. CASE t = "mm"
  <2>1. TokenMap[t] = Editable("minutes", 2, 0, 59)
    BY <1>7 DEF TokenMap
  <2>. QED BY <2>1 DEF Editable, SegmentIds, BoundsOf, TokenIsOfItsId
<1>8. CASE t = "ss"
  <2>1. TokenMap[t] = Editable("seconds", 2, 0, 59)
    BY <1>8 DEF TokenMap
  <2>. QED BY <2>1 DEF Editable, SegmentIds, BoundsOf, TokenIsOfItsId
<1>. QED BY <1>1, <1>2, <1>3, <1>4, <1>5, <1>6, <1>7, <1>8

\* The segments of a mask are its tokens, at their places.
LEMMA SegmentsAre ==
  ASSUME NEW mask \in Seq(STRING)
  PROVE  /\ DOMAIN ParseDateSegmentMask(mask) = 1 .. Len(mask)
         /\ EditableSegments(ParseDateSegmentMask(mask)) \subseteq 1 .. Len(mask)
         /\ \A i \in EditableSegments(ParseDateSegmentMask(mask)) :
              mask[i] \in DOMAIN TokenMap /\ ParseDateSegmentMask(mask)[i] = TokenMap[mask[i]]
<1> DEFINE s == ParseDateSegmentMask(mask)
<1>1. DOMAIN mask = 1 .. Len(mask)
  BY LenProperties
<1>2. DOMAIN s = 1 .. Len(mask)
  BY <1>1 DEF ParseDateSegmentMask
<1>3. ASSUME NEW i \in DOMAIN s, s[i].kind = "editable"
      PROVE  mask[i] \in DOMAIN TokenMap /\ s[i] = TokenMap[mask[i]]
  <2>1. s[i] = IF mask[i] \in DOMAIN TokenMap THEN TokenMap[mask[i]] ELSE LiteralSegment(mask[i])
    BY <1>1, <1>2, <1>3 DEF ParseDateSegmentMask
  <2>2. LiteralSegment(mask[i]).kind = "literal"
    BY DEF LiteralSegment
  <2>. HIDE DEF s
  <2>. QED BY <1>3, <2>1, <2>2
<1>. HIDE DEF s
<1>. QED BY <1>2, <1>3 DEF s, EditableSegments

\* The dates a field may show: years of four digits that new Date takes for themselves.
IsShownYear(year) == year \in 100 .. 9999
ShownDates == {date \in [day : Int, second : 0 .. DaySeconds - 1] : IsShownYear(Year(date))}

LEMMA ComponentsAre ==
  ASSUME NEW date \in ShownDates
  PROVE  /\ Year(date) \in 100 .. 9999 /\ Month(date) \in 0 .. 11 /\ DayOfMonth(date) \in 1 .. 31
         /\ Hours(date) \in 0 .. 23 /\ Minutes(date) \in 0 .. 59 /\ Seconds(date) \in 0 .. 59
         /\ IsValidDate(date) /\ date.day \in Int /\ date = DateOf(date.day, date.second)
         /\ date.second = SecondOf(Hours(date), Minutes(date), Seconds(date))
<1>1. date.day \in Int /\ date.second \in 0 .. DaySeconds - 1 /\ date = DateOf(date.day, date.second)
  BY DEF ShownDates, DateOf
<1>2. date.second \in Nat /\ date.second < DaySeconds /\ IsValidDate(date)
  <2> DEFINE s == date.second
  <2>1. s \in 0 .. DaySeconds - 1
    BY <1>1
  <2>2. s \in Nat /\ s < DaySeconds /\ s >= 0
    <3>1. DaySeconds \in Int
      BY DEF DaySeconds
    <3>. HIDE DEF s
    <3>. QED BY SMT, <2>1, <3>1
  <2>. QED BY <2>2 DEF IsValidDate
<1>3. Year(date) \in 100 .. 9999
  <2>1. IsShownYear(Year(date))
    BY DEF ShownDates
  <2>. QED BY <2>1 DEF IsShownYear
<1>4. Month(date) \in 0 .. 11 /\ DayOfMonth(date) \in 1 .. 31
  BY <1>1, DateOfDayIsIts DEF Month, DayOfMonth
<1>5. /\ Hours(DateOf(date.day, date.second)) \in 0 .. 23 /\ Minutes(DateOf(date.day, date.second)) \in 0 .. 59
      /\ Seconds(DateOf(date.day, date.second)) \in 0 .. 59
      /\ date.second = SecondOf(Hours(DateOf(date.day, date.second)), Minutes(DateOf(date.day, date.second)), Seconds(DateOf(date.day, date.second)))
  BY <1>2, ClockIs
<1>. QED BY SMTT(30), <1>1, <1>2, <1>3, <1>4, <1>5

LEMMA ComponentIs ==
  ASSUME NEW date \in ShownDates, NEW id \in SegmentIds
  PROVE  ComponentOf(date, id) \in Nat
<1>1. Year(date) \in Nat /\ Month(date) + 1 \in Nat /\ DayOfMonth(date) \in Nat /\ Hours(date) \in Nat /\ Minutes(date) \in Nat /\ Seconds(date) \in Nat
  <2> DEFINE y == Year(date)  m == Month(date)  d == DayOfMonth(date)  h == Hours(date)  n == Minutes(date)  s == Seconds(date)
  <2>1. y \in 100 .. 9999 /\ m \in 0 .. 11 /\ d \in 1 .. 31 /\ h \in 0 .. 23 /\ n \in 0 .. 59 /\ s \in 0 .. 59
    BY SMTT(30), ComponentsAre
  <2>. HIDE DEF y, m, d, h, n, s
  <2>2. y \in Nat /\ m + 1 \in Nat /\ d \in Nat /\ h \in Nat /\ n \in Nat /\ s \in Nat
    BY SMT, <2>1
  <2>. QED BY <2>2 DEF y, m, d, h, n, s
<1>. QED BY <1>1 DEF SegmentIds, ComponentOf

\* A date that is made of components has them.
LEMMA CalendarDateHas ==
  ASSUME NEW y \in Nat, NEW month \in Int, NEW d \in Int, NEW hour \in Nat, NEW minute \in Nat, NEW second \in Nat,
         CalendarDate(y, month, d, hour, minute, second) # InvalidDate
  PROVE  /\ IsValidDate(CalendarDate(y, month, d, hour, minute, second))
         /\ Year(CalendarDate(y, month, d, hour, minute, second)) = y
         /\ Month(CalendarDate(y, month, d, hour, minute, second)) + 1 = month
         /\ DayOfMonth(CalendarDate(y, month, d, hour, minute, second)) = d
         /\ Hours(CalendarDate(y, month, d, hour, minute, second)) = hour
         /\ Minutes(CalendarDate(y, month, d, hour, minute, second)) = minute
         /\ Seconds(CalendarDate(y, month, d, hour, minute, second)) = second
<1> DEFINE c == CalendarDate(y, month, d, hour, minute, second)
           date == NewDate(y, month - 1, d, hour, minute, second)
<1>1. /\ CivilOf(c.day) = [year |-> y, month |-> month - 1, day |-> d]
      /\ Hours(c) = hour /\ Minutes(c) = minute /\ Seconds(c) = second
  <2>1. c = IF /\ CivilOf(date.day) = [year |-> y, month |-> month - 1, day |-> d]
              /\ Hours(date) = hour /\ Minutes(date) = minute /\ Seconds(date) = second
            THEN date ELSE InvalidDate
    BY DEF CalendarDate
  <2>. HIDE DEF c, date
  <2>2. c # InvalidDate
    BY DEF c
  <2>. QED BY <2>1, <2>2
<1>2. IsValidDate(c)
  <2>1. c = DateOf(FirstOfMonth(12 * y + month - 1) + d - 1, SecondOf(hour, minute, second))
    BY CalendarDateIsExact
  <2>2. SecondOf(hour, minute, second) >= 0
    BY SMT DEF SecondOf
  <2>. HIDE DEF c
  <2>. QED BY <2>1, <2>2, DateParts DEF IsValidDate
<1>. HIDE DEF c
<1>3. CivilOf(c.day).year = y /\ CivilOf(c.day).month = month - 1 /\ CivilOf(c.day).day = d
  BY <1>1
<1>4. month - 1 + 1 = month
  BY SMT
<1>. QED BY <1>1, <1>2, <1>3, <1>4 DEF Year, Month, DayOfMonth, c

\* A field of which all segments are filled gives the date of the numbers of its segments.
LEMMA ReadComponents ==
  ASSUME NEW segments, NEW values, NEW default, \A id \in SegmentIds : ResolveSegmentNumber(segments, values, id, default) \in Nat,
         IndexedSegmentsToDate(segments, values, default) # InvalidDate
  PROVE  /\ IsValidDate(IndexedSegmentsToDate(segments, values, default))
         /\ \A i \in EditableSegments(segments) : values[i].digits >= segments[i].length
         /\ \A id \in SegmentIds :
              ComponentOf(IndexedSegmentsToDate(segments, values, default), id) = ResolveSegmentNumber(segments, values, id, default)
<1> DEFINE Of(id) == ResolveSegmentNumber(segments, values, id, default)
           read == IndexedSegmentsToDate(segments, values, default)
           made == CalendarDate(Of("year"), Of("month"), Of("day"), Of("hours"), Of("minutes"), Of("seconds"))
<1>1. read = IF \A i \in EditableSegments(segments) : values[i].digits >= segments[i].length THEN made ELSE InvalidDate
  BY DEF IndexedSegmentsToDate
<1>2. (\A i \in EditableSegments(segments) : values[i].digits >= segments[i].length) /\ read = made /\ made # InvalidDate
  <2>. HIDE DEF made, read
  <2>1. read # InvalidDate
    BY DEF read
  <2>. QED BY <1>1, <2>1
<1>3. /\ Of("year") \in Nat /\ Of("month") \in Nat /\ Of("day") \in Nat /\ Of("hours") \in Nat /\ Of("minutes") \in Nat /\ Of("seconds") \in Nat
  BY DEF SegmentIds
<1>. HIDE DEF Of, read
<1>4. Of("month") \in Int /\ Of("day") \in Int
  BY SMT, <1>3
<1>5. /\ IsValidDate(made) /\ Year(made) = Of("year") /\ Month(made) + 1 = Of("month") /\ DayOfMonth(made) = Of("day")
      /\ Hours(made) = Of("hours") /\ Minutes(made) = Of("minutes") /\ Seconds(made) = Of("seconds")
  <2> DEFINE y == Of("year")  month == Of("month")  d == Of("day")  hour == Of("hours")  minute == Of("minutes")  second == Of("seconds")
  <2>1. y \in Nat /\ month \in Int /\ d \in Int /\ hour \in Nat /\ minute \in Nat /\ second \in Nat
    BY <1>3, <1>4
  <2>2. CalendarDate(y, month, d, hour, minute, second) # InvalidDate
    BY <1>2
  <2>. HIDE DEF y, month, d, hour, minute, second
  <2>3. /\ IsValidDate(CalendarDate(y, month, d, hour, minute, second))
        /\ Year(CalendarDate(y, month, d, hour, minute, second)) = y
        /\ Month(CalendarDate(y, month, d, hour, minute, second)) + 1 = month
        /\ DayOfMonth(CalendarDate(y, month, d, hour, minute, second)) = d
        /\ Hours(CalendarDate(y, month, d, hour, minute, second)) = hour
        /\ Minutes(CalendarDate(y, month, d, hour, minute, second)) = minute
        /\ Seconds(CalendarDate(y, month, d, hour, minute, second)) = second
    BY <2>1, <2>2, CalendarDateHas
  <2>. QED BY <2>3 DEF y, month, d, hour, minute, second
<1>. HIDE DEF made
<1>6. \A id \in SegmentIds : ComponentOf(made, id) = Of(id)
  BY <1>5 DEF SegmentIds, ComponentOf
<1>. QED BY <1>2, <1>5, <1>6 DEF Of, read

\* A two-digit year is of the century that ends in 2069.
LEMMA TwoDigitYears ==
  ASSUME NEW n \in 0 .. 99
  PROVE  ResolveTwoDigitYear(n) \in Nat /\ ResolveTwoDigitYear(n) % 100 = n
BY SMT DEF ResolveTwoDigitYear
InTheCentury(year) == year \in 1970 .. 2069
LEMMA YearsOfTheCentury ==
  ASSUME NEW year, InTheCentury(year)
  PROVE  ResolveTwoDigitYear(year % 100) = year
BY SMT DEF ResolveTwoDigitYear, InTheCentury

\* What the user may have typed into the segments of a field: at most their digits.
TypedValues(segments) ==
  {values \in [EditableSegments(segments) -> [digits : Nat, n : Nat]] :
     \A i \in EditableSegments(segments) : values[i].digits <= segments[i].length /\ (segments[i].length = 2 => values[i].n <= 99)}
\* A component has one segment of the field.
SegmentsApart(segments) == \A i, j \in EditableSegments(segments) : segments[i].id = segments[j].id => i = j

\* The number of a segment that is alone with its component.
NumberTyped(segments, values, i) ==
  IF segments[i].id = "year" /\ segments[i].length = 2 THEN ResolveTwoDigitYear(values[i].n) ELSE values[i].n
LEMMA NumberIsTyped ==
  ASSUME NEW segments, EditableSegments(segments) \subseteq Nat, SegmentsApart(segments), NEW values, NEW default, NEW i \in EditableSegments(segments)
  PROVE  ResolveSegmentNumber(segments, values, segments[i].id, default) = NumberTyped(segments, values, i)
<1> DEFINE id == segments[i].id
           places == {j \in EditableSegments(segments) : segments[j].id = id}
           first == CHOOSE j \in places : \A k \in places : j <= k
<1>1. places = {i}
  BY DEF SegmentsApart
<1>2. first = i
  <2>1. first = CHOOSE j \in {i} : \A k \in {i} : j <= k
    BY <1>1
  <2>2. i <= i
    BY SMT
  <2>. QED BY <2>1, <2>2
<1>3. ResolveSegmentNumber(segments, values, id, default) =
        CASE places = {} -> ComponentOf(default, id)
          [] places # {} /\ id = "year" /\ segments[first].length = 2 -> ResolveTwoDigitYear(values[first].n)
          [] OTHER -> values[first].n
  BY DEF ResolveSegmentNumber
<1>. HIDE DEF places, first
<1>4. places # {} /\ ~ (places = {})
  BY <1>1
<1>5. CASE id = "year" /\ segments[i].length = 2
  BY <1>2, <1>3, <1>4, <1>5 DEF NumberTyped
<1>6. CASE ~ (id = "year" /\ segments[i].length = 2)
  BY <1>2, <1>3, <1>4, <1>6 DEF NumberTyped
<1>. QED BY <1>5, <1>6

\* The segments of a mask: what TokensAre says of each.
LEMMA MaskSegments ==
  ASSUME NEW mask \in Seq(STRING)
  PROVE  /\ EditableSegments(ParseDateSegmentMask(mask)) \subseteq Nat
         /\ \A i \in EditableSegments(ParseDateSegmentMask(mask)) :
              /\ ParseDateSegmentMask(mask)[i].id \in SegmentIds /\ ParseDateSegmentMask(mask)[i].length \in {2, 4}
              /\ ParseDateSegmentMask(mask)[i].length = 4 => ParseDateSegmentMask(mask)[i].id = "year"
<1> DEFINE s == ParseDateSegmentMask(mask)
<1>1. \A i \in EditableSegments(s) : mask[i] \in DOMAIN TokenMap /\ s[i] = TokenMap[mask[i]]
  BY SegmentsAre
<1>2. EditableSegments(s) \subseteq 1 .. Len(mask)
  BY SegmentsAre
<1>. HIDE DEF s
<1>3. EditableSegments(s) \subseteq Nat
  <2>1. \A i \in 1 .. Len(mask) : i \in Nat
    <3>1. Len(mask) \in Nat
      BY LenProperties
    <3>. QED BY SMT, <3>1
  <2>. QED BY <1>2, <2>1
<1>4. ASSUME NEW i \in EditableSegments(s)
      PROVE  s[i].id \in SegmentIds /\ s[i].length \in {2, 4} /\ (s[i].length = 4 => s[i].id = "year")
  <2>1. TokenIsOfItsId(mask[i]) /\ s[i] = TokenMap[mask[i]]
    BY <1>1, TokensAre
  <2>. QED BY SMTT(30), <2>1 DEF TokenIsOfItsId
<1>. QED BY <1>3, <1>4 DEF s

\* The number of each component is one: that of its segment, or that of the default.
LEMMA TypedNumbers ==
  ASSUME NEW mask \in Seq(STRING), SegmentsApart(ParseDateSegmentMask(mask)), NEW values \in TypedValues(ParseDateSegmentMask(mask)),
         NEW default \in ShownDates, NEW id \in SegmentIds
  PROVE  ResolveSegmentNumber(ParseDateSegmentMask(mask), values, id, default) \in Nat
<1> DEFINE s == ParseDateSegmentMask(mask)
<1>1. CASE \E i \in EditableSegments(s) : s[i].id = id
  <2>1. PICK i \in EditableSegments(s) : s[i].id = id
    BY <1>1
  <2>2. ResolveSegmentNumber(s, values, id, default) = NumberTyped(s, values, i)
    <3>1. EditableSegments(s) \subseteq Nat
      BY MaskSegments
    <3>. HIDE DEF s
    <3>2. SegmentsApart(s)
      BY DEF s
    <3>. QED BY <2>1, <3>1, <3>2, NumberIsTyped
  <2>3. values[i].n \in Nat /\ (s[i].length = 2 => values[i].n <= 99)
    <3>1. values \in TypedValues(s)
      OBVIOUS
    <3>. HIDE DEF s
    <3>2. values[i] \in [digits : Nat, n : Nat] /\ (s[i].length = 2 => values[i].n <= 99)
      BY <2>1, <3>1 DEF TypedValues
    <3>. QED BY <3>2
  <2>4. NumberTyped(s, values, i) \in Nat
    <3> DEFINE n == values[i].n  l == s[i].length
    <3>0. n \in Nat /\ (l = 2 => n <= 99)
      BY <2>3
    <3>. HIDE DEF s, n, l
    <3>1. l = 2 => n \in 0 .. 99
      BY SMT, <3>0
    <3>2. ASSUME l = 2 PROVE ResolveTwoDigitYear(n) \in Nat
      BY <3>1, <3>2, TwoDigitYears
    <3>. QED BY <3>0, <3>2 DEF NumberTyped, n, l
  <2>. QED BY <2>2, <2>4
<1>2. CASE ~ \E i \in EditableSegments(s) : s[i].id = id
  <2>1. {i \in EditableSegments(s) : s[i].id = id} = {}
    BY <1>2
  <2>. HIDE DEF s
  <2>2. ResolveSegmentNumber(s, values, id, default) = ComponentOf(default, id)
    BY <2>1 DEF ResolveSegmentNumber
  <2>. QED BY <2>2, ComponentIs DEF s
<1>. QED BY <1>1, <1>2

(***************************************************************************)
(* What is typed into a field is the date that shows it, or none: a month  *)
(* or a day that does not exist is refused, not carried over, a two-digit  *)
(* year is of the century it shows again, and a field that is not filled   *)
(* gives no date (date-segments/mask.ts, for every mask in which a         *)
(* component has one segment).                                             *)
(***************************************************************************)
THEOREM TypedSegmentsAreShown ==
  ASSUME NEW mask \in Seq(STRING), SegmentsApart(ParseDateSegmentMask(mask)), NEW values \in TypedValues(ParseDateSegmentMask(mask)),
         NEW default \in ShownDates
  PROVE  SegmentsShowWhatIsTyped(mask, values, default)
<1> DEFINE s == ParseDateSegmentMask(mask)
           places == EditableSegments(s)
           read == IndexedSegmentsToDate(s, values, default)
<1>1. /\ values \in [places -> [digits : Nat, n : Nat]]
      /\ \A i \in places : values[i].digits <= s[i].length /\ (s[i].length = 2 => values[i].n <= 99)
  BY DEF TypedValues
<1>2. /\ places \subseteq Nat
      /\ \A i \in places : s[i].id \in SegmentIds /\ s[i].length \in {2, 4} /\ (s[i].length = 4 => s[i].id = "year")
  BY MaskSegments
<1>3. \A id \in SegmentIds : ResolveSegmentNumber(s, values, id, default) \in Nat
  BY TypedNumbers
<1>4. SegmentsApart(s)
  OBVIOUS
<1>. HIDE DEF s
<1>5. ASSUME read # InvalidDate
      PROVE  DateToIndexedSegmentValues(read, s) = values
  <2>1. /\ IsValidDate(read) /\ \A i \in places : values[i].digits >= s[i].length
        /\ \A id \in SegmentIds : ComponentOf(read, id) = ResolveSegmentNumber(s, values, id, default)
    BY <1>3, <1>5, ReadComponents
  <2>. HIDE DEF read
  <2>2. DateToIndexedSegmentValues(read, s) = [i \in places |-> ResolveSegmentValue(read, s[i])]
    BY <2>1 DEF DateToIndexedSegmentValues
  <2>3. ASSUME NEW i \in places
        PROVE  ResolveSegmentValue(read, s[i]) = values[i]
    <3>1. values[i] \in [digits : Nat, n : Nat] /\ s[i].id \in SegmentIds /\ s[i].length \in {2, 4}
      BY <1>1, <1>2, <2>3
    <3> DEFINE d == values[i].digits  n == values[i].n  l == s[i].length
    <3>2. values[i] = [digits |-> d, n |-> n] /\ d \in Nat /\ n \in Nat /\ l \in {2, 4}
      BY <3>1
    <3>3. d <= l /\ d >= l /\ (l = 2 => n <= 99)
      BY <1>1, <2>1, <2>3
    <3>4. ComponentOf(read, s[i].id) = NumberTyped(s, values, i)
      <4>1. ResolveSegmentNumber(s, values, s[i].id, default) = NumberTyped(s, values, i)
        BY <1>2, <1>4, <2>3, NumberIsTyped
      <4>. QED BY <2>1, <3>1, <4>1
    <3>. HIDE DEF d, n, l
    <3>5. d = l /\ (l = 2 => n \in 0 .. 99)
      <4>1. d \in Nat /\ n \in Nat /\ (l = 2 \/ l = 4)
        BY <3>2
      <4>. QED BY SMT, <3>3, <4>1
    <3>6. (IF s[i].id = "year" /\ l = 2 THEN ComponentOf(read, s[i].id) % 100 ELSE ComponentOf(read, s[i].id)) = n
      <4>1. ASSUME l = 2 PROVE ResolveTwoDigitYear(n) % 100 = n
        BY <3>5, <4>1, TwoDigitYears
      <4>2. NumberTyped(s, values, i) = IF s[i].id = "year" /\ l = 2 THEN ResolveTwoDigitYear(n) ELSE n
        BY DEF NumberTyped, n, l
      <4>. QED BY <3>4, <4>1, <4>2
    <3>7. ResolveSegmentValue(read, s[i]) = [digits |-> l, n |-> n]
      <4>1. ResolveSegmentValue(read, s[i]) =
              Digits(l, IF s[i].id = "year" /\ l = 2 THEN ComponentOf(read, s[i].id) % 100 ELSE ComponentOf(read, s[i].id))
        BY DEF ResolveSegmentValue, l
      <4>. QED BY <3>6, <4>1 DEF Digits
    <3>. QED BY <3>2, <3>5, <3>7
  <2>. HIDE DEF places
  <2>4. values = [i \in places |-> values[i]]
    BY <1>1
  <2>. QED BY <2>2, <2>3, <2>4
<1>6. ASSUME AreAllDateSegmentsEmpty(s, values), DOMAIN values # {}
      PROVE  read = InvalidDate
  <2>1. PICK i \in places : values[i].digits = 0
    BY <1>1, <1>6 DEF AreAllDateSegmentsEmpty
  <2>2. ~ (values[i].digits >= s[i].length)
    <3> DEFINE l == s[i].length
    <3>1. l \in {2, 4} /\ values[i].digits = 0
      BY <1>2, <2>1
    <3>. HIDE DEF l
    <3>2. ~ (0 >= l)
      BY SMT, <3>1
    <3>. QED BY <3>1, <3>2 DEF l
  <2>. QED BY <2>1, <2>2 DEF IndexedSegmentsToDate
<1>. QED BY <1>5, <1>6 DEF SegmentsShowWhatIsTyped, s

\* A set of natural numbers that is not empty has a least element.
LEMMA LeastNumber ==
  ASSUME NEW numbers \in SUBSET Nat, numbers # {}
  PROVE  \E n \in numbers : \A m \in numbers : n <= m
<1>1. PICK n \in numbers : \A m \in numbers : ~ (<<m, n>> \in OpToRel(<, Nat))
  BY WFMin, NatLessThanWellFounded
<1>2. \A m \in numbers : ~ (m < n) /\ m \in Nat /\ n \in Nat
  BY <1>1 DEF OpToRel
<1>. QED BY <1>2

\* A year of two digits can only be shown of a date of the century it is read in.
YearIsShown(segments, date) ==
  InTheCentury(Year(date)) \/ \A i \in EditableSegments(segments) : segments[i].id = "year" => segments[i].length = 4
IdsOf(segments) == {segments[i].id : i \in EditableSegments(segments)}

\* What a segment shows of a date.
LEMMA ShownValue ==
  ASSUME NEW segments, NEW date, IsValidDate(date), NEW i \in EditableSegments(segments)
  PROVE  /\ DateToIndexedSegmentValues(date, segments)[i].digits = segments[i].length
         /\ DateToIndexedSegmentValues(date, segments)[i].n =
              IF segments[i].id = "year" /\ segments[i].length = 2 THEN ComponentOf(date, segments[i].id) % 100
              ELSE ComponentOf(date, segments[i].id)
BY DEF DateToIndexedSegmentValues, ResolveSegmentValue, Digits

\* The number that is read of a component is that of the date, where the field shows it.
LEMMA ShownNumbers ==
  ASSUME NEW mask \in Seq(STRING), NEW date \in ShownDates, NEW default, NEW id \in SegmentIds, YearIsShown(ParseDateSegmentMask(mask), date)
  PROVE  ResolveSegmentNumber(ParseDateSegmentMask(mask), DateToIndexedSegmentValues(date, ParseDateSegmentMask(mask)), id, default)
           = ComponentOf(IF id \in IdsOf(ParseDateSegmentMask(mask)) THEN date ELSE default, id)
<1> DEFINE s == ParseDateSegmentMask(mask)
           values == DateToIndexedSegmentValues(date, s)
           places == {i \in EditableSegments(s) : s[i].id = id}
           first == CHOOSE i \in places : \A j \in places : i <= j
<1>1. /\ EditableSegments(s) \subseteq Nat
      /\ \A i \in EditableSegments(s) : s[i].id \in SegmentIds /\ s[i].length \in {2, 4}
  BY MaskSegments
<1>2. YearIsShown(s, date)
  OBVIOUS
<1>. HIDE DEF s
<1>3. ResolveSegmentNumber(s, values, id, default) =
        CASE places = {} -> ComponentOf(default, id)
          [] places # {} /\ id = "year" /\ s[first].length = 2 -> ResolveTwoDigitYear(values[first].n)
          [] OTHER -> values[first].n
  BY DEF ResolveSegmentNumber
<1>4. CASE places = {}
  <2>1. id \notin IdsOf(s)
    BY <1>4 DEF IdsOf
  <2>. QED BY <1>3, <1>4, <2>1 DEF s
<1>5. CASE places # {}
  <2>1. places \in SUBSET Nat
    BY <1>1
  <2>2. \E i \in places : \A j \in places : i <= j
    <3>. HIDE DEF places
    <3>. QED BY <1>5, <2>1, LeastNumber
  <2>3. first \in places
    <3>. HIDE DEF places
    <3>. QED BY <2>2
  <2>4. first \in EditableSegments(s) /\ s[first].id = id
    <3>. HIDE DEF first
    <3>. QED BY <2>3
  <2>. HIDE DEF first
  <2>5. id \in IdsOf(s)
    BY <2>4 DEF IdsOf
  <2>6. IsValidDate(date)
    BY ComponentsAre
  <2>7. values[first].n = IF id = "year" /\ s[first].length = 2 THEN ComponentOf(date, id) % 100 ELSE ComponentOf(date, id)
    BY <2>4, <2>6, ShownValue
  <2>. HIDE DEF values, places
  <2>8. CASE id = "year" /\ s[first].length = 2
    <3>1. InTheCentury(Year(date))
      <4>1. s[first].id = "year" /\ s[first].length # 4
        BY <2>4, <2>8
      <4>. QED BY <1>2, <2>4, <4>1 DEF YearIsShown
    <3>2. ResolveTwoDigitYear(Year(date) % 100) = Year(date)
      BY <3>1, YearsOfTheCentury
    <3>4. ComponentOf(date, id) = Year(date)
      BY <2>8 DEF ComponentOf
    <3>3. ResolveSegmentNumber(s, values, id, default) = ResolveTwoDigitYear(values[first].n)
      BY <1>3, <1>5, <2>8
    <3>. QED BY <2>5, <2>7, <2>8, <3>2, <3>3, <3>4 DEF s, values
  <2>9. CASE ~ (id = "year" /\ s[first].length = 2)
    <3>1. ResolveSegmentNumber(s, values, id, default) = values[first].n
      BY <1>3, <1>5, <2>9
    <3>. QED BY <2>5, <2>7, <2>9, <3>1 DEF s, values
  <2>. QED BY <2>8, <2>9
<1>. QED BY <1>4, <1>5

\* A date is made of its components.
LEMMA DateOfComponents ==
  ASSUME NEW date \in ShownDates
  PROVE  CalendarDate(Year(date), Month(date) + 1, DayOfMonth(date), Hours(date), Minutes(date), Seconds(date)) = date
<1> DEFINE y == Year(date)  m == Month(date)  d == DayOfMonth(date)  h == Hours(date)  mi == Minutes(date)  s == Seconds(date)
           k == 12 * y + (m + 1) - 1
<1>1. y \in 100 .. 9999 /\ m \in 0 .. 11 /\ d \in 1 .. 31 /\ h \in 0 .. 23 /\ mi \in 0 .. 59 /\ s \in 0 .. 59
  BY SMTT(30), ComponentsAre
<1>2. date.day \in Int /\ date = DateOf(date.day, date.second) /\ date.second = SecondOf(h, mi, s)
  BY ComponentsAre
<1> DEFINE n == date.day
<1>3. n \in Int /\ FirstOfMonth(MonthIndex(n)) + d - 1 = n /\ n < FirstOfMonth(MonthIndex(n) + 1)
  BY <1>2, DateOfDayIsIts DEF DayOfMonth
<1>4. MonthIndex(n) = 12 * y + m
  BY DEF MonthIndex, Year, Month
<1>. HIDE DEF y, m, d, h, mi, s, n
<1>5. k = 12 * y + m /\ k \in Int /\ k + 1 \in Int
  BY SMT, <1>1
<1>. HIDE DEF k
<1>6. FirstOfMonth(k) \in Int /\ FirstOfMonth(k + 1) \in Int
  BY <1>5, FirstsAreDays
<1>7. FirstOfMonth(k) + d - 1 = n /\ n < FirstOfMonth(k + 1)
  BY <1>3, <1>4, <1>5
<1>8. d <= DaysOfMonth(k)
  BY SMT, <1>1, <1>3, <1>6, <1>7 DEF DaysOfMonth
<1>9. /\ y \in Nat /\ m + 1 \in Int /\ d \in Int /\ h \in Nat /\ mi \in Nat /\ s \in Nat
      /\ 100 <= y /\ 1 <= m + 1 /\ m + 1 <= 12 /\ 1 <= d /\ h <= 23 /\ mi <= 59 /\ s <= 59
  BY SMT, <1>1
<1>10. DayExists(y, m + 1, d) /\ TimeExists(h, mi, s)
  BY <1>8, <1>9 DEF DayExists, TimeExists, k
<1>11. CalendarDate(y, m + 1, d, h, mi, s) = DateOf(FirstOfMonth(k) + d - 1, SecondOf(h, mi, s))
  <2> DEFINE month == m + 1
  <2>1. month \in Int /\ DayExists(y, month, d)
    BY <1>9, <1>10
  <2>2. k = 12 * y + month - 1
    BY DEF k
  <2>. HIDE DEF month, k
  <2>3. CalendarDate(y, month, d, h, mi, s) = DateOf(FirstOfMonth(12 * y + month - 1) + d - 1, SecondOf(h, mi, s))
    BY <1>9, <1>10, <2>1, CalendarDateIsExact
  <2>. QED BY <2>2, <2>3 DEF month
<1>12. CalendarDate(y, m + 1, d, h, mi, s) = date
  BY <1>2, <1>7, <1>11 DEF n
<1>. QED BY <1>12 DEF y, m, d, h, mi, s

\* The values shown are within the bounds of their segments.
LEMMA ShownWithinBounds ==
  ASSUME NEW mask \in Seq(STRING), NEW date \in ShownDates, NEW i \in EditableSegments(ParseDateSegmentMask(mask))
  PROVE  DateToIndexedSegmentValues(date, ParseDateSegmentMask(mask))[i].n
           \in ParseDateSegmentMask(mask)[i].min .. ParseDateSegmentMask(mask)[i].max
<1> DEFINE s == ParseDateSegmentMask(mask)
           t == mask[i]
           n == DateToIndexedSegmentValues(date, s)[i].n
           id == s[i].id
<1>1. TokenIsOfItsId(t) /\ s[i] = TokenMap[t]
  BY SegmentsAre, TokensAre
<1>2. n = IF id = "year" /\ s[i].length = 2 THEN ComponentOf(date, id) % 100 ELSE ComponentOf(date, id)
  BY ComponentsAre, ShownValue
<1>3. BoundsOf(t) = s[i].min .. s[i].max
  BY <1>1 DEF BoundsOf
<1>4. id \in SegmentIds /\ s[i].length \in {2, 4}
  BY <1>1 DEF TokenIsOfItsId
<1> DEFINE y == Year(date)  m == Month(date)
<1>5. /\ y \in 100 .. 9999 /\ m \in 0 .. 11 /\ DayOfMonth(date) \in 1 .. 31
      /\ Hours(date) \in 0 .. 23 /\ Minutes(date) \in 0 .. 59 /\ Seconds(date) \in 0 .. 59
  BY SMTT(30), ComponentsAre
<1>. HIDE DEF s, n, t
<1>6. y \in 1 .. 9999 /\ y % 100 \in 0 .. 99 /\ m + 1 \in 1 .. 12
  <2>. HIDE DEF y, m
  <2>. QED BY SMT, <1>5
<1>7. n \in BoundsOf(t)
  <2>1. CASE id = "year"
    <3>1. BoundsOf(t) = IF s[i].length = 4 THEN 1 .. 9999 ELSE 0 .. 99
      BY <1>1, <2>1 DEF TokenIsOfItsId
    <3>2. n = IF s[i].length = 2 THEN y % 100 ELSE y
      BY <1>2, <2>1 DEF ComponentOf
    <3>. HIDE DEF y
    <3>3. CASE s[i].length = 2
      BY <1>6, <3>1, <3>2, <3>3
    <3>4. CASE s[i].length = 4
      BY <1>6, <3>1, <3>2, <3>4
    <3>. QED BY <1>4, <3>3, <3>4
  <2>2. CASE id # "year"
    <3>1. n = ComponentOf(date, id)
      BY <1>2, <2>2
    <3>2. CASE id = "month"
      <4>1. BoundsOf(t) = 1 .. 12 /\ n = m + 1
        BY <1>1, <3>1, <3>2 DEF TokenIsOfItsId, ComponentOf
      <4>. QED BY <1>6, <4>1
    <3>3. CASE id = "day"
      <4>1. BoundsOf(t) = 1 .. 31 /\ n = DayOfMonth(date)
        BY <1>1, <3>1, <3>3 DEF TokenIsOfItsId, ComponentOf
      <4>. QED BY <1>5, <4>1
    <3>4. CASE id = "hours"
      <4>1. BoundsOf(t) = 0 .. 23 /\ n = Hours(date)
        BY <1>1, <3>1, <3>4 DEF TokenIsOfItsId, ComponentOf
      <4>. QED BY <1>5, <4>1
    <3>5. CASE id = "minutes"
      <4>1. BoundsOf(t) = 0 .. 59 /\ n = Minutes(date)
        BY <1>1, <3>1, <3>5 DEF TokenIsOfItsId, ComponentOf
      <4>. QED BY <1>5, <4>1
    <3>6. CASE id = "seconds"
      <4>1. BoundsOf(t) = 0 .. 59 /\ n = Seconds(date)
        BY <1>1, <3>1, <3>6 DEF TokenIsOfItsId, ComponentOf
      <4>. QED BY <1>5, <4>1
    <3>. QED BY <1>4, <2>2, <3>2, <3>3, <3>4, <3>5, <3>6 DEF SegmentIds
  <2>. QED BY <2>1, <2>2
<1>. QED BY <1>3, <1>7 DEF n, s

(***************************************************************************)
(* What a field shows of a date is within the bounds of its segments and   *)
(* is read back as that date; read over another default, the components    *)
(* shown are those of the date and the others those of the default         *)
(* (date-segments/mask.ts, for every mask and every date of a year of four *)
(* digits; a year of two digits has to be of its century).                 *)
(***************************************************************************)
THEOREM ShownSegmentsAreRead ==
  ASSUME NEW mask \in Seq(STRING), NEW date \in ShownDates, NEW default \in ShownDates
  PROVE  SegmentsReadWhatTheyShow(mask, date, default)
<1> DEFINE s == ParseDateSegmentMask(mask)
           values == DateToIndexedSegmentValues(date, s)
           ids == IdsOf(s)
           Over(read) == read # InvalidDate => \A i \in DOMAIN TokenMap :
             ComponentOf(read, TokenMap[i].id) = ComponentOf(IF TokenMap[i].id \in ids THEN date ELSE default, TokenMap[i].id)
<1>1. ASSUME NEW i \in DOMAIN values
      PROVE  values[i].n \in s[i].min .. s[i].max
  <2>1. DOMAIN values = EditableSegments(s)
    BY DEF DateToIndexedSegmentValues
  <2>. QED BY <1>1, <2>1, ShownWithinBounds
<1>2. ASSUME YearIsShown(s, date)
      PROVE  IndexedSegmentsToDate(s, values, date) = date
  <2>1. \A i \in EditableSegments(s) : values[i].digits >= s[i].length
    <3>1. ASSUME NEW i \in EditableSegments(s)
          PROVE  values[i].digits = s[i].length /\ s[i].length \in {2, 4}
      BY <3>1, ComponentsAre, ShownValue, MaskSegments
    <3>2. \A l \in {2, 4} : l >= l
      BY SMT
    <3>. HIDE DEF s, values
    <3>. QED BY <3>1, <3>2
  <2>2. \A id \in SegmentIds : ResolveSegmentNumber(s, values, id, date) = ComponentOf(date, id)
    BY <1>2, ShownNumbers
  <2>. HIDE DEF s, values
  <2>3. /\ ResolveSegmentNumber(s, values, "year", date) = Year(date) /\ ResolveSegmentNumber(s, values, "month", date) = Month(date) + 1
        /\ ResolveSegmentNumber(s, values, "day", date) = DayOfMonth(date) /\ ResolveSegmentNumber(s, values, "hours", date) = Hours(date)
        /\ ResolveSegmentNumber(s, values, "minutes", date) = Minutes(date)
        /\ ResolveSegmentNumber(s, values, "seconds", date) = Seconds(date)
    BY <2>2 DEF SegmentIds, ComponentOf
  <2>4. IndexedSegmentsToDate(s, values, date)
          = CalendarDate(Year(date), Month(date) + 1, DayOfMonth(date), Hours(date), Minutes(date), Seconds(date))
    BY <2>1, <2>3 DEF IndexedSegmentsToDate
  <2>. QED BY <2>4, DateOfComponents
<1>3. ASSUME YearIsShown(s, date)
      PROVE  Over(IndexedSegmentsToDate(s, values, default))
  <2> DEFINE read == IndexedSegmentsToDate(s, values, default)
  <2>1. \A id \in SegmentIds : ResolveSegmentNumber(s, values, id, default) = ComponentOf(IF id \in ids THEN date ELSE default, id)
    BY <1>3, ShownNumbers
  <2>2. \A id \in SegmentIds : ResolveSegmentNumber(s, values, id, default) \in Nat
    <3>. HIDE DEF s, values
    <3>. QED BY <2>1, ComponentIs
  <2>. HIDE DEF s, values
  <2>3. read # InvalidDate => \A id \in SegmentIds : ComponentOf(read, id) = ResolveSegmentNumber(s, values, id, default)
    BY <2>2, ReadComponents
  <2>4. \A i \in DOMAIN TokenMap : TokenMap[i].id \in SegmentIds
    <3>1. \A i \in DOMAIN TokenMap : TokenIsOfItsId(i)
      BY TokensAre
    <3>. QED BY SMTT(30), <3>1 DEF TokenIsOfItsId
  <2>. HIDE DEF read, ids
  <2>. QED BY <2>1, <2>3, <2>4 DEF read
<1>4. YearIsShown(s, date)
        <=> (Year(date) \in 1970 .. 2069 \/ \A i \in EditableSegments(s) : s[i].id = "year" => s[i].length = 4)
  BY DEF YearIsShown, InTheCentury
<1>5. ids = {s[i].id : i \in EditableSegments(s)}
  BY DEF IdsOf
<1>. HIDE DEF s, values, ids
<1>. QED BY <1>1, <1>2, <1>3, <1>4, <1>5 DEF SegmentsReadWhatTheyShow, s, values

-----------------------------------------------------------------------------
(* Moments *)

DayMoments == [day : Int, second : 0 .. DaySeconds - 1]
\* The seconds of a moment since the epoch.
Elapsed(moment) == DaySeconds * moment.day + moment.second

\* The seconds of a day are numbers below 86400.
LEMMA SecondsOfDay ==
  ASSUME NEW s
  PROVE  s \in 0 .. DaySeconds - 1 <=> s \in Int /\ 0 <= s /\ s < 86400
<1>1. DaySeconds \in Int
  BY DEF DaySeconds
<1>2. s \in 0 .. DaySeconds - 1 <=> s \in Int /\ 0 <= s /\ s < DaySeconds
  BY SMT, <1>1
<1>3. s < DaySeconds <=> s < 86400
  BY SMT DEF DaySeconds
<1>. QED BY SMT, <1>2, <1>3

\* A number of seconds has one moment.
LEMMA OneMoment ==
  ASSUME NEW a \in Int, NEW b \in Int, NEW c \in Int, NEW e \in Int, 0 <= b, b < 86400, 0 <= e, e < 86400, 86400 * a + b = 86400 * c + e
  PROVE  a = c /\ b = e
BY SMT

LEMMA ElapsedIsOne ==
  ASSUME NEW x \in DayMoments, NEW y \in DayMoments, Elapsed(x) = Elapsed(y)
  PROVE  x = y
<1> DEFINE a == x.day  b == x.second  c == y.day  e == y.second
<1>1. x = [day |-> a, second |-> b] /\ y = [day |-> c, second |-> e]
  BY DEF DayMoments
<1>2. a \in Int /\ c \in Int /\ b \in 0 .. DaySeconds - 1 /\ e \in 0 .. DaySeconds - 1
  BY DEF DayMoments
<1>3. 86400 * a + b = 86400 * c + e
  BY DEF Elapsed, DaySeconds
<1>. HIDE DEF a, b, c, e
<1>4. b \in Int /\ e \in Int /\ 0 <= b /\ b < 86400 /\ 0 <= e /\ e < 86400
  BY <1>2, SecondsOfDay
<1>5. a = c /\ b = e
  BY <1>2, <1>3, <1>4, OneMoment
<1>. QED BY <1>1, <1>5

\* A shift counts its seconds.
LEMMA ShiftIs ==
  ASSUME NEW x \in DayMoments, NEW s \in Int
  PROVE  Shift(x, s) \in DayMoments /\ Elapsed(Shift(x, s)) = Elapsed(x) + s
<1> DEFINE a == x.day  b == x.second  t == b + s
<1>1. a \in Int /\ b \in 0 .. DaySeconds - 1
  BY DEF DayMoments
<1>2. Shift(x, s) = [day |-> a + t \div DaySeconds, second |-> t % DaySeconds]
  BY DEF Shift, DateOf
<1>3. Elapsed(x) = 86400 * a + b
  BY DEF Elapsed, DaySeconds
<1>. HIDE DEF a, b
<1>4. b \in Int /\ t \in Int
  <2>1. b \in Int
    BY <1>1, SecondsOfDay
  <2>. QED BY SMT, <2>1
<1> DEFINE q == t \div 86400  r == t % 86400
<1>. HIDE DEF t
<1>5. q \in Int /\ r \in Int /\ 0 <= r /\ r < 86400 /\ t = 86400 * q + r
  BY SMT, <1>4
<1>6. Shift(x, s) = [day |-> a + q, second |-> r]
  BY <1>2 DEF DaySeconds
<1>. HIDE DEF q, r
<1>7. a + q \in Int /\ 86400 * (a + q) + r = 86400 * a + b + s
  <2>1. 86400 * q + r = b + s
    BY <1>5 DEF t
  <2>. QED BY SMT, <1>1, <1>4, <1>5, <2>1
<1>8. Shift(x, s) \in DayMoments
  <2>1. r \in 0 .. DaySeconds - 1
    BY <1>5, SecondsOfDay
  <2>. QED BY <1>6, <1>7, <2>1 DEF DayMoments
<1>9. Elapsed(Shift(x, s)) = 86400 * (a + q) + r
  BY <1>6 DEF Elapsed, DaySeconds
<1>. QED BY <1>3, <1>7, <1>8, <1>9

LEMMA ShiftBack ==
  ASSUME NEW x \in DayMoments, NEW s \in Int
  PROVE  Shift(Shift(x, s), - s) = x
<1>1. Shift(x, s) \in DayMoments /\ Elapsed(Shift(x, s)) = Elapsed(x) + s
  BY ShiftIs
<1>2. - s \in Int
  BY SMT
<1>3. Shift(Shift(x, s), - s) \in DayMoments /\ Elapsed(Shift(Shift(x, s), - s)) = Elapsed(Shift(x, s)) + (- s)
  BY <1>1, <1>2, ShiftIs
<1>4. Elapsed(x) \in Int
  <2> DEFINE a == x.day  b == x.second
  <2>1. a \in Int /\ b \in 0 .. DaySeconds - 1
    BY DEF DayMoments
  <2>2. Elapsed(x) = 86400 * a + b
    BY DEF Elapsed, DaySeconds
  <2>. HIDE DEF a, b
  <2>3. b \in Int
    BY <2>1, SecondsOfDay
  <2>4. 86400 * a + b \in Int
    BY SMT, <2>1, <2>3
  <2>. QED BY <2>2, <2>4
<1> DEFINE e == Elapsed(x)
<1>5. e + s + (- s) = e
  <2>. HIDE DEF e
  <2>. QED BY SMT, <1>4 DEF e
<1>6. Elapsed(Shift(Shift(x, s), - s)) = Elapsed(x)
  BY <1>1, <1>3, <1>5
<1>. QED BY <1>3, <1>6, ElapsedIsOne

LEMMA MomentsAre ==
  ASSUME NEW x \in DayMoments
  PROVE  IsValidDate(x) /\ x.day \in Int /\ x.second \in Nat /\ x.second < DaySeconds
<1> DEFINE s == x.second
<1>1. s \in 0 .. DaySeconds - 1 /\ x.day \in Int /\ DaySeconds \in Int
  <2>1. DaySeconds \in Int
    BY DEF DaySeconds
  <2>. QED BY <2>1 DEF DayMoments
<1>2. s \in Nat /\ s >= 0 /\ s < DaySeconds
  <2>. HIDE DEF s
  <2>. QED BY SMT, <1>1
<1>. QED BY <1>1, <1>2 DEF IsValidDate

\* Of the four ways to read a text, the first that reads it.
LEMMA FirstWays ==
  ASSUME NEW a, NEW b, NEW c, NEW d
  PROVE  /\ a # NoDate => FirstOf(<<a, b, c, d>>) = a
         /\ a = NoDate /\ b # NoDate => FirstOf(<<a, b, c, d>>) = b
         /\ a = NoDate /\ b = NoDate /\ c # NoDate => FirstOf(<<a, b, c, d>>) = c
         /\ a = NoDate /\ b = NoDate /\ c = NoDate => FirstOf(<<a, b, c, d>>) = d
<1> DEFINE s == <<a, b, c, d>>  S == {a, b, c, d}
<1>1. s \in Seq(S) /\ Len(s) = 4 /\ s[1] = a /\ s[2] = b /\ s[3] = c
  <2>1. a \in S /\ b \in S /\ c \in S /\ d \in S
    OBVIOUS
  <2>. HIDE DEF S
  <2>. QED BY <2>1, Tuples
<1>. HIDE DEF s, S
<1>2. /\ 1 \in 1 .. 4 /\ 2 \in 1 .. 4 /\ 3 \in 1 .. 4
      /\ (~ \E i \in 1 .. 1 - 1 : TRUE) /\ (\A i \in 1 .. 2 - 1 : i = 1) /\ (\A i \in 1 .. 3 - 1 : i = 1 \/ i = 2)
  BY SMT
<1>3. ASSUME a # NoDate
      PROVE  FirstOf(s) = a
  <2>1. 1 \in 1 .. Len(s) /\ s \in Seq(S) /\ s[1] # NoDate /\ \A i \in 1 .. 1 - 1 : s[i] = NoDate
    BY <1>1, <1>2, <1>3
  <2>2. FirstOf(s) = s[1]
    BY <2>1, FirstIs
  <2>. QED BY <1>1, <2>2
<1>4. ASSUME a = NoDate, b # NoDate
      PROVE  FirstOf(s) = b
  <2>1. 2 \in 1 .. Len(s) /\ s \in Seq(S) /\ s[2] # NoDate /\ \A i \in 1 .. 2 - 1 : s[i] = NoDate
    BY <1>1, <1>2, <1>4
  <2>2. FirstOf(s) = s[2]
    BY <2>1, FirstIs
  <2>. QED BY <1>1, <2>2
<1>5. ASSUME a = NoDate, b = NoDate, c # NoDate
      PROVE  FirstOf(s) = c
  <2>1. 3 \in 1 .. Len(s) /\ s \in Seq(S) /\ s[3] # NoDate /\ \A i \in 1 .. 3 - 1 : s[i] = NoDate
    BY <1>1, <1>2, <1>5
  <2>2. FirstOf(s) = s[3]
    BY <2>1, FirstIs
  <2>. QED BY <1>1, <2>2
<1>6. a = NoDate /\ b = NoDate /\ c = NoDate => FirstOf(s) = d
  BY FourWays DEF s
<1>. QED BY <1>3, <1>4, <1>5, <1>6 DEF s

(* A time of the day sent to a service comes back as the same time (FormatDateAsODataTime writes a duration). *)
THEOREM TimesComeBack ==
  ASSUME NEW date \in DayMoments
  PROVE  TimeComesBack(date)
<1> DEFINE s == date.second
           x == DurationText(1, 0, 0, 0, s)
<1>1. s \in Nat /\ s < DaySeconds /\ IsValidDate(date)
  BY MomentsAre
<1>2. FormatDateAsODataTime(DateValue(date)) = x
  <2>1. ParseDateValue(DateValue(date)) = AsDateTimeValue(date, "date-object")
    BY <1>1 DEF ParseDateValue, ParseDateValueInternal, DateValue, CloneCalendarDate
  <2>2. AsDateTimeValue(date, "date-object") # NoDate /\ AsDateTimeValue(date, "date-object").kind = "date-time"
        /\ AsDateTimeValue(date, "date-object").date = date
    BY DEF AsDateTimeValue, NoDate
  <2>3. ~ (s < 0)
    <3>. HIDE DEF s
    <3>. QED BY SMT, <1>1
  <2>. HIDE DEF s
  <2>. QED BY <2>1, <2>2, <2>3 DEF FormatDateAsODataTime, s
<1>3. CASE s # 0
  <2>1. /\ x.t = "text" /\ x.shape = "duration" /\ x.sign = 1 /\ x.years = 0 /\ x.months = 0 /\ x.days = 0 /\ x.seconds = s
    BY DEF DurationText
  <2>. HIDE DEF x, s
  <2>2. DaySeconds * (365 * 0 + 30 * 0 + 0) + s = s /\ 1 * s = s
    BY SMT, <1>1 DEF DaySeconds
  <2>3. ParseIsoDuration(x) = AsDuration(s)
    BY <1>3, <2>1, <2>2 DEF ParseIsoDuration
  <2> DEFINE a == ParseODataTicks(x, "floating")  b == ParseODataLiteral(x, "floating")  c == ParseIsoDuration(x)
             last == CASE x.shape = "plain" -> ParseDateString(x.pieces, "floating")
                       [] x.shape = "integer" -> ParseTimestamp(x.unit, x.instant, "floating")
                       [] OTHER -> NoDate
  <2>4. a = NoDate /\ b = NoDate
    BY <2>1 DEF ParseODataTicks, ParseODataLiteral
  <2>5. c # NoDate /\ c = AsDuration(s)
    BY <2>3 DEF AsDuration, NoDate
  <2>6. ParseDateValue(x) = FirstOf(<<a, b, c, last>>)
    BY <2>1 DEF ParseDateValue, ParseDateValueInternal
  <2>. HIDE DEF a, b, c, last
  <2>7. ParseDateValue(x) = AsDuration(s)
    BY <2>4, <2>5, <2>6, FirstWays
  <2>8. ParseDate(x) = Shift(DateOf(0, 0), s)
    BY <2>7 DEF ParseDate, CoerceParsedDateToDate, AsDuration, CloneUtcCalendarDate, Epoch
  <2>9. Shift(DateOf(0, 0), s) = DateOf(0, s)
    <3>1. 0 <= s /\ s <= LastSecond /\ s \in Int
      BY SMT, <1>1 DEF LastSecond, DaySeconds
    <3>. QED BY <3>1, ShiftWithin
  <2>. QED BY <1>2, <2>8, <2>9 DEF TimeComesBack, s
<1>. QED BY <1>3 DEF TimeComesBack

\* Two pieces more at the end of a text.
LEMMA TwoMore ==
  ASSUME NEW t \in Seq(Pieces), NEW n \in Nat, Len(t) = n, NEW p \in Pieces, NEW q \in Pieces
  PROVE  /\ t \o <<p>> \o <<q>> \in Seq(Pieces) /\ Len(t \o <<p>> \o <<q>>) = n + 2
         /\ (t \o <<p>> \o <<q>>)[n + 1] = p /\ (t \o <<p>> \o <<q>>)[n + 2] = q
         /\ \A i \in 1 .. n : (t \o <<p>> \o <<q>>)[i] = t[i]
<1> DEFINE x == <<p>>  y == <<q>>  u == t \o x  w == u \o y
<1>1. x \in Seq(Pieces) /\ Len(x) = 1 /\ x[1] = p /\ y \in Seq(Pieces) /\ Len(y) = 1 /\ y[1] = q
  OBVIOUS
<1>. HIDE DEF x, y
<1>2. u \in Seq(Pieces) /\ Len(u) = n + 1
  <2>1. u \in Seq(Pieces) /\ Len(u) = Len(t) + Len(x)
    BY <1>1, Joined
  <2>. QED BY <1>1, <2>1
<1>3. (\A i \in 1 .. n : u[i] = t[i]) /\ \A i \in 1 .. 1 : u[n + i] = x[i]
  <2>1. \A i \in 1 .. Len(t) : u[i] = t[i]
    BY <1>1, Joined
  <2>2. \A i \in 1 .. Len(x) : u[Len(t) + i] = x[i]
    BY <1>1, PiecesJoined
  <2>. QED BY <1>1, <2>1, <2>2
<1>. HIDE DEF u
<1>4. w \in Seq(Pieces) /\ Len(w) = n + 1 + 1
  <2>1. u \in Seq(Pieces) /\ y \in Seq(Pieces)
    BY <1>1, <1>2
  <2>2. w \in Seq(Pieces) /\ Len(w) = Len(u) + Len(y)
    BY <2>1, Joined
  <2>. QED BY <1>1, <1>2, <2>2
<1>5. (\A i \in 1 .. n + 1 : w[i] = u[i]) /\ \A i \in 1 .. 1 : w[n + 1 + i] = y[i]
  <2>1. u \in Seq(Pieces) /\ y \in Seq(Pieces)
    BY <1>1, <1>2
  <2>2. \A i \in 1 .. Len(u) : w[i] = u[i]
    BY <2>1, Joined
  <2>3. \A i \in 1 .. Len(y) : w[Len(u) + i] = y[i]
    BY <2>1, PiecesJoined
  <2>. QED BY <1>1, <1>2, <2>2, <2>3
<1>. HIDE DEF w
<1>6. /\ 1 \in 1 .. 1 /\ n + 1 \in 1 .. n + 1 /\ n + 1 + 1 = n + 2
      /\ \A i \in 1 .. n : i \in 1 .. n + 1
  BY SMT
<1>7. w[n + 1] = p /\ w[n + 2] = q /\ \A i \in 1 .. n : w[i] = t[i]
  BY <1>1, <1>3, <1>5, <1>6
<1>. QED BY <1>4, <1>6, <1>7 DEF w, u, x, y

TextAdds(u, t, n, p, q) ==
  u \in Seq(Pieces) /\ Len(u) = n + 2 /\ u[n + 1] = p /\ u[n + 2] = q /\ \A i \in 1 .. n : u[i] = t[i]
LEMMA WithTwoMore ==
  \A t \in Seq(Pieces) : \A n \in Nat : \A p \in Pieces : \A q \in Pieces : Len(t) = n => TextAdds(t \o <<p>> \o <<q>>, t, n, p, q)
<1>1. ASSUME NEW t \in Seq(Pieces), NEW n \in Nat, NEW p \in Pieces, NEW q \in Pieces, Len(t) = n
      PROVE  TextAdds(t \o <<p>> \o <<q>>, t, n, p, q)
  <2>1. /\ t \o <<p>> \o <<q>> \in Seq(Pieces) /\ Len(t \o <<p>> \o <<q>>) = n + 2
        /\ (t \o <<p>> \o <<q>>)[n + 1] = p /\ (t \o <<p>> \o <<q>>)[n + 2] = q
        /\ \A i \in 1 .. n : (t \o <<p>> \o <<q>>)[i] = t[i]
    BY <1>1, TwoMore
  <2>. QED BY <2>1 DEF TextAdds
<1>. QED BY <1>1

\* yyyy-MM-ddTHH:mm:ss
ClockText(y, month, d, h, mi, s) ==
  YearPairs(y) \o <<Lit("-")>> \o <<Pair(month)>> \o <<Lit("-")>> \o <<Pair(d)>> \o <<Lit("T")>>
    \o <<Pair(h)>> \o <<Lit(":")>> \o <<Pair(mi)>> \o <<Lit(":")>> \o <<Pair(s)>>

IsClock(t, y, month, d, h, mi, s) ==
  /\ t \in Seq(Pieces) /\ Len(t) = 12 /\ YearAt(t, 1) = y /\ SignOf(t[1]) = "#" /\ SignOf(t[2]) = "#"
  /\ t[3] = Lit("-") /\ t[4] = Pair(month) /\ t[5] = Lit("-") /\ t[6] = Pair(d) /\ t[7] = Lit("T") /\ t[8] = Pair(h)
  /\ t[9] = Lit(":") /\ t[10] = Pair(mi) /\ t[11] = Lit(":") /\ t[12] = Pair(s)
LEMMA ClockTextIs ==
  ASSUME NEW y \in Nat, NEW month \in Nat, NEW d \in Nat, NEW h \in Nat, NEW mi \in Nat, NEW s \in Nat
  PROVE  IsClock(ClockText(y, month, d, h, mi, s), y, month, d, h, mi, s)
<1> DEFINE a == YearPairs(y)
           b == a \o <<Lit("-")>> \o <<Pair(month)>>
           c == b \o <<Lit("-")>> \o <<Pair(d)>>
           e == c \o <<Lit("T")>> \o <<Pair(h)>>
           f == e \o <<Lit(":")>> \o <<Pair(mi)>>
           g == f \o <<Lit(":")>> \o <<Pair(s)>>
           dash == Lit("-")  colon == Lit(":")  te == Lit("T")
<1>1. dash \in Pieces /\ colon \in Pieces /\ te \in Pieces
  BY PiecesAre DEF Marks
<1>2. Pair(month) \in Pieces /\ Pair(d) \in Pieces /\ Pair(h) \in Pieces /\ Pair(mi) \in Pieces /\ Pair(s) \in Pieces
  BY PiecesAre
<1>3. ClockText(y, month, d, h, mi, s) = g
  BY DEF ClockText
<1>4. /\ a \in Seq(Pieces) /\ Len(a) = 2 /\ a[1] = Pair(y \div 100) /\ a[2] = Pair(y % 100) /\ y \div 100 \in Nat /\ y % 100 \in Nat
      /\ 100 * (y \div 100) + (y % 100) = y
  BY ZenonT(30), YearIs
<1>. HIDE DEF a, dash, colon, te
<1>5. 2 \in Nat /\ 4 \in Nat /\ 6 \in Nat /\ 8 \in Nat /\ 10 \in Nat /\ 2 + 2 = 4 /\ 4 + 2 = 6 /\ 6 + 2 = 8 /\ 8 + 2 = 10 /\ 10 + 2 = 12
  BY SMT
<1>6. b \in Seq(Pieces) /\ Len(b) = 4 /\ b[2 + 1] = dash /\ b[2 + 2] = Pair(month) /\ \A i \in 1 .. 2 : b[i] = a[i]
  <2> DEFINE q == Pair(month)
  <2>1. a \in Seq(Pieces) /\ 2 \in Nat /\ Len(a) = 2 /\ dash \in Pieces /\ q \in Pieces
    BY <1>1, <1>2, <1>5, <1>4
  <2>2. b = a \o <<dash>> \o <<q>>
    BY DEF dash
  <2>. HIDE DEF q, b
  <2>3. TextAdds(b, a, 2, dash, q)
    BY <2>1, <2>2, WithTwoMore
  <2>. QED BY <1>5, <2>3 DEF TextAdds, q
<1>. HIDE DEF b
<1>7. c \in Seq(Pieces) /\ Len(c) = 6 /\ c[4 + 1] = dash /\ c[4 + 2] = Pair(d) /\ \A i \in 1 .. 4 : c[i] = b[i]
  <2> DEFINE q == Pair(d)
  <2>1. b \in Seq(Pieces) /\ 4 \in Nat /\ Len(b) = 4 /\ dash \in Pieces /\ q \in Pieces
    BY <1>1, <1>2, <1>5, <1>6
  <2>2. c = b \o <<dash>> \o <<q>>
    BY DEF dash
  <2>. HIDE DEF q, c
  <2>3. TextAdds(c, b, 4, dash, q)
    BY <2>1, <2>2, WithTwoMore
  <2>. QED BY <1>5, <2>3 DEF TextAdds, q
<1>. HIDE DEF c
<1>8. e \in Seq(Pieces) /\ Len(e) = 8 /\ e[6 + 1] = te /\ e[6 + 2] = Pair(h) /\ \A i \in 1 .. 6 : e[i] = c[i]
  <2> DEFINE q == Pair(h)
  <2>1. c \in Seq(Pieces) /\ 6 \in Nat /\ Len(c) = 6 /\ te \in Pieces /\ q \in Pieces
    BY <1>1, <1>2, <1>5, <1>7
  <2>2. e = c \o <<te>> \o <<q>>
    BY DEF te
  <2>. HIDE DEF q, e
  <2>3. TextAdds(e, c, 6, te, q)
    BY <2>1, <2>2, WithTwoMore
  <2>. QED BY <1>5, <2>3 DEF TextAdds, q
<1>. HIDE DEF e
<1>9. f \in Seq(Pieces) /\ Len(f) = 10 /\ f[8 + 1] = colon /\ f[8 + 2] = Pair(mi) /\ \A i \in 1 .. 8 : f[i] = e[i]
  <2> DEFINE q == Pair(mi)
  <2>1. e \in Seq(Pieces) /\ 8 \in Nat /\ Len(e) = 8 /\ colon \in Pieces /\ q \in Pieces
    BY <1>1, <1>2, <1>5, <1>8
  <2>2. f = e \o <<colon>> \o <<q>>
    BY DEF colon
  <2>. HIDE DEF q, f
  <2>3. TextAdds(f, e, 8, colon, q)
    BY <2>1, <2>2, WithTwoMore
  <2>. QED BY <1>5, <2>3 DEF TextAdds, q
<1>. HIDE DEF f
<1>10. g \in Seq(Pieces) /\ Len(g) = 12 /\ g[10 + 1] = colon /\ g[10 + 2] = Pair(s) /\ \A i \in 1 .. 10 : g[i] = f[i]
  <2> DEFINE q == Pair(s)
  <2>1. f \in Seq(Pieces) /\ 10 \in Nat /\ Len(f) = 10 /\ colon \in Pieces /\ q \in Pieces
    BY <1>1, <1>2, <1>5, <1>9
  <2>2. g = f \o <<colon>> \o <<q>>
    BY DEF colon
  <2>. HIDE DEF q, g
  <2>3. TextAdds(g, f, 10, colon, q)
    BY <2>1, <2>2, WithTwoMore
  <2>. QED BY <1>5, <2>3 DEF TextAdds, q
<1>. HIDE DEF g
<1>11. b[1] = a[1] /\ b[2] = a[2] /\ b[3] = dash /\ b[4] = Pair(month)
  BY SMT, <1>6
<1>12. c[1] = a[1] /\ c[2] = a[2] /\ c[3] = dash /\ c[4] = Pair(month) /\ c[5] = dash /\ c[6] = Pair(d)
  BY SMT, <1>7, <1>11
<1>13. /\ e[1] = a[1] /\ e[2] = a[2] /\ e[3] = dash /\ e[4] = Pair(month) /\ e[5] = dash /\ e[6] = Pair(d) /\ e[7] = te /\ e[8] = Pair(h)
  BY SMT, <1>8, <1>12
<1>14. /\ f[1] = a[1] /\ f[2] = a[2] /\ f[3] = dash /\ f[4] = Pair(month) /\ f[5] = dash /\ f[6] = Pair(d) /\ f[7] = te /\ f[8] = Pair(h)
       /\ f[9] = colon /\ f[10] = Pair(mi)
  <2>1. f[1] = e[1] /\ f[2] = e[2] /\ f[3] = e[3] /\ f[4] = e[4] /\ f[5] = e[5] /\ f[6] = e[6] /\ f[7] = e[7] /\ f[8] = e[8]
    BY SMT, <1>9
  <2>2. f[9] = colon /\ f[10] = Pair(mi)
    BY SMT, <1>9
  <2>. QED BY <1>13, <2>1, <2>2
<1>15. /\ g[1] = a[1] /\ g[2] = a[2] /\ g[3] = dash /\ g[4] = Pair(month) /\ g[5] = dash /\ g[6] = Pair(d) /\ g[7] = te /\ g[8] = Pair(h)
       /\ g[9] = colon /\ g[10] = Pair(mi) /\ g[11] = colon /\ g[12] = Pair(s)
  <2>1. /\ g[1] = f[1] /\ g[2] = f[2] /\ g[3] = f[3] /\ g[4] = f[4] /\ g[5] = f[5] /\ g[6] = f[6] /\ g[7] = f[7] /\ g[8] = f[8]
        /\ g[9] = f[9] /\ g[10] = f[10]
    BY SMT, <1>10
  <2>2. g[11] = colon /\ g[12] = Pair(s)
    BY SMT, <1>10
  <2>. QED BY <1>14, <2>1, <2>2
<1>16. SignOf(g[1]) = "#" /\ SignOf(g[2]) = "#" /\ g[1].n = y \div 100 /\ g[2].n = y % 100
  <2>1. g[1] = Pair(y \div 100) /\ g[2] = Pair(y % 100) /\ y \div 100 \in Nat /\ y % 100 \in Nat
    BY <1>4, <1>15
  <2>2. \A i \in Nat : SignOf(Pair(i)) = "#" /\ Pair(i).n = i
    BY PiecesAre
  <2>. QED BY <2>1, <2>2
<1>17. YearAt(g, 1) = y
  <2>1. g[1 + 1] = g[2]
    BY SMT
  <2>. QED BY <1>4, <1>16, <2>1 DEF YearAt
<1>18. IsClock(g, y, month, d, h, mi, s)
  BY <1>10, <1>15, <1>16, <1>17 DEF IsClock, dash, colon, te
<1>. QED BY <1>3, <1>18

\* Its form is one of the ISO forms.
LEMMA ClockShape ==
  ASSUME NEW s \in Seq(Pieces), Len(s) = 12, SignOf(s[1]) = "#", SignOf(s[2]) = "#", SignOf(s[3]) = "-", SignOf(s[4]) = "#",
         SignOf(s[5]) = "-", SignOf(s[6]) = "#", SignOf(s[7]) = "T", SignOf(s[8]) = "#", SignOf(s[9]) = ":", SignOf(s[10]) = "#",
         SignOf(s[11]) = ":", SignOf(s[12]) = "#"
  PROVE  Shape(s) \in IsoShapes
<1> DEFINE sh == Shape(s)
           a == IsoDate  b == <<"T", "#">>  c == <<":", "#", ":", "#">>  e == a \o b  t == e \o c
<1>1. a \in Seq(Signs) /\ Len(a) = 6 /\ a[1] = "#" /\ a[2] = "#" /\ a[3] = "-" /\ a[4] = "#" /\ a[5] = "-" /\ a[6] = "#"
  BY IsoDateIs DEF IsoDate
<1>2. b \in Seq(Signs) /\ Len(b) = 2 /\ b[1] = "T" /\ b[2] = "#"
  BY Shapes
<1>3. c \in Seq(Signs) /\ Len(c) = 4 /\ c[1] = ":" /\ c[2] = "#" /\ c[3] = ":" /\ c[4] = "#"
  BY DEF Signs
<1>4. "T" \in IsoSeparators /\ c \in IsoMinutes
  BY DEF IsoSeparators, IsoMinutes
<1>5. t = IsoTime("T", c)
  BY DEF IsoTime
<1>. HIDE DEF a, b, c
<1>6. sh \in Seq(Signs) /\ Len(sh) = 12 /\ \A i \in 1 .. 12 : sh[i] = SignOf(s[i])
  BY ShapeIs
<1>7. e \in Seq(Signs) /\ Len(e) = 8 /\ (\A i \in 1 .. 6 : e[i] = a[i]) /\ (\A i \in 1 .. 2 : e[6 + i] = b[i])
  <2>1. a \in Seq(Signs) /\ b \in Seq(Signs)
    BY <1>1, <1>2
  <2>2. e \in Seq(Signs) /\ Len(e) = Len(a) + Len(b) /\ \A i \in 1 .. Len(a) : e[i] = a[i]
    BY <2>1, SignsTogether
  <2>3. \A i \in 1 .. Len(b) : e[Len(a) + i] = b[i]
    BY <2>1, SignsJoined
  <2>4. 6 + 2 = 8
    BY SMT
  <2>. QED BY <1>1, <1>2, <2>2, <2>3, <2>4
<1>. HIDE DEF e
<1>8. t \in Seq(Signs) /\ Len(t) = 12 /\ (\A i \in 1 .. 8 : t[i] = e[i]) /\ (\A i \in 1 .. 4 : t[8 + i] = c[i])
  <2>1. e \in Seq(Signs) /\ c \in Seq(Signs)
    BY <1>3, <1>7
  <2>2. t \in Seq(Signs) /\ Len(t) = Len(e) + Len(c) /\ \A i \in 1 .. Len(e) : t[i] = e[i]
    BY <2>1, SignsTogether
  <2>3. \A i \in 1 .. Len(c) : t[Len(e) + i] = c[i]
    BY <2>1, SignsJoined
  <2>4. 8 + 4 = 12
    BY SMT
  <2>. QED BY ZenonT(30), <1>3, <1>7, <2>2, <2>3, <2>4
<1>. HIDE DEF t, sh
<1>9. /\ e[1] = "#" /\ e[2] = "#" /\ e[3] = "-" /\ e[4] = "#" /\ e[5] = "-" /\ e[6] = "#" /\ e[7] = "T" /\ e[8] = "#"
  BY SMT, <1>1, <1>2, <1>7
<1>10. /\ t[1] = "#" /\ t[2] = "#" /\ t[3] = "-" /\ t[4] = "#" /\ t[5] = "-" /\ t[6] = "#" /\ t[7] = "T" /\ t[8] = "#"
       /\ t[9] = ":" /\ t[10] = "#" /\ t[11] = ":" /\ t[12] = "#"
  BY SMT, <1>3, <1>8, <1>9
<1>11. /\ sh[1] = "#" /\ sh[2] = "#" /\ sh[3] = "-" /\ sh[4] = "#" /\ sh[5] = "-" /\ sh[6] = "#"
       /\ sh[7] = "T" /\ sh[8] = "#" /\ sh[9] = ":" /\ sh[10] = "#" /\ sh[11] = ":" /\ sh[12] = "#"
  BY SMT, <1>6
<1>12. sh = t
  <2>1. \A i \in 1 .. 12 : i = 1 \/ i = 2 \/ i = 3 \/ i = 4 \/ i = 5 \/ i = 6 \/ i = 7 \/ i = 8 \/ i = 9 \/ i = 10 \/ i = 11 \/ i = 12
    BY SMT
  <2>2. \A i \in 1 .. 12 : sh[i] = t[i]
    BY <1>10, <1>11, <2>1
  <2>. QED BY <1>6, <1>8, <2>2, SeqEqual
<1>13. IsoTime("T", c) \in IsoShapes
  BY <1>4 DEF IsoShapes
<1>. QED BY <1>5, <1>12, <1>13 DEF sh

ZoneText(sign, h, m) == <<Lit(sign), Pair(h), Lit(":"), Pair(m)>>

LEMMA ZoneTextIs ==
  ASSUME NEW sign \in {"+", "-"}, NEW h \in Nat, NEW m \in Nat
  PROVE  /\ ZoneText(sign, h, m) \in Seq(Pieces) /\ Len(ZoneText(sign, h, m)) = 4
         /\ ZoneText(sign, h, m)[1] = Lit(sign) /\ ZoneText(sign, h, m)[2] = Pair(h)
         /\ ZoneText(sign, h, m)[3] = Lit(":") /\ ZoneText(sign, h, m)[4] = Pair(m)
<1> DEFINE p == Lit(sign)  q == Pair(h)  r == Lit(":")  w == Pair(m)
<1>1. p \in Pieces /\ q \in Pieces /\ r \in Pieces /\ w \in Pieces
  BY PiecesAre DEF Marks
<1>. HIDE DEF p, q, r, w
<1>2. <<p, q, r, w>> \in Seq(Pieces) /\ Len(<<p, q, r, w>>) = 4
  BY <1>1, Tuples
<1>3. <<p, q, r, w>>[1] = p /\ <<p, q, r, w>>[2] = q /\ <<p, q, r, w>>[3] = r /\ <<p, q, r, w>>[4] = w
  OBVIOUS
<1>. QED BY <1>2, <1>3 DEF ZoneText, p, q, r, w

LEMMA SameFourPlaces ==
  ASSUME NEW S, NEW s \in Seq(S), NEW t \in Seq(S), Len(s) = 4, Len(t) = 4, s[1] = t[1], s[2] = t[2], s[3] = t[3], s[4] = t[4]
  PROVE  s = t
<1>1. \A i \in 1 .. 4 : i = 1 \/ i = 2 \/ i = 3 \/ i = 4
  BY SMT
<1>2. \A i \in 1 .. Len(s) : s[i] = t[i]
  BY <1>1
<1>. QED BY <1>2, SeqEqual

\* A text with a zone at its end is the text and the zone.
LEMMA ZoneIsCut ==
  ASSUME NEW s \in Seq(Pieces), NEW z \in Seq(Pieces), Len(s) = 12, Len(z) = 4
  PROVE  /\ s \o z \in Seq(Pieces) /\ Len(s \o z) = 16
         /\ SubSeq(s \o z, 1, Len(s \o z) - 4) = s /\ SubSeq(s \o z, Len(s \o z) - 4 + 1, Len(s \o z)) = z
         /\ (s \o z)[13] = z[1] /\ (s \o z)[14] = z[2] /\ (s \o z)[15] = z[3] /\ (s \o z)[16] = z[4]
<1> DEFINE u == s \o z
<1>1. u \in Seq(Pieces) /\ Len(u) = Len(s) + Len(z)
  BY ZenonT(30), Joined
<1>2. \A i \in 1 .. Len(z) : u[Len(s) + i] = z[i]
  BY PiecesJoined
<1>3. Len(u) = 16 /\ 16 - 4 = 12 /\ 16 - 4 + 1 = 13
  BY SMT, <1>1
<1>4. SubSeq(u, 1, 12) = s
  <2>1. 1 \in 1 .. Len(s) /\ 12 \in 1 .. Len(s)
    BY SMT
  <2>2. SubSeq(u, 1, 12) = SubSeq(s, 1, 12)
    BY <2>1, SubSeqOfConcat1
  <2>. QED BY <2>2, SubSeqFull
<1>5. SubSeq(u, 13, 16) = z
  <2>1. 13 \in Len(s) + 1 .. Len(s) + Len(z) /\ 16 \in Len(s) + 1 .. Len(s) + Len(z) /\ 13 - Len(s) = 1 /\ 16 - Len(s) = 4
    BY SMT
  <2>2. SubSeq(u, 13, 16) = SubSeq(z, 13 - Len(s), 16 - Len(s))
    BY ZenonT(30), <2>1, SubSeqOfConcat2
  <2>. QED BY <2>1, <2>2, SubSeqFull
<1>. HIDE DEF u
<1>6. u[13] = z[1] /\ u[14] = z[2] /\ u[15] = z[3] /\ u[16] = z[4]
  BY SMT, <1>2
<1>. QED BY <1>1, <1>3, <1>4, <1>5, <1>6 DEF u

\* It is seen by its last four pieces.
LEMMA ZoneIsSeen ==
  ASSUME NEW u \in Seq(Pieces), Len(u) = 16, NEW sign \in {"+", "-"}, SignOf(u[13]) = sign, SignOf(u[14]) = "#", SignOf(u[15]) = ":", SignOf(u[16]) = "#"
  PROVE  ZoneLength(u) = 4
<1> DEFINE sh == Shape(u)  z == <<"Z">>  v == <<sign, "#", ":", "#">>
<1>1. sh \in Seq(Signs) /\ Len(sh) = 16 /\ \A i \in 1 .. 16 : sh[i] = SignOf(u[i])
  BY ShapeIs
<1>2. sh[13] = sign /\ sh[14] = "#" /\ sh[15] = ":" /\ sh[16] = "#"
  <2>1. 13 \in 1 .. 16 /\ 14 \in 1 .. 16 /\ 15 \in 1 .. 16 /\ 16 \in 1 .. 16
    BY SMT
  <2>. HIDE DEF sh
  <2>. QED BY <1>1, <2>1
<1>. HIDE DEF sh
<1>3. SubSeq(sh, 16, 16) # z
  <2>1. z \in Seq(Signs) /\ Len(z) = 1 /\ z[1] = "Z"
    BY SuffixesAre
  <2>. HIDE DEF z
  <2>2. 16 \in Int /\ 1 \in 1 .. Len(z) /\ 16 \in 1 .. Len(sh) /\ Len(z) = Len(sh) - 16 + 1 /\ 16 + 1 - 1 = 16
    BY SMT, <1>1, <2>1
  <2>3. sh[16 + 1 - 1] # z[1]
    BY <1>2, <2>1, <2>2
  <2>4. SubSeq(sh, 16, Len(sh)) # z
    BY <1>1, <2>1, <2>2, <2>3, NotEnding
  <2>. QED BY <1>1, <2>4
<1>4. SubSeq(sh, 13, 16) = v
  <2>1. v \in Seq(Signs) /\ Len(v) = 4 /\ v[1] = sign /\ v[2] = "#" /\ v[3] = ":" /\ v[4] = "#"
    BY SuffixesAre
  <2>. HIDE DEF v
  <2>2. 13 \in Int /\ 16 \in Int /\ 13 <= 16 /\ 16 - 13 + 1 = 4 /\ \A i \in 13 .. 16 : i \in 1 .. 16
    BY SMT
  <2>3. \A i \in 13 .. 16 : sh[i] \in Signs
    <3>1. \A i \in 1 .. Len(sh) : sh[i] \in Signs
      BY <1>1, ElementOfSeq
    <3>. QED BY <1>1, <2>2, <3>1
  <2> DEFINE w == SubSeq(sh, 13, 16)
  <2>4. w \in Seq(Signs) /\ Len(w) = 4
    BY <2>2, <2>3, SubSeqProperties
  <2>5. \A i \in 1 .. 16 - 13 + 1 : w[i] = sh[13 + i - 1]
    BY <2>2, <2>3, SubSeqProperties
  <2>. HIDE DEF w
  <2>6. w[1] = sh[13] /\ w[2] = sh[14] /\ w[3] = sh[15] /\ w[4] = sh[16]
    BY SMT, <2>5
  <2>7. w[1] = v[1] /\ w[2] = v[2] /\ w[3] = v[3] /\ w[4] = v[4]
    BY <1>2, <2>1, <2>6
  <2>8. w = v
    BY <2>1, <2>4, <2>7, SameFourPlaces
  <2>. QED BY <2>8 DEF w
<1>5. /\ Len(sh) - Len(<<"Z">>) + 1 = 16 /\ Len(v) = 4 /\ Len(sh) - 4 + 1 = 13 /\ Len(sh) >= 4
  <2>1. Len(v) = 4 /\ Len(<<"Z">>) = 1
    BY SuffixesAre
  <2>2. 16 - 1 + 1 = 16 /\ 16 - 4 + 1 = 13 /\ 16 >= 4
    BY SMT
  <2>. QED BY <1>1, <2>1, <2>2
<1>6. SubSeq(sh, Len(sh) - Len(<<"Z">>) + 1, Len(sh)) # <<"Z">>
  BY <1>1, <1>3, <1>5
<1>7. Len(sh) >= Len(v) /\ SubSeq(sh, Len(sh) - Len(v) + 1, Len(sh)) = v
  BY <1>1, <1>4, <1>5
<1> DEFINE Ends(suffix) == Len(sh) >= Len(suffix) /\ SubSeq(sh, Len(sh) - Len(suffix) + 1, Len(sh)) = suffix
           plus == <<"+", "#", ":", "#">>  minus == <<"-", "#", ":", "#">>
           shortPlus == <<"+", "#", "#">>  shortMinus == <<"-", "#", "#">>
<1>8. ZoneLength(u) = CASE Ends(z) -> 1 [] Ends(plus) \/ Ends(minus) -> 4 [] Ends(shortPlus) \/ Ends(shortMinus) -> 3 [] OTHER -> 0
  BY DEF ZoneLength, sh
<1>9. ~ Ends(z) /\ (Ends(plus) \/ Ends(minus)) /\ ~ Ends(shortPlus) /\ ~ Ends(shortMinus)
  <2>1. ~ Ends(z)
    BY <1>6
  <2>2. Ends(v)
    BY <1>7
  <2>3. v = plus \/ v = minus
    OBVIOUS
  <2>4. ASSUME NEW a \in {"+", "-"}
        PROVE  ~ Ends(<<a, "#", "#">>)
    <3> DEFINE w == <<a, "#", "#">>
    <3>1. w \in Seq(Signs) /\ Len(w) = 3 /\ w[2] = "#"
      BY SuffixesAre
    <3>. HIDE DEF w
    <3>2. 14 \in Int /\ 2 \in 1 .. Len(w) /\ 14 \in 1 .. Len(sh) /\ Len(w) = Len(sh) - 14 + 1 /\ 14 + 2 - 1 = 15 /\ Len(sh) - Len(w) + 1 = 14
      BY SMT, <1>1, <3>1
    <3>3. sh[14 + 2 - 1] # w[2]
      BY <1>2, <3>1, <3>2
    <3>4. SubSeq(sh, 14, Len(sh)) # w
      BY <1>1, <3>1, <3>2, <3>3, NotEnding
    <3>5. ~ Ends(w)
      BY <3>2, <3>4
    <3>. QED BY <3>5 DEF w
  <2>5. ~ Ends(shortPlus) /\ ~ Ends(shortMinus)
    BY <2>4
  <2>. HIDE DEF Ends, z, v, plus, minus, shortPlus, shortMinus
  <2>. QED BY <2>1, <2>2, <2>3, <2>5
<1>. HIDE DEF Ends, z, v, plus, minus, shortPlus, shortMinus
<1>. QED BY <1>8, <1>9

\* Less than a day either way, in minutes, and its sign and size.
Offsets == -1439 .. 1439
SignOfOffset(offset) == IF offset < 0 THEN "-" ELSE "+"
SizeOfOffset(offset) == IF offset < 0 THEN - offset ELSE offset

\* The zone written for an offset is that offset.
LEMMA OffsetIs ==
  ASSUME NEW offset \in Offsets
  PROVE  /\ SizeOfOffset(offset) \div 60 \in Nat /\ SizeOfOffset(offset) % 60 \in Nat /\ SignOfOffset(offset) \in {"+", "-"}
         /\ ResolveIsoTimezoneOffset(ZoneText(SignOfOffset(offset), SizeOfOffset(offset) \div 60, SizeOfOffset(offset) % 60)) = 60 * offset
         /\ 60 * offset # NoOffset /\ offset # NoOffset /\ offset \in Int
<1> DEFINE sign == SignOfOffset(offset)  size == SizeOfOffset(offset)
           h == size \div 60  m == size % 60  z == ZoneText(sign, h, m)
<1>sign. sign = (IF offset < 0 THEN "-" ELSE "+") /\ size = (IF offset < 0 THEN - offset ELSE offset)
  BY DEF SignOfOffset, SizeOfOffset
<1>range. offset \in Int /\ -1440 < offset /\ offset < 1440
  BY SMT DEF Offsets
<1>. HIDE DEF sign, size
<1>1. size \in Nat /\ size < 1440
  BY SMT, <1>sign, <1>range
<1>2. h \in Nat /\ h <= 23 /\ m \in Nat /\ m <= 59 /\ size = 60 * h + m
  BY SMT, <1>1
<1>3. sign \in {"+", "-"}
  BY <1>sign
<1>. HIDE DEF h, m
<1>4. z \in Seq(Pieces) /\ Len(z) = 4 /\ z[1] = Lit(sign) /\ z[2] = Pair(h) /\ z[4] = Pair(m)
  BY <1>2, <1>3, ZoneTextIs
<1>5. Lit(sign).lit = sign /\ Pair(h).n = h /\ Pair(m).n = m
  BY DEF Lit, Pair
<1>. HIDE DEF z
<1>6. z[1].lit = sign /\ z[2].n = h /\ z[Len(z)].n = m /\ sign # "Z"
  BY <1>3, <1>4, <1>5
<1>7. ~ (h > 23 \/ m > 59)
  BY SMT, <1>2
<1>8. ResolveIsoTimezoneOffset(z) = (IF sign = "-" THEN -1 ELSE 1) * (3600 * h + 60 * m)
  BY <1>6, <1>7 DEF ResolveIsoTimezoneOffset
<1>9. (IF sign = "-" THEN -1 ELSE 1) * (3600 * h + 60 * m) = 60 * offset
  <2>1. 3600 * h + 60 * m = 60 * size
    BY SMT, <1>2
  <2>2. CASE offset < 0
    <3>1. sign = "-" /\ size = - offset
      BY <1>sign, <2>2
    <3>2. -1 * (60 * size) = 60 * offset
      BY SMT, <1>range, <3>1
    <3>. QED BY <2>1, <3>1, <3>2
  <2>3. CASE ~ (offset < 0)
    <3>1. sign = "+" /\ size = offset
      BY <1>sign, <2>3
    <3>2. 1 * (60 * size) = 60 * offset
      BY SMT, <1>range, <3>1
    <3>. QED BY <2>1, <3>1, <3>2
  <2>. QED BY <2>2, <2>3
<1>10. 60 * offset # NoOffset /\ offset # NoOffset
  BY SMT, <1>range DEF NoOffset
<1>. QED BY <1>range, <1>2, <1>3, <1>8, <1>9, <1>10 DEF h, m, z, sign, size

LEMMA FirstOfSeven ==
  ASSUME NEW a, NEW b, NEW c, NEW d, NEW e, NEW f, NEW g, a # NoDate
  PROVE  FirstOf(<<a, b, c, d, e, f, g>>) = a
<1> DEFINE s == <<a, b, c, d, e, f, g>>  S == {a, b, c, d, e, f, g}
<1>1. s \in Seq(S) /\ Len(s) = 7 /\ s[1] = a
  <2>1. a \in S /\ b \in S /\ c \in S /\ d \in S /\ e \in S /\ f \in S /\ g \in S
    OBVIOUS
  <2>. HIDE DEF S
  <2>. QED BY <2>1, Tuples
<1>. HIDE DEF s, S
<1>2. 1 \in 1 .. 7 /\ ~ \E i \in 1 .. 1 - 1 : TRUE
  BY SMT
<1>3. 1 \in 1 .. Len(s) /\ s \in Seq(S) /\ s[1] # NoDate /\ \A i \in 1 .. 1 - 1 : s[i] = NoDate
  BY <1>1, <1>2
<1>4. FirstOf(s) = s[1]
  BY <1>3, FirstIs
<1>. QED BY <1>1, <1>4 DEF s

LEMMA ResultsAre ==
  ASSUME NEW date, NEW source
  PROVE  AsDateTimeValue(date, source) # NoDate /\ CoerceParsedDateToDate(AsDateTimeValue(date, source)) = date
         /\ AsDateTimeValue(date, source).date = date /\ WithSourceOverride(AsDateTimeValue(date, source), "odata-literal") = AsDateTimeValue(date, "odata-literal")
<1>1. AsDateTimeValue(date, source) # NoDate /\ AsDateTimeValue(date, source).kind = "date-time" /\ AsDateTimeValue(date, source).date = date
  BY DEF AsDateTimeValue, NoDate
<1>2. CoerceParsedDateToDate(AsDateTimeValue(date, source)) = date
  BY <1>1 DEF CoerceParsedDateToDate
<1>3. WithSourceOverride(AsDateTimeValue(date, source), "odata-literal") = AsDateTimeValue(date, "odata-literal")
  <2>1. [AsDateTimeValue(date, source) EXCEPT !.source = "odata-literal"] = AsDateTimeValue(date, "odata-literal")
    BY DEF AsDateTimeValue
  <2>. QED BY <1>1, <2>1 DEF WithSourceOverride
<1>. QED BY <1>1, <1>2, <1>3

\* What a text is read as, by its form.
LEMMA TextsAreRead ==
  ASSUME NEW p, NEW mode, NEW date, NEW source, ParseDateString(p, mode) = AsDateTimeValue(date, source)
  PROVE  /\ CoerceParsedDateToDate(ParseDateValueInternal(Plain(p), mode)) = date
         /\ CoerceParsedDateToDate(ParseDateValueInternal(Literal(p), mode)) = date
<1> DEFINE Rest(x) == CASE x.shape = "plain" -> ParseDateString(x.pieces, mode)
                        [] x.shape = "integer" -> ParseTimestamp(x.unit, x.instant, mode)
                        [] OTHER -> NoDate
           Ways(x) == FirstOf(<<ParseODataTicks(x, mode), ParseODataLiteral(x, mode), ParseIsoDuration(x), Rest(x)>>)
<1>1. \A x : x.t = "text" => ParseDateValueInternal(x, mode) = Ways(x)
  BY DEF ParseDateValueInternal
<1>2. /\ Plain(p).t = "text" /\ Plain(p).shape = "plain" /\ Plain(p).pieces = p
      /\ Literal(p).t = "text" /\ Literal(p).shape = "literal" /\ Literal(p).inner = p
  BY DEF Plain, Literal
<1> DEFINE x == Plain(p)  y == Literal(p)
<1>3. Rest(x) = AsDateTimeValue(date, source)
  <2>1. Rest(x) = ParseDateString(p, mode)
    BY <1>2
  <2>. QED BY <2>1
<1>4. ParseODataTicks(x, mode) = NoDate /\ ParseODataLiteral(x, mode) = NoDate /\ ParseIsoDuration(x) = NoDate
  <2>1. x.shape = "plain"
    BY <1>2
  <2>. HIDE DEF x
  <2>. QED BY <2>1 DEF ParseODataTicks, ParseODataLiteral, ParseIsoDuration
<1>5. ParseODataTicks(y, mode) = NoDate /\ ParseODataLiteral(y, mode) = AsDateTimeValue(date, "odata-literal")
  <2>1. y.shape = "literal" /\ y.inner = p
    BY <1>2
  <2>2. WithSourceOverride(ParseDateString(p, mode), "odata-literal") = AsDateTimeValue(date, "odata-literal")
    BY ResultsAre
  <2>. HIDE DEF y
  <2>. QED BY <2>1, <2>2 DEF ParseODataTicks, ParseODataLiteral
<1>. HIDE DEF Rest, x, y
<1>6. Ways(x) = AsDateTimeValue(date, source)
  BY <1>3, <1>4, FirstWays
<1>7. Ways(y) = AsDateTimeValue(date, "odata-literal")
  <2>1. AsDateTimeValue(date, "odata-literal") # NoDate
    BY ResultsAre
  <2>. QED BY <1>5, <2>1, FirstWays
<1>. HIDE DEF Ways
<1>8. ParseDateValueInternal(x, mode) = AsDateTimeValue(date, source) /\ ParseDateValueInternal(y, mode) = AsDateTimeValue(date, "odata-literal")
  BY <1>1, <1>2, <1>6, <1>7 DEF x, y
<1>. QED BY <1>8, ResultsAre DEF x, y

LEMMA TicksAreRead ==
  ASSUME NEW instant, NEW offset, offset # NoOffset
  PROVE  /\ CoerceParsedDateToDate(ParseDateValueInternal(Ticks(instant, offset), "instant")) = FromInstant(instant)
         /\ CoerceParsedDateToDate(ParseDateValueInternal(Ticks(instant, offset), "floating")) = Shift(instant, 60 * offset)
<1> DEFINE x == Ticks(instant, offset)
           Rest(mode) == CASE x.shape = "plain" -> ParseDateString(x.pieces, mode)
                           [] x.shape = "integer" -> ParseTimestamp(x.unit, x.instant, mode)
                           [] OTHER -> NoDate
           Ways(mode) == FirstOf(<<ParseODataTicks(x, mode), ParseODataLiteral(x, mode), ParseIsoDuration(x), Rest(mode)>>)
<1>1. x.t = "text" /\ x.shape = "ticks" /\ x.instant = instant /\ x.offset = offset
  BY DEF Ticks
<1>2. \A mode : ParseDateValueInternal(x, mode) = Ways(mode)
  BY <1>1 DEF ParseDateValueInternal
<1>. HIDE DEF x
<1>3. ParseODataTicks(x, "instant") = AsDateTimeValue(FromInstant(instant), "odata-ticks")
  BY <1>1 DEF ParseODataTicks
<1>4. ParseODataTicks(x, "floating") = AsDateTimeValue(Shift(instant, 60 * offset), "odata-ticks")
  BY <1>1 DEF ParseODataTicks, CloneUtcCalendarDate
<1>. HIDE DEF Rest
<1>5. Ways("instant") = AsDateTimeValue(FromInstant(instant), "odata-ticks")
  <2>1. AsDateTimeValue(FromInstant(instant), "odata-ticks") # NoDate
    BY ResultsAre
  <2>. QED BY <1>3, <2>1, FirstWays
<1>6. Ways("floating") = AsDateTimeValue(Shift(instant, 60 * offset), "odata-ticks")
  <2>1. AsDateTimeValue(Shift(instant, 60 * offset), "odata-ticks") # NoDate
    BY ResultsAre
  <2>. QED BY <1>4, <2>1, FirstWays
<1>. HIDE DEF Ways
<1>7. CoerceParsedDateToDate(ParseDateValueInternal(x, "instant")) = FromInstant(instant)
  BY <1>2, <1>5, ResultsAre
<1>8. CoerceParsedDateToDate(ParseDateValueInternal(x, "floating")) = Shift(instant, 60 * offset)
  BY <1>2, <1>6, ResultsAre
<1>. QED BY <1>7, <1>8 DEF x

LEMMA NumbersAreRead ==
  ASSUME NEW instant, NEW unit, unit = "seconds" \/ ReadsAsMilliseconds(instant)
  PROVE  /\ CoerceParsedDateToDate(ParseDateValueInternal(NumberValue(unit, instant), "instant")) = FromInstant(instant)
         /\ CoerceParsedDateToDate(ParseDateValueInternal(NumberValue(unit, instant), "floating")) = instant
<1> DEFINE x == NumberValue(unit, instant)
<1>1. x.t = "number" /\ x.unit = unit /\ x.instant = instant
  BY DEF NumberValue
<1>. HIDE DEF x
<1>2. \A mode : ParseDateValueInternal(x, mode) = ParseTimestamp(unit, instant, mode)
  BY <1>1 DEF ParseDateValueInternal
<1>3. ParseTimestamp(unit, instant, "instant") = AsDateTimeValue(FromInstant(instant), "timestamp")
  BY DEF ParseTimestamp
<1>4. ParseTimestamp(unit, instant, "floating") = AsDateTimeValue(instant, "timestamp")
  BY DEF ParseTimestamp, CloneUtcCalendarDate
<1>5. CoerceParsedDateToDate(ParseDateValueInternal(x, "instant")) = FromInstant(instant)
  BY <1>2, <1>3, ResultsAre
<1>6. CoerceParsedDateToDate(ParseDateValueInternal(x, "floating")) = instant
  BY <1>2, <1>4, ResultsAre
<1>. QED BY <1>5, <1>6 DEF x

LEMMA DatesAreRead ==
  ASSUME NEW date, IsValidDate(date), NEW mode
  PROVE  CoerceParsedDateToDate(ParseDateValueInternal(DateValue(date), mode)) = date
<1>1. DateValue(date).t = "date" /\ DateValue(date).date = date
  BY DEF DateValue
<1>2. ParseDateValueInternal(DateValue(date), mode) = AsDateTimeValue(date, "date-object")
  BY <1>1 DEF ParseDateValueInternal, CloneCalendarDate
<1>. QED BY <1>2, ResultsAre

LEMMA ClocksAre == \A y, month, d, h, mi, s \in Nat : IsClock(ClockText(y, month, d, h, mi, s), y, month, d, h, mi, s)
<1>1. ASSUME NEW y \in Nat, NEW month \in Nat, NEW d \in Nat, NEW h \in Nat, NEW mi \in Nat, NEW s \in Nat
      PROVE  IsClock(ClockText(y, month, d, h, mi, s), y, month, d, h, mi, s)
  BY ClockTextIs
<1>. QED BY <1>1

\* The components of a date written with its time.
TimeText(date) == ClockText(Year(date), Month(date) + 1, DayOfMonth(date), Hours(date), Minutes(date), Seconds(date))

LEMMA TimeTextIs ==
  ASSUME NEW date \in ShownDates
  PROVE  /\ TimeText(date) \in Seq(Pieces) /\ Len(TimeText(date)) = 12
         /\ SignOf(TimeText(date)[3]) = "-" /\ SignOf(TimeText(date)[9]) = ":" /\ SignOf(TimeText(date)[10]) = "#" /\ SignOf(TimeText(date)[12]) = "#"
         /\ ParseIsoLocal(TimeText(date)) = AsDateTimeValue(date, "iso-local")
<1> DEFINE t == TimeText(date)
           y == Year(date)  m == Month(date)  d == DayOfMonth(date)  h == Hours(date)  mi == Minutes(date)  s == Seconds(date)
           month == m + 1
<1>1. y \in Nat /\ month \in Nat /\ d \in Nat /\ h \in Nat /\ mi \in Nat /\ s \in Nat
  <2>1. y \in 100 .. 9999 /\ m \in 0 .. 11 /\ d \in 1 .. 31 /\ h \in 0 .. 23 /\ mi \in 0 .. 59 /\ s \in 0 .. 59
    BY SMTT(30), ComponentsAre
  <2>. HIDE DEF y, m, d, h, mi, s
  <2>. QED BY SMTT(30), <2>1
<1>2. IsValidDate(date)
  BY ComponentsAre
<1>3. CalendarDate(y, month, d, h, mi, s) = date
  BY DateOfComponents
<1>4. t = ClockText(y, month, d, h, mi, s)
  BY DEF TimeText
<1>. HIDE DEF t, y, month, d, h, mi, s
<1>5. /\ t \in Seq(Pieces) /\ Len(t) = 12 /\ YearAt(t, 1) = y /\ SignOf(t[1]) = "#" /\ SignOf(t[2]) = "#"
      /\ t[3] = Lit("-") /\ t[4] = Pair(month) /\ t[5] = Lit("-") /\ t[6] = Pair(d) /\ t[7] = Lit("T") /\ t[8] = Pair(h)
      /\ t[9] = Lit(":") /\ t[10] = Pair(mi) /\ t[11] = Lit(":") /\ t[12] = Pair(s)
  <2>1. IsClock(t, y, month, d, h, mi, s)
    BY <1>1, <1>4, ClocksAre
  <2>. QED BY <2>1 DEF IsClock
<1>6. /\ SignOf(Lit("-")) = "-" /\ SignOf(Lit("T")) = "T" /\ SignOf(Lit(":")) = ":"
  BY PiecesAre DEF Marks
<1>7. /\ SignOf(Pair(month)) = "#" /\ SignOf(Pair(d)) = "#" /\ SignOf(Pair(h)) = "#" /\ SignOf(Pair(mi)) = "#" /\ SignOf(Pair(s)) = "#"
      /\ Pair(month).n = month /\ Pair(d).n = d /\ Pair(h).n = h /\ Pair(mi).n = mi /\ Pair(s).n = s
  BY <1>1, PiecesAre
<1>8. /\ SignOf(t[3]) = "-" /\ SignOf(t[4]) = "#" /\ SignOf(t[5]) = "-" /\ SignOf(t[6]) = "#" /\ SignOf(t[7]) = "T" /\ SignOf(t[8]) = "#"
      /\ SignOf(t[9]) = ":" /\ SignOf(t[10]) = "#" /\ SignOf(t[11]) = ":" /\ SignOf(t[12]) = "#"
  BY <1>5, <1>6, <1>7
<1>9. Shape(t) \in IsoShapes
  BY <1>5, <1>8, ClockShape
<1>10. t[4].n = month /\ t[6].n = d /\ t[8].n = h /\ t[10].n = mi /\ t[12].n = s
  BY <1>5, <1>7
<1>11. NumberAt(t, 8) = h /\ NumberAt(t, 10) = mi /\ NumberAt(t, 12) = s
  <2>1. DOMAIN t = 1 .. 12
    BY <1>5, LenProperties
  <2>2. 8 \in 1 .. 12 /\ 10 \in 1 .. 12 /\ 12 \in 1 .. 12
    BY SMT
  <2>. QED BY <1>10, <2>1, <2>2 DEF NumberAt
<1>12. ParseIsoLocal(t) = ResultOf(CalendarDate(y, month, d, h, mi, s), "iso-local")
  BY <1>5, <1>9, <1>10, <1>11 DEF ParseIsoLocal
<1>13. ParseIsoLocal(t) = AsDateTimeValue(date, "iso-local")
  BY <1>2, <1>3, <1>12 DEF ResultOf
<1>. QED BY <1>5, <1>8, <1>13 DEF t

\* Without a zone it is that date, in each mode.
LEMMA TimeIsRead ==
  ASSUME NEW date \in ShownDates, NEW mode
  PROVE  ParseDateString(TimeText(date), mode) = AsDateTimeValue(date, "iso-local")
<1> DEFINE s == TimeText(date)
<1>1. /\ s \in Seq(Pieces) /\ Len(s) = 12
      /\ SignOf(s[3]) = "-" /\ SignOf(s[9]) = ":" /\ SignOf(s[10]) = "#" /\ SignOf(s[12]) = "#"
      /\ ParseIsoLocal(s) = AsDateTimeValue(date, "iso-local")
  BY TimeTextIs
<1>. HIDE DEF s
<1>2. 3 \in 1 .. 12 /\ 12 - 2 = 10 /\ 12 - 3 = 9 /\ 4 <= 12
  BY SMT
<1>3. ZoneLength(s) = 0
  <2>1. /\ s \in Seq(Pieces) /\ 4 <= Len(s) /\ SignOf(s[Len(s)]) = "#"
        /\ SignOf(s[Len(s) - 2]) \notin {"+", "-"} /\ SignOf(s[Len(s) - 3]) \notin {"+", "-"}
    BY <1>1, <1>2
  <2>. QED BY <2>1, NoZone
<1>4. ParseIsoZoned(s, mode) = NoDate
  BY <1>3 DEF ParseIsoZoned
<1>5. Shape(s)[3] = "-"
  <2>1. s \in Seq(Pieces) /\ 3 \in 1 .. Len(s)
    BY <1>1, <1>2
  <2>2. Shape(s)[3] = SignOf(s[3])
    BY <2>1, ShapeIs
  <2>. QED BY <1>1, <2>2
<1>6. ~ IsDigits(s)
  <2>1. s \in Seq(Pieces) /\ 3 \in 1 .. Len(s) /\ SignOf(s[3]) # "#"
    BY <1>1, <1>2
  <2>. QED BY <2>1, NotDigits
<1>7. ParseAbapDotted(s) = NoDate /\ ParseSlashDate(s) = NoDate
  BY <1>5 DEF ParseAbapDotted, ParseSlashDate
<1>8. ParseAbapTimestamp(s) = NoDate /\ ParseAbapCompact(s) = NoDate
  BY <1>6 DEF ParseAbapTimestamp, ParseAbapCompact
<1>. QED BY <1>1, <1>4, <1>6, <1>7, <1>8, SevenWays DEF ParseDateString, s

ZonedText(date, offset) == TimeText(date) \o ZoneText(SignOfOffset(offset), SizeOfOffset(offset) \div 60, SizeOfOffset(offset) % 60)

\* With a zone it is that date where its clock is meant, and the moment it names where a moment is.
LEMMA ZonedIsRead ==
  ASSUME NEW date \in ShownDates, NEW offset \in Offsets
  PROVE  /\ ParseDateString(ZonedText(date, offset), "floating") = AsDateTimeValue(date, "iso-zoned")
         /\ ParseDateString(ZonedText(date, offset), "instant") = AsDateTimeValue(FromInstant(Shift(date, - (60 * offset))), "iso-zoned")
<1> DEFINE sign == SignOfOffset(offset)  size == SizeOfOffset(offset)  hours == size \div 60  minutes == size % 60
           z == ZoneText(sign, hours, minutes)  s == TimeText(date)  u == s \o z
<1>1. hours \in Nat /\ minutes \in Nat /\ sign \in {"+", "-"} /\ ResolveIsoTimezoneOffset(z) = 60 * offset /\ 60 * offset # NoOffset
  BY OffsetIs
<1>2. sign \in {"+", "-"}
  BY <1>1
<1>3. hours \in Nat /\ minutes \in Nat
  BY <1>1
<1>offset. ResolveIsoTimezoneOffset(z) = 60 * offset /\ 60 * offset # NoOffset
  BY <1>1
<1>. HIDE DEF sign, size
<1>. HIDE DEF hours, minutes
<1>4. /\ z \in Seq(Pieces) /\ Len(z) = 4 /\ z[1] = Lit(sign) /\ z[2] = Pair(hours) /\ z[3] = Lit(":") /\ z[4] = Pair(minutes)
  BY <1>2, <1>3, ZoneTextIs
<1>. HIDE DEF z
<1>5. SignOf(z[1]) = sign /\ SignOf(z[2]) = "#" /\ SignOf(z[3]) = ":" /\ SignOf(z[4]) = "#"
  <2>1. SignOf(Pair(hours)) = "#" /\ SignOf(Pair(minutes)) = "#"
    BY <1>3, PiecesAre
  <2>2. sign \in Marks \ {""} /\ ":" \in Marks \ {""}
    BY <1>2 DEF Marks
  <2>3. SignOf(Lit(sign)) = sign /\ SignOf(Lit(":")) = ":"
    BY <2>2, PiecesAre
  <2>. QED BY <1>4, <2>1, <2>3
<1>6. s \in Seq(Pieces) /\ Len(s) = 12 /\ ParseIsoLocal(s) = AsDateTimeValue(date, "iso-local")
  BY TimeTextIs
<1>. HIDE DEF s
<1>7. /\ u \in Seq(Pieces) /\ Len(u) = 16
      /\ SubSeq(u, 1, Len(u) - 4) = s /\ SubSeq(u, Len(u) - 4 + 1, Len(u)) = z
      /\ u[13] = z[1] /\ u[14] = z[2] /\ u[15] = z[3] /\ u[16] = z[4]
  BY <1>4, <1>6, ZoneIsCut
<1>. HIDE DEF u
<1>8. ZoneLength(u) = 4
  <2>1. SignOf(u[13]) = sign /\ SignOf(u[14]) = "#" /\ SignOf(u[15]) = ":" /\ SignOf(u[16]) = "#"
    BY <1>5, <1>7
  <2>. QED BY <1>2, <1>7, <2>1, ZoneIsSeen
<1>9. AsDateTimeValue(date, "iso-local") # NoDate /\ AsDateTimeValue(date, "iso-local").date = date
  BY ResultsAre
<1>10. 4 # 0
  BY SMT
<1>11. ParseIsoZoned(u, "floating") = AsDateTimeValue(date, "iso-zoned")
  <2>1. ParseIsoLocal(SubSeq(u, 1, Len(u) - 4)) = AsDateTimeValue(date, "iso-local")
    BY <1>6, <1>7
  <2>. QED BY <1>8, <1>9, <1>10, <2>1 DEF ParseIsoZoned
<1> DEFINE o == 60 * offset
<1>12. ParseIsoZoned(u, "instant") = AsDateTimeValue(FromInstant(Shift(date, - o)), "iso-zoned")
  <2>1. ParseIsoLocal(SubSeq(u, 1, Len(u) - 4)) = AsDateTimeValue(date, "iso-local")
    BY <1>6, <1>7
  <2>2. ResolveIsoTimezoneOffset(SubSeq(u, Len(u) - 4 + 1, Len(u))) = o /\ o # NoOffset
    BY <1>offset, <1>7
  <2>. HIDE DEF o
  <2>. QED BY <1>8, <1>9, <1>10, <2>1, <2>2 DEF ParseIsoZoned
<1>. HIDE DEF o
<1>13. ParseDateString(u, "floating") = AsDateTimeValue(date, "iso-zoned")
  <2>1. AsDateTimeValue(date, "iso-zoned") # NoDate
    BY ResultsAre
  <2>2. ParseIsoZoned(u, "floating") # NoDate
    BY <1>11, <2>1
  <2>3. ParseDateString(u, "floating") = ParseIsoZoned(u, "floating")
    BY <2>2, FirstOfSeven DEF ParseDateString
  <2>. QED BY <1>11, <2>3
<1>14. ParseDateString(u, "instant") = AsDateTimeValue(FromInstant(Shift(date, - o)), "iso-zoned")
  <2>1. AsDateTimeValue(FromInstant(Shift(date, - o)), "iso-zoned") # NoDate
    BY ResultsAre
  <2>2. ParseIsoZoned(u, "instant") # NoDate
    BY <1>12, <2>1
  <2>3. ParseDateString(u, "instant") = ParseIsoZoned(u, "instant")
    BY <2>2, FirstOfSeven DEF ParseDateString
  <2>. QED BY <1>12, <2>3
<1>15. u = ZonedText(date, offset)
  BY DEF ZonedText, u, s, z, sign, size, hours, minutes
<1>. QED BY <1>13, <1>14, <1>15 DEF o

ReadsAlike(instant, offset, local, iso, zoned) ==
  /\ \A x \in {Plain(zoned), Ticks(instant, offset), Literal(zoned)} \cup {NumberValue("seconds", instant)} : InstantOf(ParseDateTZ(x)) = instant
  /\ \A x \in {Plain(zoned), Ticks(instant, offset), Literal(zoned)} \cup {Plain(iso)} : ParseDate(x) = local
  /\ ParseDate(NumberValue("seconds", instant)) = instant
  /\ ParseDate(DateValue(local)) = local /\ ParseDateTZ(DateValue(local)) = local
  /\ ReadsAsMilliseconds(instant) => ParseDateTZ(NumberValue("milliseconds", instant)) = FromInstant(instant)

LEMMA SameMomentIs ==
  ASSUME NEW instant, NEW offset,
         ReadsAlike(instant, offset, Shift(instant, 60 * offset), TimeText(Shift(instant, 60 * offset)), ZonedText(Shift(instant, 60 * offset), offset))
  PROVE  SameMoment(instant, offset)
BY DEF SameMoment, ReadsAlike, TimeText, ZonedText, ClockText, ZoneText, SignOfOffset, SizeOfOffset

(* The moment a text names does not depend on how it was written, and the clock it shows is the written one. *)
THEOREM MomentsAreTheSame ==
  ASSUME Zone \in Int, NEW instant \in DayMoments, NEW offset \in Offsets, Shift(instant, 60 * offset) \in ShownDates
  PROVE  SameMoment(instant, offset)
<1> DEFINE o == 60 * offset  local == Shift(instant, o)  iso == TimeText(local)  zoned == ZonedText(local, offset)
<1>1. offset # NoOffset /\ o \in Int
  <2>1. offset # NoOffset /\ offset \in Int
    BY OffsetIs
  <2>. QED BY SMT, <2>1
<1>2. local \in ShownDates /\ IsValidDate(local)
  <2>1. local \in ShownDates
    OBVIOUS
  <2>. HIDE DEF local
  <2>. QED BY <2>1, ComponentsAre
<1>3. Shift(local, - o) = instant
  <2>. HIDE DEF o
  <2>. QED BY <1>1, ShiftBack
<1>4. InstantOf(FromInstant(instant)) = instant
  BY ShiftBack DEF InstantOf, FromInstant
<1>. HIDE DEF local
<1>5. ParseDateString(iso, "floating") = AsDateTimeValue(local, "iso-local")
  BY <1>2, TimeIsRead
<1>6. /\ ParseDateString(zoned, "floating") = AsDateTimeValue(local, "iso-zoned")
      /\ ParseDateString(zoned, "instant") = AsDateTimeValue(FromInstant(instant), "iso-zoned")
  <2>1. /\ ParseDateString(zoned, "floating") = AsDateTimeValue(local, "iso-zoned")
        /\ ParseDateString(zoned, "instant") = AsDateTimeValue(FromInstant(Shift(local, - o)), "iso-zoned")
    BY <1>2, ZonedIsRead
  <2>. HIDE DEF o, zoned
  <2>. QED BY <1>3, <2>1
<1>. HIDE DEF iso, zoned
<1>7. ParseDate(Plain(iso)) = local
  BY <1>5, TextsAreRead DEF ParseDate, ParseDateValue
<1>8. ParseDate(Plain(zoned)) = local /\ ParseDate(Literal(zoned)) = local
  BY <1>6, TextsAreRead DEF ParseDate, ParseDateValue
<1>9. ParseDateTZ(Plain(zoned)) = FromInstant(instant) /\ ParseDateTZ(Literal(zoned)) = FromInstant(instant)
  BY <1>6, TextsAreRead DEF ParseDateTZ, ParseDateValueTZ
<1>10. ParseDateTZ(Ticks(instant, offset)) = FromInstant(instant) /\ ParseDate(Ticks(instant, offset)) = local
  BY <1>1, TicksAreRead DEF ParseDate, ParseDateValue, ParseDateTZ, ParseDateValueTZ, local
<1>11. ParseDateTZ(NumberValue("seconds", instant)) = FromInstant(instant) /\ ParseDate(NumberValue("seconds", instant)) = instant
  BY NumbersAreRead DEF ParseDate, ParseDateValue, ParseDateTZ, ParseDateValueTZ
<1>12. ParseDate(DateValue(local)) = local /\ ParseDateTZ(DateValue(local)) = local
  BY <1>2, DatesAreRead DEF ParseDate, ParseDateValue, ParseDateTZ, ParseDateValueTZ
<1>13. ReadsAsMilliseconds(instant) => ParseDateTZ(NumberValue("milliseconds", instant)) = FromInstant(instant)
  BY NumbersAreRead DEF ParseDateTZ, ParseDateValueTZ
<1>14. ReadsAlike(instant, offset, local, iso, zoned)
  BY <1>4, <1>7, <1>8, <1>9, <1>10, <1>11, <1>12, <1>13 DEF ReadsAlike
<1>. QED BY <1>14, SameMomentIs DEF zoned, iso, local, o
=============================================================================
