--------------------------- MODULE CalendarDates ---------------------------
(***************************************************************************)
(* src/formatters/date/: calendarDate.ts, dateRange.ts, relativeRanges.ts, *)
(* calendarPeriod.ts and educationDate.ts.                                 *)
(*                                                                         *)
(* Abstraction.  A Date is the number of its local day since 1 January     *)
(* 1970 and the second of that day, in a zone of fixed offset; the         *)
(* milliseconds are left out.  The second of an invalid Date is -1.        *)
(***************************************************************************)
EXTENDS Integers, Sequences, FiniteSets, SequencesExt

DaySeconds == 86400
DateOf(day, second) == [day |-> day, second |-> second]
InvalidDate == DateOf(0, -1)
IsValidDate(date) == date.second >= 0

\* Seconds later, over the days.
Shift(date, seconds) ==
  LET total == date.second + seconds IN DateOf(date.day + total \div DaySeconds, total % DaySeconds)
AtOrBefore(x, y) == x.day < y.day \/ (x.day = y.day /\ x.second <= y.second)
Before(x, y) == AtOrBefore(x, y) /\ x # y

-----------------------------------------------------------------------------
(* The Date of the platform *)

\* The day number of a date of the Gregorian calendar, months 1 to 12.
DayNumber(year, month, day) ==
  LET DaysBefore(y) == 365 * y + y \div 4 - y \div 100 + y \div 400
      dayOfYear == (153 * ((month + 9) % 12) + 2) \div 5 + day - 1
  IN  DaysBefore(IF month <= 2 THEN year - 1 ELSE year) + dayOfYear - 719468

\* The year and the month (from 0) of a day.
CivilOf(number) ==
  LET z == number + 719468
      YearOfEra(inEra) == (inEra - inEra \div 1460 + inEra \div 36524 - inEra \div 146096) \div 365
      DayOfYear(inEra, year) == inEra - (365 * year + year \div 4 - year \div 100)
      FromMarch(dayOfYear) == (5 * dayOfYear + 2) \div 153
      Of(year, dayOfYear, fromMarch) ==
        [year |-> year + 400 * (z \div 146097) + (IF fromMarch >= 10 THEN 1 ELSE 0), month |-> (fromMarch + 2) % 12,
         day |-> dayOfYear - (153 * fromMarch + 2) \div 5 + 1]
      OfDay(year, dayOfYear) == Of(year, dayOfYear, FromMarch(dayOfYear))
      OfYear(inEra, year) == OfDay(year, DayOfYear(inEra, year))
      OfEra(inEra) == OfYear(inEra, YearOfEra(inEra))
  IN  OfEra(z % 146097)

Year(date) == CivilOf(date.day).year
Month(date) == CivilOf(date.day).month
DayOfMonth(date) == CivilOf(date.day).day
Hours(date) == date.second \div 3600
Minutes(date) == (date.second \div 60) % 60
Seconds(date) == date.second % 60
\* getDay(): 0 is Sunday; 1 January 1970 was a Thursday.
WeekDay(date) == (date.day + 4) % 7

\* new Date(...): a month or a day out of range carries over, a year from 0 to 99 is of the 20th century.
NewDate(year, month, day, hour, minute, second) ==
  LET full == IF year \in 0 .. 99 THEN 1900 + year ELSE year
      first == DayNumber(full + month \div 12, (month % 12) + 1, 1)
  IN  Shift(DateOf(first + day - 1, 0), 3600 * hour + 60 * minute + second)

-----------------------------------------------------------------------------
(* calendarDate.ts *)

Midnight(year, month, day) == NewDate(year, month, day, 0, 0, 0)
GetStartOfDay(date) == Midnight(Year(date), Month(date), DayOfMonth(date))
GetEndOfDay(date) == NewDate(Year(date), Month(date), DayOfMonth(date), 23, 59, 59)
GetStartOfMonth(date) == Midnight(Year(date), Month(date), 1)
GetStartOfYear(date) == Midnight(Year(date), 0, 1)
AddCalendarDays(date, amount) == Midnight(Year(date), Month(date), DayOfMonth(date) + amount)
AddCalendarMonths(date, amount) == Midnight(Year(date), Month(date) + amount, DayOfMonth(date))
AddCalendarYears(date, amount) == Midnight(Year(date) + amount, Month(date), DayOfMonth(date))
GetStartOfWeek(date, weekStartsOn) ==
  LET Back(start) == AddCalendarDays(start, - ((WeekDay(start) - (weekStartsOn % 7) + 7) % 7)) IN Back(GetStartOfDay(date))
IsSameCalendarDay(x, y) == IsValidDate(x) /\ IsValidDate(y) /\ x.day = y.day

-----------------------------------------------------------------------------
(* dateRange.ts: an absent date is the invalid one, no range is the pair of invalid ones. *)

NoRange == <<InvalidDate, InvalidDate>>
OrderDates(x, y) == IF AtOrBefore(x, y) THEN <<x, y>> ELSE <<y, x>>
ResolveDateRangePair(x, y) ==
  CASE IsValidDate(x) /\ IsValidDate(y) -> OrderDates(x, y)
    [] IsValidDate(x) /\ ~ IsValidDate(y) -> <<x, x>>
    [] ~ IsValidDate(x) /\ IsValidDate(y) -> <<y, y>>
    [] OTHER -> NoRange
NormalizeDateRange(x, y, timeMode) ==
  LET In(range) == IF range = NoRange \/ timeMode = "preserve" THEN range ELSE <<GetStartOfDay(range[1]), GetEndOfDay(range[2])>>
  IN  In(ResolveDateRangePair(x, y))
CountCalendarDaysInDateRange(x, y) ==
  LET Days(range) == range[2].day - range[1].day + 1 IN Days(NormalizeDateRange(x, y, "dayBounds"))

-----------------------------------------------------------------------------
(* relativeRanges.ts *)

ResolveMonthStartToYesterdayRange(reference) ==
  LET Between(start, yesterday) == <<start, GetEndOfDay(IF Before(yesterday, start) THEN start ELSE yesterday)>>
      Of(today) == Between(GetStartOfMonth(today), AddCalendarDays(today, -1))
  IN  Of(GetStartOfDay(reference))
ResolveMonthStartToTodayRange(reference) ==
  LET Of(today) == <<GetStartOfMonth(today), GetEndOfDay(today)>> IN Of(GetStartOfDay(reference))
ResolveTodayRange(reference) == LET Of(today) == <<today, GetEndOfDay(today)>> IN Of(GetStartOfDay(reference))
ResolveYesterdayRange(reference) ==
  LET Of(yesterday) == <<yesterday, GetEndOfDay(yesterday)>> IN Of(AddCalendarDays(GetStartOfDay(reference), -1))
ResolveMonthAgoRange(reference) ==
  LET Of(today) == <<GetStartOfDay(AddCalendarMonths(today, -1)), GetEndOfDay(today)>> IN Of(GetStartOfDay(reference))

-----------------------------------------------------------------------------
(* calendarPeriod.ts *)

WeekEndDayOffsets == [friday |-> 4, saturday |-> 5, sunday |-> 6]
GetCalendarPeriod(date, mode, weekEndDay) ==
  LET WeekFrom(monday) == <<monday, GetEndOfDay(AddCalendarDays(monday, WeekEndDayOffsets[weekEndDay]))>>
  IN  CASE ~ IsValidDate(date) -> NoRange
        [] IsValidDate(date) /\ mode = "day" -> <<GetStartOfDay(date), GetEndOfDay(date)>>
        [] IsValidDate(date) /\ mode = "week" -> WeekFrom(GetStartOfWeek(date, 1))
        [] IsValidDate(date) /\ mode = "month" ->
             <<GetStartOfMonth(date), GetEndOfDay(Midnight(Year(date), Month(date) + 1, 0))>>
        [] IsValidDate(date) /\ mode = "year" -> <<GetStartOfYear(date), GetEndOfDay(Midnight(Year(date), 11, 31))>>
IsDateInsideCalendarPeriod(date, period) ==
  /\ IsValidDate(date) /\ period # NoRange
  /\ AtOrBefore(period[1], GetStartOfDay(date)) /\ AtOrBefore(GetStartOfDay(date), period[2])
\* An absent bound is the invalid date.
IsCalendarPeriodWithinDateBounds(period, min, max) ==
  /\ period # NoRange
  /\ IsValidDate(min) => AtOrBefore(GetStartOfDay(min), period[1])
  /\ IsValidDate(max) => AtOrBefore(period[2], GetEndOfDay(max))

-----------------------------------------------------------------------------
(* educationDate.ts: the key of a day is its year, month (from 1) and day, NoKey what is not such a key. *)

NoKey == <<>>
ParseEducationDateKey(key) ==
  LET Same(date) == CivilOf(date.day) = [year |-> key[1], month |-> key[2] - 1, day |-> key[3]]
      Checked(date) == IF key # NoKey /\ Same(date) THEN date ELSE InvalidDate
  IN  Checked(Midnight(key[1], key[2] - 1, key[3]))
FormatEducationDateKey(date) == <<Year(date), Month(date) + 1, DayOfMonth(date)>>
FormatEducationTimeKey(date) == <<Hours(date), Minutes(date)>>
CreateEducationDateTime(key, time) ==
  LET On(date) == IF IsValidDate(date) /\ time[1] <= 23 /\ time[2] <= 59 /\ time[3] <= 59
                  THEN NewDate(Year(date), Month(date), DayOfMonth(date), time[1], time[2], time[3]) ELSE InvalidDate
  IN  On(ParseEducationDateKey(key))
GetEducationYear(date) == IF Month(date) < 8 THEN Year(date) - 1 ELSE Year(date)
GetEducationYearRange(date) ==
  LET From(year) == <<Midnight(year, 8, 1), Midnight(year + 1, 7, 31)>> IN From(GetEducationYear(date))
IsEducationDateInCurrentYear(date, now) ==
  LET Within(start, range) == AtOrBefore(range[1], start) /\ AtOrBefore(start, range[2])
  IN  Within(GetStartOfDay(date), GetEducationYearRange(now))
\* The Monday of the week; a Sunday belongs to the next one.
GetEducationWeekStartDate(date) ==
  LET fromMonday == (WeekDay(date) + 6) % 7
  IN  AddCalendarDays(GetStartOfDay(date), IF fromMonday = 6 THEN 1 ELSE - fromMonday)
GetEducationWeekRange(date) ==
  LET From(start) == <<start, AddCalendarDays(start, 5)>> IN From(GetEducationWeekStartDate(date))
GetCurrentEducationWeekKey(now) == FormatEducationDateKey(GetEducationWeekStartDate(now))
\* Of a key; the week of a key that is no date is the current one.
GetEducationWeekDays(key, now) ==
  LET Start(parsed) == IF IsValidDate(parsed) THEN parsed ELSE GetEducationWeekStartDate(now)
      DaysFrom(start) == [i \in 1 .. 6 |-> FormatEducationDateKey(AddCalendarDays(start, i - 1))]
  IN  DaysFrom(Start(ParseEducationDateKey(key)))
NormalizeEducationWeekKey(key, now) ==
  LET InYear(date) == IsEducationDateInCurrentYear(date, now)
      Of(parsed, start) == IF IsValidDate(parsed) /\ InYear(parsed) /\ InYear(start) THEN FormatEducationDateKey(start) ELSE NoKey
      At(parsed) == Of(parsed, GetEducationWeekStartDate(parsed))
  IN  At(ParseEducationDateKey(key))
ResolveEducationWeekKey(key, now) ==
  LET Chosen(week) == IF week # NoKey THEN week ELSE GetCurrentEducationWeekKey(now) IN Chosen(NormalizeEducationWeekKey(key, now))
IsCurrentEducationWeek(key, now) == ResolveEducationWeekKey(key, now) = GetCurrentEducationWeekKey(now)

-----------------------------------------------------------------------------
(* What the calendar promises *)

\* A period of a date contains it (a working week may end before a Sunday) and has the same period for each of its days.
PeriodIsOfItsDays(date, mode, weekEndDay) ==
  LET After(period) == period[2].day + (IF mode = "week" THEN 7 - WeekEndDayOffsets[weekEndDay] ELSE 1)
      Holds(period) ==
        /\ WeekDay(date) \in 1 .. 5 => IsDateInsideCalendarPeriod(date, period)
        /\ \A day \in {period[1].day, (period[1].day + period[2].day) \div 2, period[2].day} :
              GetCalendarPeriod(DateOf(day, 43200), mode, weekEndDay) = period
        /\ GetCalendarPeriod(DateOf(After(period), 0), mode, weekEndDay)[1].day = After(period)
  IN  Holds(GetCalendarPeriod(date, mode, weekEndDay))

\* Every relative range runs from the start of a day to the end of a later or the same one, at most a month, and none ends after today.
RangesAreOrdered(now) ==
  \A range \in {ResolveMonthStartToYesterdayRange(now), ResolveMonthStartToTodayRange(now), ResolveTodayRange(now),
                ResolveYesterdayRange(now), ResolveMonthAgoRange(now)} :
    /\ range[1].second = 0 /\ range[2].second = DaySeconds - 1
    /\ range[1].day <= range[2].day /\ range[2].day <= now.day
    /\ CountCalendarDaysInDateRange(range[2], range[1]) \in 1 .. 32

\* A chosen week is a Monday of the school year of now, or the current week; choosing it again changes nothing; its six days are six.
WeekIsChosen(key, now) ==
  LET From(week, start) == /\ IsValidDate(start) /\ WeekDay(start) = 1
                           /\ ResolveEducationWeekKey(week, now) = week
                           /\ IsEducationDateInCurrentYear(start, now) \/ week = GetCurrentEducationWeekKey(now)
                           /\ Cardinality(ToSet(GetEducationWeekDays(week, now))) = 6
      Holds(week) == From(week, ParseEducationDateKey(week))
  IN  Holds(ResolveEducationWeekKey(key, now))
=============================================================================
