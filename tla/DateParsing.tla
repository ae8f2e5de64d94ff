---------------------------- MODULE DateParsing ----------------------------
(***************************************************************************)
(* src/formatters/date/parseDate.ts: what is read as a date, from a        *)
(* service, a spreadsheet or the keyboard, in the floating mode (the       *)
(* visible components) and in the instant mode (the moment).               *)
(*                                                                         *)
(* Abstraction.  A text is a sequence of pieces: a pair of digits, or a    *)
(* literal; a month name is the literal "month" with its number, another   *)
(* word the literal "word".  A moment is a Date of UTC.  A large number is *)
(* given by the moment it counts to and its unit.  The zone of the browser *)
(* is Zone seconds ahead of UTC, all year.                                 *)
(***************************************************************************)
EXTENDS CalendarDates
CONSTANT Zone

Epoch == DateOf(0, 0)
FromInstant(instant) == Shift(instant, Zone)
InstantOf(date) == Shift(date, - Zone)

-----------------------------------------------------------------------------
(* Texts *)

Pair(n) == [lit |-> "", n |-> n]
Lit(s) == [lit |-> s, n |-> 0]
MonthName(n) == [lit |-> "month", n |-> n]
YearPairs(year) == <<Pair(year \div 100), Pair(year % 100)>>
Shape(pieces) == [i \in DOMAIN pieces |-> IF pieces[i].lit = "" THEN "#" ELSE pieces[i].lit]
IsDigits(pieces) == pieces # <<>> /\ \A i \in DOMAIN pieces : pieces[i].lit = ""
YearAt(pieces, i) == 100 * pieces[i].n + pieces[i + 1].n
NumberAt(pieces, i) == IF i \in DOMAIN pieces THEN pieces[i].n ELSE 0

\* Values
Nothing == [t |-> "none"]
DateValue(date) == [t |-> "date", date |-> date]
NumberValue(unit, instant) == [t |-> "number", unit |-> unit, instant |-> instant]
Plain(pieces) == [t |-> "text", shape |-> "plain", pieces |-> pieces]
BlankText == [t |-> "text", shape |-> "blank"]
\* a decimal integer that is not written in pairs of digits
IntegerText(unit, instant) == [t |-> "text", shape |-> "integer", unit |-> unit, instant |-> instant]
Ticks(instant, offset) == [t |-> "text", shape |-> "ticks", instant |-> instant, offset |-> offset]
NoOffset == 9999
\* datetime'...' and datetimeoffset'...'
Literal(inner) == [t |-> "text", shape |-> "literal", inner |-> inner]
DurationText(sign, years, months, days, seconds) ==
  [t |-> "text", shape |-> "duration", sign |-> sign, years |-> years, months |-> months, days |-> days, seconds |-> seconds]

\* Results
NoDate == [kind |-> "none"]
AsDateTimeValue(date, source) == [kind |-> "date-time", source |-> source, date |-> date]
AsDuration(seconds) == [kind |-> "duration", source |-> "iso-duration", seconds |-> seconds]

-----------------------------------------------------------------------------
(* Components *)

\* createCalendarDate: a component out of its range is refused, not carried over.
CalendarDate(year, month, day, hour, minute, second) ==
  LET Same(date) == /\ CivilOf(date.day) = [year |-> year, month |-> month - 1, day |-> day]
                    /\ Hours(date) = hour /\ Minutes(date) = minute /\ Seconds(date) = second
      Checked(date) == IF Same(date) THEN date ELSE InvalidDate
  IN  Checked(NewDate(year, month - 1, day, hour, minute, second))
ResultOf(date, source) == IF IsValidDate(date) THEN AsDateTimeValue(date, source) ELSE NoDate

\* The first result that is a date.
FirstOf(results) ==
  LET found == {i \in DOMAIN results : results[i] # NoDate}
  IN  IF found = {} THEN NoDate ELSE results[CHOOSE i \in found : \A j \in found : i <= j]

CloneCalendarDate(date) == date
\* The visible components of a moment in UTC.
CloneUtcCalendarDate(instant) == instant

-----------------------------------------------------------------------------
(* Forms of a value *)

\* 1e12 milliseconds after the epoch; a smaller count is read as seconds.
Threshold == DateOf(11574, 6400)
ReadsAsMilliseconds(instant) ==
  AtOrBefore(Threshold, instant) \/ AtOrBefore(instant, Shift(DateOf(- Threshold.day, 0), - Threshold.second))
ParseTimestamp(unit, instant, mode) ==
  LET thousandfold == Shift(DateOf(instant.day * 1000, 0), instant.second * 1000)
      read == IF unit = "seconds" \/ ReadsAsMilliseconds(instant) THEN instant ELSE thousandfold
  IN  AsDateTimeValue(IF mode = "instant" THEN FromInstant(read) ELSE CloneUtcCalendarDate(read), "timestamp")

WrongParseODataTicks(text, mode) ==
  IF text.shape # "ticks" THEN NoDate
  ELSE AsDateTimeValue(
         CASE text.offset = NoOffset -> IF mode = "instant" THEN FromInstant(text.instant) ELSE CloneUtcCalendarDate(text.instant)
           [] OTHER -> CloneUtcCalendarDate(Shift(text.instant, 60 * text.offset)),
         "odata-ticks")
ParseODataTicks(text, mode) ==
  IF text.shape # "ticks" THEN NoDate
  ELSE AsDateTimeValue(
         CASE mode = "instant" -> FromInstant(text.instant)
           [] mode # "instant" /\ text.offset = NoOffset -> CloneUtcCalendarDate(text.instant)
           [] OTHER -> CloneUtcCalendarDate(Shift(text.instant, 60 * text.offset)),
         "odata-ticks")

IsoDate == <<"#", "#", "-", "#", "-", "#">>
IsoSeparators == {"T", " "}
IsoMinutes == {<<>>, <<":", "#">>, <<":", "#", ":", "#">>}
IsoTime(separator, minutes) == IsoDate \o <<separator, "#">> \o minutes
IsoShapes == {IsoDate} \cup {IsoTime(separator, minutes) : separator \in IsoSeparators, minutes \in IsoMinutes}
ParseIsoLocal(pieces) ==
  IF Shape(pieces) \notin IsoShapes THEN NoDate
  ELSE ResultOf(CalendarDate(YearAt(pieces, 1), pieces[4].n, pieces[6].n,
                             NumberAt(pieces, 8), NumberAt(pieces, 10), NumberAt(pieces, 12)), "iso-local")

\* Z, +hh:mm and +hhmm: the number of pieces they take at the end of a text, 0 without one.
ZoneLength(pieces) ==
  LET s == Shape(pieces)
      EndsWith(suffix) == Len(s) >= Len(suffix) /\ SubSeq(s, Len(s) - Len(suffix) + 1, Len(s)) = suffix
  IN  CASE EndsWith(<<"Z">>) -> 1
        [] EndsWith(<<"+", "#", ":", "#">>) \/ EndsWith(<<"-", "#", ":", "#">>) -> 4
        [] EndsWith(<<"+", "#", "#">>) \/ EndsWith(<<"-", "#", "#">>) -> 3
        [] OTHER -> 0
\* In seconds; NoOffset when its hours or minutes are out of range.
ResolveIsoTimezoneOffset(zone) ==
  LET hours == zone[2].n
      minutes == zone[Len(zone)].n
  IN  CASE zone[1].lit = "Z" -> 0
        [] zone[1].lit # "Z" /\ (hours > 23 \/ minutes > 59) -> NoOffset
        [] OTHER -> (IF zone[1].lit = "-" THEN -1 ELSE 1) * (3600 * hours + 60 * minutes)
ParseIsoZoned(pieces, mode) ==
  LET At(local, offset) ==
        CASE local = NoDate -> NoDate
          [] local # NoDate /\ mode = "floating" -> AsDateTimeValue(local.date, "iso-zoned")
          [] OTHER -> IF offset = NoOffset THEN NoDate ELSE AsDateTimeValue(FromInstant(Shift(local.date, - offset)), "iso-zoned")
      Split(length) ==
        IF length = 0 THEN NoDate
        ELSE At(ParseIsoLocal(SubSeq(pieces, 1, Len(pieces) - length)),
                ResolveIsoTimezoneOffset(SubSeq(pieces, Len(pieces) - length + 1, Len(pieces))))
  IN  Split(ZoneLength(pieces))

ParseAbapCompact(pieces) ==
  IF ~ IsDigits(pieces) \/ Len(pieces) # 4 THEN NoDate
  ELSE ResultOf(CalendarDate(YearAt(pieces, 1), pieces[3].n, pieces[4].n, 0, 0, 0), "abap-compact")
ParseAbapTimestamp(pieces) ==
  IF ~ IsDigits(pieces) \/ Len(pieces) < 7 THEN NoDate
  ELSE ResultOf(CalendarDate(YearAt(pieces, 1), pieces[3].n, pieces[4].n, pieces[5].n, pieces[6].n, pieces[7].n), "abap-timestamp")
ParseAbapDotted(pieces) ==
  IF Shape(pieces) # <<"#", ".", "#", ".", "#", "#">> THEN NoDate
  ELSE ResultOf(CalendarDate(YearAt(pieces, 5), pieces[3].n, pieces[1].n, 0, 0, 0), "abap-dotted")
ParseSlashDate(pieces) ==
  IF Shape(pieces) # <<"#", "/", "#", "/", "#", "#">> THEN NoDate
  ELSE ResultOf(CalendarDate(YearAt(pieces, 5), pieces[1].n, pieces[3].n, 0, 0, 0), "slash-date")

\* Number(text) of up to eight digits counts seconds, of fourteen (of a year after 999) milliseconds.
NumberOf(pieces) ==
  LET n == FoldLeft(LAMBDA acc, p : 100 * acc + p.n, 0, pieces)
      rest == 100 * pieces[3].n + pieces[4].n
      time == 10000 * pieces[5].n + 100 * pieces[6].n + pieces[7].n
  IN  IF Len(pieces) <= 4 THEN Shift(Epoch, n)
      ELSE Shift(Shift(DateOf(115 * YearAt(pieces, 1), 0), 64000 * YearAt(pieces, 1)), 1000 * rest + time \div 1000)

ParseDateString(pieces, mode) ==
  FirstOf(<<ParseIsoZoned(pieces, mode), ParseIsoLocal(pieces), ParseAbapDotted(pieces), ParseSlashDate(pieces),
            ParseAbapTimestamp(pieces), ParseAbapCompact(pieces),
            IF IsDigits(pieces) THEN ParseTimestamp("seconds", NumberOf(pieces), mode) ELSE NoDate>>)

WithSourceOverride(result, source) == IF result = NoDate THEN NoDate ELSE [result EXCEPT !.source = source]
ParseODataLiteral(text, mode) ==
  IF text.shape # "literal" THEN NoDate ELSE WithSourceOverride(ParseDateString(text.inner, mode), "odata-literal")

\* A year of 365 and a month of 30 days.
ParseIsoDuration(text) ==
  IF text.shape # "duration" THEN NoDate
  ELSE LET seconds == DaySeconds * (365 * text.years + 30 * text.months + text.days) + text.seconds
       IN  IF seconds = 0 THEN NoDate ELSE AsDuration(text.sign * seconds)

-----------------------------------------------------------------------------
(* Entry points *)

ParseDateValueInternal(x, mode) ==
  CASE x.t = "date" -> IF IsValidDate(x.date) THEN AsDateTimeValue(CloneCalendarDate(x.date), "date-object") ELSE NoDate
    [] x.t = "number" -> ParseTimestamp(x.unit, x.instant, mode)
    [] x.t = "text" ->
         FirstOf(<<ParseODataTicks(x, mode), ParseODataLiteral(x, mode), ParseIsoDuration(x),
                   CASE x.shape = "plain" -> ParseDateString(x.pieces, mode)
                     [] x.shape = "integer" -> ParseTimestamp(x.unit, x.instant, mode)
                     [] OTHER -> NoDate>>)
    [] OTHER -> NoDate
ParseDateValue(x) == ParseDateValueInternal(x, "floating")
ParseDateValueTZ(x) == ParseDateValueInternal(x, "instant")

CoerceParsedDateToDate(result) ==
  CASE result.kind = "none" -> InvalidDate
    [] result.kind = "date-time" -> result.date
    [] OTHER -> CloneUtcCalendarDate(Shift(Epoch, result.seconds))
ParseDate(x) == CoerceParsedDateToDate(ParseDateValue(x))
ParseDateTZ(x) == CoerceParsedDateToDate(ParseDateValueTZ(x))

-----------------------------------------------------------------------------
(* Texts of a locale *)

MayBe(s) == {<<>>, s}
YearMarks == MayBe(<<" ", "g.">>)
Clock == <<"#", ":", "#">>
Times == {<<>>} \cup {<<separator>> \o Clock \o seconds : separator \in {", ", " "}, seconds \in MayBe(<<":", "#">>)}
\* The index of the month names of the locale, nominative, genitive and short: 0 for a word it does not hold.
LocalizedMonthIndex(piece) == IF piece.lit = "month" THEN piece.n ELSE 0
WordShape(pieces) == [i \in DOMAIN pieces |-> IF pieces[i].lit = "month" THEN "word" ELSE Shape(pieces)[i]]
\* The hours, minutes and seconds after the separator at a place.
TimeFrom(pieces, i) == <<NumberAt(pieces, i + 1), NumberAt(pieces, i + 3), NumberAt(pieces, i + 5)>>

ParseLocalizedDayString(pieces) ==
  LET start == IF Len(pieces) >= 8 /\ pieces[8].lit = "g." THEN 9 ELSE 7
      time == TimeFrom(pieces, start)
  IN  IF WordShape(pieces) \notin {<<"#", " ", "word", " ", "#", "#">> \o mark \o t : mark \in YearMarks, t \in Times} THEN NoDate
      ELSE ResultOf(CalendarDate(YearAt(pieces, 5), LocalizedMonthIndex(pieces[3]), pieces[1].n, time[1], time[2], time[3]), "iso-local")
ParseLocalizedDayMonthString(pieces, year) ==
  CASE Shape(pieces) = <<"#", ".", "#">> -> ResultOf(CalendarDate(year, pieces[3].n, pieces[1].n, 0, 0, 0), "iso-local")
    [] WordShape(pieces) = <<"#", " ", "word">> -> ResultOf(CalendarDate(year, LocalizedMonthIndex(pieces[3]), pieces[1].n, 0, 0, 0), "iso-local")
    [] OTHER -> NoDate
ParseLocalizedMonthString(pieces) ==
  IF WordShape(pieces) \notin {<<"word", " ", "#", "#">> \o mark : mark \in YearMarks} THEN NoDate
  ELSE ResultOf(CalendarDate(YearAt(pieces, 3), LocalizedMonthIndex(pieces[1]), 1, 0, 0, 0), "iso-local")
ParseLocalizedYearString(pieces) ==
  IF Shape(pieces) \notin {<<"#", "#">> \o mark : mark \in YearMarks} THEN NoDate
  ELSE ResultOf(CalendarDate(YearAt(pieces, 1), 1, 1, 0, 0, 0), "iso-local")
ParseLocalizedDateString(pieces, precision) ==
  CASE precision = "year" -> ParseLocalizedYearString(pieces)
    [] precision = "month" -> ParseLocalizedMonthString(pieces)
    [] OTHER -> ParseLocalizedDayString(pieces)
ResolveReferenceYear(reference, now) == Year(IF IsValidDate(reference) THEN reference ELSE now)

-----------------------------------------------------------------------------
(* What parsing promises *)

\* The instant mode does not depend on how the moment was written, and the floating one shows what was written.
SameMoment(instant, offset) ==
  LET local == Shift(instant, 60 * offset)
      Two(n) == <<Pair(n)>>
      sign == IF offset < 0 THEN "-" ELSE "+"
      size == IF offset < 0 THEN - offset ELSE offset
      iso == YearPairs(Year(local)) \o <<Lit("-")>> \o Two(Month(local) + 1) \o <<Lit("-")>> \o Two(DayOfMonth(local)) \o <<Lit("T")>>
                \o Two(Hours(local)) \o <<Lit(":")>> \o Two(Minutes(local)) \o <<Lit(":")>> \o Two(Seconds(local))
      zoned == iso \o <<Lit(sign), Pair(size \div 60), Lit(":"), Pair(size % 60)>>
      texts == {Plain(zoned), Ticks(instant, offset), Literal(zoned)}
      Agree(Floating(_), Instant(_)) ==
        /\ \A x \in texts \cup {NumberValue("seconds", instant)} : InstantOf(Instant(x)) = instant
        /\ \A x \in texts \cup {Plain(iso)} : Floating(x) = local
        /\ Floating(NumberValue("seconds", instant)) = instant
        /\ Floating(DateValue(local)) = local /\ Instant(DateValue(local)) = local
        /\ ReadsAsMilliseconds(instant) => Instant(NumberValue("milliseconds", instant)) = FromInstant(instant)
  IN  Agree(ParseDate, ParseDateTZ)

\* A written date is read as that date, or refused when there is no such day (or the year has no hundreds): never as another one.
NoOtherDay(year, month, day, hour) ==
  LET exists == year >= 100 /\ month \in 1 .. 12 /\ hour <= 23 /\ day >= 1 /\ day <= DayOfMonth(NewDate(year, month, 0, 0, 0, 0))
      yy == YearPairs(year)
      dotted == <<Pair(day), Lit("."), Pair(month), Lit(".")>> \o yy
      slash == <<Pair(month), Lit("/"), Pair(day), Lit("/")>> \o yy
      iso == yy \o <<Lit("-"), Pair(month), Lit("-"), Pair(day), Lit("T"), Pair(hour), Lit(":"), Pair(59)>>
      compact == yy \o <<Pair(month), Pair(day)>>
  IN  \A pieces \in {iso} \cup (IF hour = 0 THEN {dotted, slash} \cup (IF exists THEN {compact} ELSE {}) ELSE {}) :
        ParseDate(Plain(pieces)) = IF exists THEN NewDate(year, month - 1, day, hour, IF pieces = iso THEN 59 ELSE 0, 0) ELSE InvalidDate
=============================================================================
