---------------------------- MODULE DateFormats ----------------------------
(***************************************************************************)
(* src/formatters/date/: pattern.ts, presets.ts, formatDate.ts and the     *)
(* reading of parseDate.ts by a pattern or a preset, its inverse; and the  *)
(* segments of src/date-segments/, which show and read a date by a mask.   *)
(*                                                                         *)
(* Abstraction.  A pattern is a sequence of tokens and literals.  A text   *)
(* is the sequence of pieces of DateParsing; Intl writes it as the ru-RU   *)
(* locale does.  Years have four digits.                                   *)
(***************************************************************************)
EXTENDS DateParsing

-----------------------------------------------------------------------------
(* Patterns *)

DateTokens == {"dd", "MM", "yyyy", "yy"}
TimeTokens == {"HH", "mm", "ss"}
Tokens == DateTokens \cup TimeTokens
HasDatePatternTokens(pattern) == \E i \in DOMAIN pattern : pattern[i] \in Tokens
ContainsDatePatternToken(pattern, tokens) == \E i \in DOMAIN pattern : pattern[i] \in tokens
PrecisionTokens(precision) ==
  CASE precision = "day" -> Tokens [] precision = "month" -> {"MM", "yyyy", "yy"} [] OTHER -> {"yyyy", "yy"}

\* The literals before the first kept token, after the last one and around those that are dropped go.
ResolveDatePatternPrecision(pattern, precision) ==
  LET kept == {i \in DOMAIN pattern : pattern[i] \in PrecisionTokens(precision)}
      Literals(i) == pattern[i] \notin Tokens /\ \E j, k \in kept : j < i /\ i < k
      wanted == {i \in DOMAIN pattern : i \in kept \/ Literals(i)}
  IN  IF precision = "day" \/ kept = {} THEN pattern
      ELSE LET places == SetToSortSeq(wanted, <) IN [i \in DOMAIN places |-> pattern[places[i]]]

PatternTokenValue(token, date) ==
  CASE token = "yyyy" -> YearPairs(Year(date))
    [] token = "yy" -> <<Pair(Year(date) % 100)>>
    [] token = "MM" -> <<Pair(Month(date) + 1)>>
    [] token = "dd" -> <<Pair(DayOfMonth(date))>>
    [] token = "HH" -> <<Pair(Hours(date))>>
    [] token = "mm" -> <<Pair(Minutes(date))>>
    [] token = "ss" -> <<Pair(Seconds(date))>>
    [] OTHER -> <<Lit(token)>>
FormatByPattern(pattern, date, precision) ==
  LET segments == ResolveDatePatternPrecision(pattern, precision)
  IN  FlattenSeq([i \in DOMAIN segments |-> PatternTokenValue(segments[i], date)])

FormatDurationByPattern(seconds, pattern) ==
  LET size == IF seconds < 0 THEN - seconds ELSE seconds
      Of(s) == CASE s = "HH" -> Pair(size \div 3600) [] s = "mm" -> Pair((size \div 60) % 60) [] s = "ss" -> Pair(size % 60) [] OTHER -> Lit(s)
  IN  IF ContainsDatePatternToken(pattern, DateTokens) \/ ~ ContainsDatePatternToken(pattern, TimeTokens) THEN <<>>
      ELSE (IF seconds < 0 THEN <<Lit("-")>> ELSE <<>>) \o [i \in DOMAIN pattern |-> Of(pattern[i])]

-----------------------------------------------------------------------------
(* Presets *)

\* Intl options: "" for a field that is absent; time is "minutes" or "seconds".
Intl(day, month, year, time) == [day |-> day, month |-> month, year |-> year, time |-> time, dateStyle |-> "", timeStyle |-> ""]
NoIntl == Intl("", "", "", "")
DateStyleIntlOptions(style, precision) ==
  CASE precision = "year" -> Intl("", "", "numeric", "")
    [] precision = "month" -> Intl("", CASE style = "short" -> "2-digit" [] style = "medium" -> "short" [] OTHER -> "long", "numeric", "")
    [] OTHER -> CASE style = "short" -> Intl("2-digit", "2-digit", "numeric", "")
                  [] style = "medium" -> Intl("numeric", "short", "numeric", "")
                  [] OTHER -> Intl("numeric", "long", "numeric", "")
MonthStyleIntlOptions(style) ==
  CASE style = "short" -> Intl("2-digit", "2-digit", "", "")
    [] style = "medium" -> Intl("numeric", "short", "", "")
    [] OTHER -> Intl("numeric", "long", "", "")
TimeStyleIntlOptions(style) == Intl("", "", "", IF style = "short" THEN "minutes" ELSE "seconds")

TimeMinutes == <<"HH", ":", "mm">>
TimeSeconds == <<"HH", ":", "mm", ":", "ss">>
NumericDate == Intl("2-digit", "2-digit", "numeric", "")
\* What a configuration leaves out is taken from DATE_FORMAT_DEFAULTS.
Preset == [pattern |-> <<>>, options |-> NumericDate, dateOptions |-> NoIntl, timeOptions |-> NoIntl, joiner |-> " ", duration |-> <<>>]
PatternPreset(pattern) == [Preset EXCEPT !.pattern = pattern]
IntlPreset(options) == [Preset EXCEPT !.options = options]
JoinedPreset(date, time, joiner) == [Preset EXCEPT !.dateOptions = date, !.timeOptions = time, !.joiner = joiner]
TimePreset(time) == [IntlPreset(time) EXCEPT !.duration = IF time.time = "minutes" THEN TimeMinutes ELSE TimeSeconds]
StyledDateTime(style) == JoinedPreset(DateStyleIntlOptions(style, "day"), TimeStyleIntlOptions(style), ", ")
BuiltinPresets ==
  [date |-> IntlPreset(NumericDate),
   datetime |-> JoinedPreset(NumericDate, TimeStyleIntlOptions("short"), " "),
   datetimeSeconds |-> JoinedPreset(NumericDate, TimeStyleIntlOptions("medium"), " "),
   time |-> TimePreset(TimeStyleIntlOptions("short")), timeSeconds |-> TimePreset(TimeStyleIntlOptions("medium")),
   dateShort |-> IntlPreset(DateStyleIntlOptions("short", "day")),
   dateMedium |-> IntlPreset(DateStyleIntlOptions("medium", "day")), dateLong |-> IntlPreset(DateStyleIntlOptions("long", "day")),
   monthShort |-> IntlPreset(MonthStyleIntlOptions("short")),
   monthMedium |-> IntlPreset(MonthStyleIntlOptions("medium")), monthLong |-> IntlPreset(MonthStyleIntlOptions("long")),
   monthYearMedium |-> IntlPreset(Intl("", "short", "numeric", "")), monthYearLong |-> IntlPreset(Intl("", "long", "numeric", "")),
   timeShort |-> TimePreset(TimeStyleIntlOptions("short")),
   timeMedium |-> TimePreset(TimeStyleIntlOptions("medium")), timeLong |-> TimePreset(TimeStyleIntlOptions("long")),
   datetimeShort |-> StyledDateTime("short"), datetimeMedium |-> StyledDateTime("medium"), datetimeLong |-> StyledDateTime("long"),
   odataDate |-> PatternPreset(<<"yyyy", "-", "MM", "-", "dd">>),
   odataDatetime |-> PatternPreset(<<"yyyy", "-", "MM", "-", "dd", "T", "HH", ":", "mm", ":", "ss">>),
   abapDatetime |-> PatternPreset(<<"yyyy", "MM", "dd", "HH", "mm", "ss">>), abapDate |-> PatternPreset(<<"yyyy", "MM", "dd">>),
   abapMonth |-> PatternPreset(<<"yyyy", "MM">>), abapYear |-> PatternPreset(<<"yyyy">>)]
DefaultDatePresetNames == DOMAIN BuiltinPresets
MonthYearPresets == {"monthYearMedium", "monthYearLong"}

\* The texts of Intl.DateTimeFormat in the ru-RU locale.
IntlDate(options, date) ==
  LET day == IF options.day = "" THEN <<>> ELSE <<Pair(DayOfMonth(date))>>
      year == IF options.year = "" THEN <<>> ELSE YearPairs(Year(date))
      named == options.month \in {"short", "long"}
      month == IF options.month = "" THEN <<>> ELSE <<IF named THEN MonthName(Month(date) + 1) ELSE Pair(Month(date) + 1)>>
      parts == SelectSeq(<<day, month, year>>, LAMBDA p : p # <<>>)
      Join(acc, p) == IF acc = <<>> THEN p ELSE acc \o <<Lit(IF named THEN " " ELSE ".")>> \o p
  IN  FoldLeft(Join, <<>>, parts) \o (IF named /\ year # <<>> THEN <<Lit(" "), Lit("g.")>> ELSE <<>>)
IntlTime(options, date) ==
  CASE options.time = "minutes" -> <<Pair(Hours(date)), Lit(":"), Pair(Minutes(date))>>
    [] options.time = "seconds" -> <<Pair(Hours(date)), Lit(":"), Pair(Minutes(date)), Lit(":"), Pair(Seconds(date))>>
    [] OTHER -> <<>>
IntlFormat(options, date) ==
  LET day == IntlDate(IF options.dateStyle = "" THEN options ELSE DateStyleIntlOptions(options.dateStyle, "day"), date)
      time == IntlTime(options, date)
  IN  day \o (IF day # <<>> /\ time # <<>> THEN <<Lit(", ")>> ELSE <<>>) \o time

HasIntlDateFields(options) == options.dateStyle # "" \/ options.year # "" \/ options.month # "" \/ options.day # ""
ResolveIntlDatePrecisionOptions(options, precision) ==
  LET year == IF options.year = "" THEN "numeric" ELSE options.year
      month == IF options.month = "" THEN "2-digit" ELSE options.month
  IN  CASE precision = "day" \/ ~ HasIntlDateFields(options) -> options
        [] precision # "day" /\ options.dateStyle # "" -> DateStyleIntlOptions(options.dateStyle, precision)
        [] precision = "year" /\ HasIntlDateFields(options) /\ options.dateStyle = "" -> Intl("", "", year, "")
        [] OTHER -> Intl("", month, year, "")
FormatByIntl(options, date, precision) ==
  LET time == TimeStyleIntlOptions(options.timeStyle)
      dateOnly == [NoIntl EXCEPT !.dateStyle = options.dateStyle]
      parts == CASE options.timeStyle = "" -> <<ResolveIntlDatePrecisionOptions(options, precision)>>
                 [] options.timeStyle # "" /\ options.dateStyle = "" -> <<time>>
                 [] options.timeStyle # "" /\ options.dateStyle # "" /\ precision = "day" -> <<dateOnly, time>>
                 [] OTHER -> <<ResolveIntlDatePrecisionOptions(dateOnly, precision)>>
      Write(acc, part) == acc \o (IF acc = <<>> THEN <<>> ELSE <<Lit(", ")>>) \o IntlFormat(part, date)
  IN  FoldLeft(Write, <<>>, parts)

\* Without the mark of the year that Intl adds.
FormatMonthYear(date, precision) ==
  IF precision = "year" THEN YearPairs(Year(date)) ELSE <<MonthName(Month(date) + 1), Lit(" ")>> \o YearPairs(Year(date))
FormatByPreset(preset, date, precision) ==
  CASE preset.pattern # <<>> -> FormatByPattern(preset.pattern, date, precision)
    [] preset.pattern = <<>> /\ preset.dateOptions # NoIntl /\ preset.timeOptions # NoIntl ->
         FormatByIntl(preset.dateOptions, date, precision)
           \o (IF precision = "day" THEN <<Lit(preset.joiner)>> \o FormatByIntl(preset.timeOptions, date, "day") ELSE <<>>)
    [] OTHER -> FormatByIntl(preset.options, date, precision)
FormatByName(name, date, precision) ==
  IF name \in MonthYearPresets THEN FormatMonthYear(date, precision) ELSE FormatByPreset(BuiltinPresets[name], date, precision)

DateFormatStyles == [short |-> "dateShort", medium |-> "dateMedium", long |-> "dateLong"]
ResolveDateFormatName(format, default) ==
  CASE format = "" -> default [] format \in DOMAIN DateFormatStyles -> DateFormatStyles[format] [] OTHER -> format

-----------------------------------------------------------------------------
(* formatDate.ts: no pieces is the fallback. *)

FormatParsedValue(parsed, name, precision) ==
  LET preset == BuiltinPresets[name]
      duration == IF preset.duration # <<>> THEN preset.duration ELSE preset.pattern
  IN  IF parsed.kind = "duration" THEN FormatDurationByPattern(parsed.seconds, duration) ELSE FormatByName(name, parsed.date, precision)
FormatDate(x, name, precision) ==
  LET Of(parsed) == IF parsed = NoDate THEN <<>> ELSE FormatParsedValue(parsed, name, precision) IN Of(ParseDateValue(x))
\* formatDateAsDate and its like: one function for each name.
FormatDateAs(name, x, precision) == IF name \in DefaultDatePresetNames THEN FormatDate(x, name, precision) ELSE <<>>
FormatDateRange(x, y, name, precision) ==
  LET Between(start, end) == IF start = <<>> \/ end = <<>> THEN <<>> ELSE start \o <<Lit(" - ")>> \o end
  IN  Between(FormatDate(x, name, precision), FormatDate(y, name, precision))
\* PT00H00M00S, as a duration text; of an hour count of any size.
FormatDateAsODataTime(x) ==
  LET Lasting(seconds) == DurationText(IF seconds < 0 THEN -1 ELSE 1, 0, 0, 0, IF seconds < 0 THEN - seconds ELSE seconds)
      Of(parsed) == IF parsed = NoDate THEN BlankText
                    ELSE Lasting(IF parsed.kind = "duration" THEN parsed.seconds ELSE parsed.date.second)
  IN  Of(ParseDateValue(x))

-----------------------------------------------------------------------------
(* parseDate.ts, by a pattern *)

ResolveTwoDigitYear(year) == IF year < 70 THEN 2000 + year ELSE 1900 + year
Width(segment) == IF segment = "yyyy" THEN 2 ELSE 1
PlaceOf(segments, i) == 1 + FoldLeft(LAMBDA acc, s : acc + Width(s), 0, SubSeq(segments, 1, i - 1))
Expected(segment) == CASE segment = "yyyy" -> <<"#", "#">> [] segment \in Tokens \ {"yyyy"} -> <<"#">> [] OTHER -> <<segment>>
Matches(segments, pieces) == Shape(pieces) = FlattenSeq([i \in DOMAIN segments |-> Expected(segments[i])])
\* The value a token captures, the default without the token; the last of its places counts.
Captured(segments, pieces, token, default) ==
  LET places == {i \in DOMAIN segments : segments[i] = token}
      last == PlaceOf(segments, CHOOSE i \in places : \A j \in places : j <= i)
  IN  IF places = {} THEN default ELSE IF token = "yyyy" THEN YearAt(pieces, last) ELSE pieces[last].n

ParseDateByPattern(pieces, pattern, precision) ==
  LET segments == ResolveDatePatternPrecision(pattern, precision)
      Of(token, default) == Captured(segments, pieces, token, default)
      year == Of("yyyy", IF ContainsDatePatternToken(segments, {"yy"}) THEN ResolveTwoDigitYear(Of("yy", 0)) ELSE 0)
      month == Of("MM", 0)
      day == Of("dd", 0)
      complete == year # 0 /\ (precision # "year" => month # 0) /\ (precision = "day" => day # 0)
      FirstIfAbsent(token, n) == IF ContainsDatePatternToken(segments, {token}) THEN n ELSE 1
  IN  IF ~ HasDatePatternTokens(segments) \/ ~ Matches(segments, pieces) \/ ~ complete THEN NoDate
      ELSE ResultOf(CalendarDate(year, FirstIfAbsent("MM", month), FirstIfAbsent("dd", day), Of("HH", 0), Of("mm", 0), Of("ss", 0)),
                    "iso-local")

DottedDate == <<"dd", ".", "MM", ".", "yyyy">>
ParsePatterns ==
  [date |-> DottedDate, dateShort |-> DottedDate, datetime |-> DottedDate \o <<" ">> \o TimeMinutes,
   datetimeSeconds |-> DottedDate \o <<" ">> \o TimeSeconds, datetimeShort |-> DottedDate \o <<", ">> \o TimeMinutes]
\* Of the name of a preset; a pattern of one's own is given to ParseDateByPattern.
DateFormatParsePattern(name, precision) ==
  LET pattern == CASE BuiltinPresets[name].pattern # <<>> -> BuiltinPresets[name].pattern
                   [] BuiltinPresets[name].pattern = <<>> /\ name \in DOMAIN ParsePatterns -> ParsePatterns[name]
                   [] OTHER -> <<>>
  IN  ResolveDatePatternPrecision(pattern, precision)

IsDayMonthPresetName(name) == name \in {"monthShort", "monthMedium", "monthLong"}
IsMonthYearPresetName(name) == name \in MonthYearPresets
ParseDateByFormat(pieces, format, precision, reference, now) ==
  LET name == ResolveDateFormatName(format, "date")
      ByValue(read) == IF precision = "day" /\ read.kind = "date-time" THEN read ELSE NoDate
      dayMonth == ParseLocalizedDayMonthString(pieces, ResolveReferenceYear(reference, now))
  IN  FirstOf(<<ParseDateByPattern(pieces, DateFormatParsePattern(name, precision), precision),
                ByValue(ParseDateValue(Plain(pieces))),
                IF precision = "day" /\ IsDayMonthPresetName(name) THEN dayMonth ELSE NoDate,
                IF precision # "year" /\ IsMonthYearPresetName(name) THEN ParseLocalizedMonthString(pieces)
                ELSE ParseLocalizedDateString(pieces, precision)>>)

-----------------------------------------------------------------------------
(* date-segments/mask.ts: a field of segments for the keyboard.  A mask is *)
(* a sequence of tokens and literals; a value is the number of the digits  *)
(* typed and the number they make.                                         *)

Editable(id, length, min, max) == [kind |-> "editable", id |-> id, length |-> length, min |-> min, max |-> max]
LiteralSegment(text) == [kind |-> "literal", text |-> text]
TokenMap ==
  [YYYY |-> Editable("year", 4, 1, 9999), yyyy |-> Editable("year", 4, 1, 9999), yy |-> Editable("year", 2, 0, 99),
   MM |-> Editable("month", 2, 1, 12), DD |-> Editable("day", 2, 1, 31), dd |-> Editable("day", 2, 1, 31),
   hh |-> Editable("hours", 2, 0, 23), HH |-> Editable("hours", 2, 0, 23), mm |-> Editable("minutes", 2, 0, 59), ss |-> Editable("seconds", 2, 0, 59)]
ParseDateSegmentMask(mask) == [i \in DOMAIN mask |-> IF mask[i] \in DOMAIN TokenMap THEN TokenMap[mask[i]] ELSE LiteralSegment(mask[i])]
EditableSegments(segments) == {i \in DOMAIN segments : segments[i].kind = "editable"}

Digits(length, n) == [digits |-> length, n |-> n]
ComponentOf(date, id) ==
  CASE id = "year" -> Year(date) [] id = "month" -> Month(date) + 1 [] id = "day" -> DayOfMonth(date)
    [] id = "hours" -> Hours(date) [] id = "minutes" -> Minutes(date) [] OTHER -> Seconds(date)
ResolveSegmentValue(date, segment) ==
  LET n == ComponentOf(date, segment.id)
  IN  Digits(segment.length, IF segment.id = "year" /\ segment.length = 2 THEN n % 100 ELSE n)
DateToIndexedSegmentValues(date, segments) ==
  [i \in EditableSegments(segments) |-> IF IsValidDate(date) THEN ResolveSegmentValue(date, segments[i]) ELSE Digits(0, 0)]
AreAllDateSegmentsEmpty(segments, values) == \A i \in EditableSegments(segments) : values[i].digits = 0

\* The first of the segments of an id counts; what has none is of the default.
ResolveSegmentNumber(segments, values, id, default) ==
  LET places == {i \in EditableSegments(segments) : segments[i].id = id}
      first == CHOOSE i \in places : \A j \in places : i <= j
  IN  CASE places = {} -> ComponentOf(default, id)
        [] places # {} /\ id = "year" /\ segments[first].length = 2 -> ResolveTwoDigitYear(values[first].n)
        [] OTHER -> values[first].n
IndexedSegmentsToDate(segments, values, default) ==
  LET complete == \A i \in EditableSegments(segments) : values[i].digits >= segments[i].length
      Of(id) == ResolveSegmentNumber(segments, values, id, default)
  IN  IF complete THEN CalendarDate(Of("year"), Of("month"), Of("day"), Of("hours"), Of("minutes"), Of("seconds")) ELSE InvalidDate

-----------------------------------------------------------------------------
(* What the formats promise *)

\* The components a text of a precision shows.
Shown(date, precision, seconds) ==
  CASE precision = "year" -> Midnight(Year(date), 0, 1)
    [] precision = "month" -> GetStartOfMonth(date)
    [] OTHER -> IF seconds = 0 THEN GetStartOfDay(date) ELSE DateOf(date.day, date.second - (date.second % seconds))
\* The finest time a preset shows, in seconds; 0 for none.
TimeShown(name) ==
  CASE name \in {"datetime", "datetimeShort"} -> 60
    [] name \in {"datetimeSeconds", "datetimeMedium", "datetimeLong", "odataDatetime", "abapDatetime"} -> 1
    [] OTHER -> 0
ShowsADay(name) == name \notin MonthYearPresets \cup {"abapMonth", "abapYear"}
ShowsADate(name) == name \notin {"time", "timeSeconds", "timeShort", "timeMedium", "timeLong"}

\* What the user sees in a field, at the precision of the field, is read back as the same date.
ReadsWhatItWrites(date, name, precision) ==
  LET text == FormatDateAs(name, DateValue(date), precision)
      read == CoerceParsedDateToDate(ParseDateByFormat(text, name, precision, date, date))
      wanted == CASE IsMonthYearPresetName(name) /\ precision = "day" -> "month" [] OTHER -> precision
  IN  ShowsADate(name) /\ (precision = "day" => ShowsADay(name) \/ IsMonthYearPresetName(name))
        /\ (precision = "month" => name \notin {"abapYear", "monthShort"})
      => read = Shown(date, wanted, TimeShown(name))

\* The same of a pattern of one's own, at each precision it holds.
PatternReadsWhatItWrites(date, pattern, precision) ==
  LET segments == ResolveDatePatternPrecision(pattern, precision)
      text == FormatByPattern(pattern, date, precision)
      read == CoerceParsedDateToDate(ParseDateByPattern(text, pattern, precision))
      Has(token) == ContainsDatePatternToken(segments, {token})
      century == Has("yyyy") \/ (Has("yy") /\ Year(date) \in 1970 .. 2069)
      holds == century /\ (precision # "year" => Has("MM")) /\ (precision = "day" => Has("dd"))
  IN  holds => read = Shown(date, precision, IF Has("ss") THEN 1 ELSE IF Has("mm") THEN 60 ELSE IF Has("HH") THEN 3600 ELSE 0)

\* What a field shows of a date is within the bounds of its segments and is read back as that date;
\* read over another default it has the components shown, and of the default those that are not.
SegmentsReadWhatTheyShow(mask, date, default) ==
  LET segments == ParseDateSegmentMask(mask)
      values == DateToIndexedSegmentValues(date, segments)
      ids == {segments[i].id : i \in EditableSegments(segments)}
      century == Year(date) \in 1970 .. 2069 \/ \A i \in EditableSegments(segments) : segments[i].id = "year" => segments[i].length = 4
      Over(read) == read # InvalidDate => \A i \in DOMAIN TokenMap : LET id == TokenMap[i].id IN
                      ComponentOf(read, id) = ComponentOf(IF id \in ids THEN date ELSE default, id)
  IN  /\ \A i \in DOMAIN values : values[i].n \in segments[i].min .. segments[i].max
      /\ century => IndexedSegmentsToDate(segments, values, date) = date /\ Over(IndexedSegmentsToDate(segments, values, default))

\* What is typed into a field is the date that shows it, or none: nothing is carried over to the next month,
\* and an unfinished or empty segment makes no date.
SegmentsShowWhatIsTyped(mask, values, default) ==
  LET segments == ParseDateSegmentMask(mask)
      Of(read) == read # InvalidDate => DateToIndexedSegmentValues(read, segments) = values
  IN  /\ Of(IndexedSegmentsToDate(segments, values, default))
      /\ AreAllDateSegmentsEmpty(segments, values) /\ DOMAIN values # {} => IndexedSegmentsToDate(segments, values, default) = InvalidDate

\* A time of the day sent to a service comes back as the same time.
TimeComesBack(date) == LET x == FormatDateAsODataTime(DateValue(date)) IN ParseDate(x) = DateOf(0, date.second) \/ date.second = 0
=============================================================================
