------------------------- MODULE ErrorReportValues -------------------------
(***************************************************************************)
(* src/error-report/safeValue.ts, dataPreview.ts and errorInfo.ts: what of *)
(* the values of an application may go into a report, and in what form.    *)
(*                                                                         *)
(* Abstraction.  A text is a sequence of symbols of one UTF-16 unit each:  *)
(* "H" and "L" are the halves of a surrogate pair, "e" a letter of two     *)
(* bytes, "q" one that JSON escapes, "?" begins the search of a URL.       *)
(* <<"@", "m">> stands for an e-mail address or a bearer token, which is   *)
(* recognised only whole: "@" is what there is of it when it is cut in     *)
(* two, and a text has no "@" but that of an address.  Its mark is         *)
(* <<"R", "R", "R">>, longer than it.  A value is a tuple: its kind, for   *)
(* an object or an array its identity (0 is one of its own), and what it   *)
(* holds.  What may be undefined is a sequence of at most one element.     *)
(* "o" holds the capture options and the sanitizer the application has     *)
(* set.                                                                    *)
(***************************************************************************)
EXTENDS Integers, Sequences, FiniteSets, SequencesExt

CONSTANTS
  Limits,   \* the longest text of each field, in units or bytes
  MaxString, MaxSafeString, MaxItems, MaxKeys, MaxDepth, MaxShapeItems,
  PreviewString, PreviewItems, PreviewKeys, PreviewDepth, PreviewNodes, MaxPreviewBytes

Total(numbers) == FoldLeft(LAMBDA a, b : a + b, 0, numbers)
AtMost(n, k) == IF n < k THEN n ELSE k
Each(Of(_), s) == FoldLeft(LAMBDA done, x : Append(done, Of(x)), <<>>, s)
OneOf(x, other) == IF x = <<>> THEN other ELSE x[1]

\* setErrorReportCaptureOptions: no option is the policy of the package.
NoSanitizer == <<>>
Options(verbatim, bytes, sanitizer) == [verbatim |-> verbatim, bytes |-> bytes, sanitizer |-> sanitizer]
BoundedPreviewBytes(given) == IF given = <<>> \/ given[1] < 0 THEN 0 ELSE AtMost(given[1], MaxPreviewBytes)
ResolvedOptions(given, sanitizer) ==
  IF given = <<>> THEN Options(FALSE, [k \in {"query", "persistedQuery", "mutation"} |-> 0], sanitizer)
  ELSE Options(given[1].verbatim, [k \in DOMAIN given[1].bytes |-> BoundedPreviewBytes(given[1].bytes[k])], sanitizer)

-----------------------------------------------------------------------------
(* Texts *)

Pair(t, i) == i \in 1 .. Len(t) - 1 /\ t[i] = "H" /\ t[i + 1] = "L"
IsHalf(t, i) == t[i] \in {"H", "L"} /\ ~ Pair(t, i) /\ ~ Pair(t, i - 1)
\* getUtf8TextSize: a pair takes four bytes, half of one three
GetUtf8TextSize(t) ==
  Total([i \in DOMAIN t |-> CASE IsHalf(t, i) -> 3 [] t[i] \in {"H", "L"} /\ ~ IsHalf(t, i) -> 2 [] t[i] = "e" -> 2 [] t[i] = "..." -> 3 [] OTHER -> 1])
JsonText(t) == GetUtf8TextSize(t) + 2 + Total([i \in DOMAIN t |-> IF t[i] = "q" THEN 1 ELSE IF IsHalf(t, i) THEN 3 ELSE 0])

Sliced(t, n) == SubSeq(t, 1, AtMost(n, Len(t)))
WithoutHalf(t) == IF t # <<>> /\ Last(t) = "H" THEN Front(t) ELSE t
IsAddress(t, i) == i \in 1 .. Len(t) - 1 /\ t[i] = "@" /\ t[i + 1] = "m"
\* What is replaced is what a pattern finds: an address that is there as a whole.
Redacted(t) ==
  FlattenSeq([i \in DOMAIN t |-> CASE IsAddress(t, i) -> <<"R", "R", "R">> [] IsAddress(t, i - 1) -> <<>> [] OTHER -> <<t[i]>>])
CutMark == <<"...", "[", "]">> \* with the number of characters or bytes there were
ShortMark == <<"[", "]">>
RedactedText == <<"R">>

SanitizeDiagnosticText(t, n, o) ==
  IF ~ o.verbatim THEN Redacted(Sliced(t, n))
  ELSE IF Len(t) <= n THEN t
  ELSE IF Len(CutMark) > n THEN Sliced(ShortMark, n)
  ELSE WithoutHalf(Sliced(t, n - Len(CutMark))) \o CutMark

LongestWithin(t, n) ==
  WithoutHalf(Sliced(t, CHOOSE k \in 0 .. Len(t) : /\ GetUtf8TextSize(Sliced(t, k)) <= n
                                                   /\ \A m \in k + 1 .. Len(t) : GetUtf8TextSize(Sliced(t, m)) > n))
SanitizeDiagnosticTextBytes(t, n, o) ==
  LET mark == IF o.verbatim THEN CutMark ELSE <<>>
      Cut(given) ==
        IF GetUtf8TextSize(given) <= n THEN given
        ELSE IF GetUtf8TextSize(mark) > n THEN Sliced(ShortMark, n)
        ELSE LongestWithin(given, n - GetUtf8TextSize(mark)) \o mark
  IN  Cut(IF o.verbatim THEN t ELSE SanitizeDiagnosticText(t, n, o))

\* looksLikeUrlWithPrivateParts, stripUrlSearchAndHash: a relative URL gets a slash
IsPrivateUrl(t) == t # <<>> /\ t[1] = "/" /\ Contains(t, "?") /\ ~ Contains(t, " ")
WithoutSearch(t) == Sliced(t, IF Contains(t, "?") THEN SelectInSeq(t, LAMBDA x : x = "?") - 1 ELSE Len(t))
StripUrlSearchAndHash(t) == LET path == WithoutSearch(t) IN IF path # <<>> /\ path[1] = "/" THEN path ELSE <<"/">> \o path

-----------------------------------------------------------------------------
(* Values *)

Null == <<"null">>
Undefined == <<"undefined">>
NaN == <<"non-finite-number">>
Number(width) == <<"number", width>>
Boolean(b) == <<"boolean", b>>
Text(t) == <<"text", t>>
Date(valid) == <<"date", valid>>
Entry(key, value) == [key |-> key, value |-> value]
Array(id, items) == <<"array", id, [i \in DOMAIN items |-> Entry("", items[i])]>>
Object(id, entries) == <<"object", id, entries>>
Unreadable(id) == <<"unreadable", id>> \* a getter throws

IsObject(v) == v[1] \in {"array", "object", "unreadable"}
Marker(type) == Object(0, <<Entry("type", Text(<<type>>))>>)
CutMarker(name, n) == Object(0, <<Entry(name, Number(n)), Entry("type", Text(<<"truncated">>))>>)
RedactedValue == Text(RedactedText)

KeysInOrder == <<"$truncated", "$truncated_", "a", "b", "c", "d", "firstItemsShape", "keys", "length", "omittedItems", "omittedKeys", "shape", "token", "type", "url">>
Rank(entry) == SelectInSeq(KeysInOrder, LAMBDA k : k = entry.key)
Sorted(entries) == SortSeq(entries, LAMBDA x, y : Rank(x) < Rank(y))
SensitiveKeys == {"token"}
UrlKeys == {"url"}
FreeMarkerKey(entries) == IF \E i \in DOMAIN entries : entries[i].key = "$truncated" THEN "$truncated_" ELSE "$truncated"

\* What is neither an object nor an array.
SafeLeaf(v, key, n, o) ==
  CASE v[1] \in {"null", "boolean", "number"} -> v
    [] v[1] = "text" -> Text(SanitizeDiagnosticText(IF ~ o.verbatim /\ (key \in UrlKeys \/ IsPrivateUrl(v[2])) THEN StripUrlSearchAndHash(v[2]) ELSE v[2], n, o))
    [] v[1] = "date" -> IF v[2] THEN Text(<<"utc">>) ELSE Marker("invalid-date")
    [] OTHER -> Marker(v[1])

Kept(n, most, o) == IF n <= most THEN n ELSE IF o.verbatim THEN most - 1 ELSE most
WithCut(v, kept, values, o) == \* what is left out is counted when values are kept verbatim
  LET n == Len(v[3]) - kept
      each == [i \in 1 .. kept |-> values[i]]
  IN  IF ~ o.verbatim \/ n = 0 THEN each
      ELSE IF v[1] = "array" THEN Append(each, Entry("", CutMarker("omittedItems", n)))
      ELSE Append(each, Entry(FreeMarkerKey(v[3]), CutMarker("omittedKeys", n)))

\* A value and the objects seen before it become its form and the objects seen.
RECURSIVE DiagnosticValue(_, _, _, _, _, _)
DiagnosticValue(v, key, depth, seen, n, o) ==
  LET entries == IF v[1] = "array" THEN v[3] ELSE Sorted(v[3])
      kept == Kept(Len(entries), IF v[1] = "array" THEN MaxItems ELSE MaxKeys, o)
      EntryOf(done, entry) ==
        LET inside == DiagnosticValue(entry.value, entry.key, depth + 1, done[2], n, o)
        IN  <<Append(done[1], Entry(entry.key, inside[1])), inside[2]>>
      each == FoldLeft(EntryOf, <<<<>>, seen \cup {v[2]}>>, SubSeq(entries, 1, kept))
  IN  IF ~ o.verbatim /\ key \in SensitiveKeys THEN <<RedactedValue, seen>>
      ELSE IF depth >= MaxDepth THEN <<Marker("truncated"), seen>>
      ELSE IF ~ IsObject(v) THEN <<SafeLeaf(v, key, n, o), seen>>
      ELSE IF v[2] # 0 /\ v[2] \in seen THEN <<Marker("circular"), seen>>
      ELSE IF v[1] = "unreadable" THEN <<Marker("unreadable"), seen \cup {v[2]}>>
      ELSE <<<<v[1], 0, WithCut(v, kept, each[1], o)>>, each[2]>>
BoundedValue(v, n, o) == DiagnosticValue(v, "", 0, {}, n, o)[1]

\* sanitizeErrorReportValue; a sanitizer throws, gives nothing, or a value in its place
SanitizeErrorReportValue(v, isKey, n, o) ==
  LET most == IF o.verbatim /\ isKey /\ MaxSafeString > n THEN MaxSafeString ELSE n
      given == IF o.sanitizer = NoSanitizer THEN <<v>> ELSE IF o.sanitizer[1] = "gives" THEN <<o.sanitizer[2]>> ELSE <<>>
  IN  Each(LAMBDA x : BoundedValue(x, most, o), given)
SanitizeDetail(detail, o) ==
  LET IsTold(safe) == safe[1] = "object" /\ safe[3] # <<>>
      Of(safe) == SelectSeq(safe, IsTold)
  IN  IF detail = <<>> THEN <<>> ELSE Of(SanitizeErrorReportValue(detail[1], FALSE, MaxString, o))

\* The form of cached data: types, sizes and names.
RECURSIVE DataShape(_, _)
DataShape(v, depth) ==
  LET Typed(type, rest) == Object(0, <<Entry("type", Text(<<type>>))>> \o rest)
      items == [i \in 1 .. AtMost(Len(v[3]), MaxShapeItems) |-> DataShape(v[3][i].value, depth + 1)]
      entries == SubSeq(v[3], 1, AtMost(Len(v[3]), MaxKeys))
      shapes == [i \in DOMAIN entries |-> Entry(entries[i].key, DataShape(entries[i].value, depth + 1))]
  IN  IF depth >= MaxDepth THEN Marker("truncated")
      ELSE CASE v[1] = "array" -> Typed("array", <<Entry("length", Number(Len(v[3]))), Entry("firstItemsShape", Array(0, items))>>)
             [] v[1] = "object" -> Typed("object", <<Entry("keys", Array(0, [i \in DOMAIN entries |-> Text(<<entries[i].key>>)])), Entry("shape", Object(0, shapes))>>)
             [] v[1] = "date" -> Typed("object", <<Entry("keys", Array(0, <<>>)), Entry("shape", Object(0, <<>>))>>)
             [] v[1] = "text" -> Marker("string")
             [] v[1] = "non-finite-number" -> Marker("number")
             [] OTHER -> Marker(v[1])
CreateDataShape(v) == DataShape(v, 0)

-----------------------------------------------------------------------------
(* Previews *)

\* "left" counts the nodes that may still be told, "cut" that something was not told.
RECURSIVE DescribePreviewValue(_, _, _)
DescribePreviewValue(v, depth, s) ==
  LET here == [s EXCEPT !.left = @ - 1]
      most == IF v[1] = "array" THEN PreviewItems ELSE PreviewKeys
      EntryOf(done, entry) ==
        LET inside == DescribePreviewValue(entry.value, depth + 1, done[2])
        IN  <<Append(done[1], Entry(entry.key, inside[1])), inside[2]>>
      each == FoldLeft(EntryOf, <<<<>>, [here EXCEPT !.seen = @ \cup {v[2]}, !.cut = @ \/ Len(v[3]) > most]>>, SubSeq(v[3], 1, AtMost(Len(v[3]), most)))
  IN  IF depth >= PreviewDepth THEN <<Marker("truncated"), [s EXCEPT !.cut = TRUE]>>
      ELSE IF s.left <= 0 THEN <<Marker("truncated"), [here EXCEPT !.cut = TRUE]>>
      ELSE IF v[1] = "text" THEN <<Text(WithoutHalf(Sliced(v[2], PreviewString))), [here EXCEPT !.cut = @ \/ Len(v[2]) > PreviewString]>>
      ELSE IF v[1] \in {"null", "boolean", "number"} THEN <<v, here>>
      ELSE IF v[1] = "date" /\ v[2] THEN <<Text(<<"utc">>), here>>
      ELSE IF v[1] = "date" THEN <<Marker("invalid-date"), here>>
      ELSE IF ~ IsObject(v) THEN <<Marker(v[1]), here>>
      ELSE IF v[2] # 0 /\ v[2] \in s.seen THEN <<Marker("circular"), here>>
      ELSE IF v[1] = "unreadable" THEN <<Marker("unreadable"), [here EXCEPT !.seen = @ \cup {v[2]}]>>
      ELSE <<<<v[1], 0, each[1]>>, each[2]>>

\* The bytes of JSON.stringify; names are of two letters.
RECURSIVE JsonSize(_)
JsonSize(v) ==
  CASE v[1] \in {"null", "boolean"} -> 4
    [] v[1] = "number" -> v[2]
    [] v[1] = "text" -> JsonText(v[2])
    [] OTHER -> 2 + Total([i \in DOMAIN v[3] |-> (IF i > 1 THEN 1 ELSE 0) + (IF v[1] = "object" THEN 5 ELSE 0) + JsonSize(v[3][i].value)])

CodePoints(t) == {i \in DOMAIN t : ~ (i > 1 /\ Pair(t, i - 1))} \* where they begin
ShortenRootString(t) ==
  LET half == Cardinality(CodePoints(t)) \div 2
  IN  Sliced(t, CHOOSE k \in 0 .. Len(t) : (k = Len(t) \/ k + 1 \in CodePoints(t)) /\ Cardinality({i \in CodePoints(t) : i <= k}) = half)

\* The value with its tail shortened, or nothing when there is nothing to shorten.
RECURSIVE ShrinkPreviewValue(_)
ShrinkPreviewValue(v) ==
  LET inside == ShrinkPreviewValue(v[3][1].value)
  IN  IF v[1] = "text" THEN IF v[2] = <<>> THEN <<>> ELSE <<Text(ShortenRootString(v[2]))>>
      ELSE IF ~ IsObject(v) \/ v[3] = <<>> THEN <<>>
      ELSE IF Len(v[3]) = 1 /\ inside # <<>> THEN <<[v EXCEPT ![3][1].value = inside[1]]>>
      ELSE <<[v EXCEPT ![3] = Front(@)]>>
RECURSIVE ShrunkTo(_, _)
ShrunkTo(v, n) ==
  IF JsonSize(v) <= n THEN v ELSE ShrunkTo(OneOf(ShrinkPreviewValue(v), Null), n)

\* "json" is the value the text of the preview is read as.
MinJsonPreviewBytes == 4
Preview(json, truncated) == [json |-> json, truncated |-> truncated]
CreateErrorReportDataPreview(v, n) ==
  LET limit == IF n > MinJsonPreviewBytes THEN n ELSE MinJsonPreviewBytes
      Of(told) == Preview(ShrunkTo(told[1], limit), told[2].cut \/ JsonSize(told[1]) > limit)
  IN  Of(DescribePreviewValue(v, 0, [seen |-> {}, left |-> PreviewNodes, cut |-> FALSE]))

-----------------------------------------------------------------------------
(* What is promised *)

WellFormed(t) == \A i \in DOMAIN t : ~ IsHalf(t, i)
CutsAddress(t, n) == Len(t) > n /\ IsAddress(t, n)
\* A redacted text names nobody, but for the half of an address that a cut left at its end.
NamesNobody(t) == \A i \in DOMAIN t : t[i] = "@" => i = Len(t) \/ t[i + 1] = CutMark[1]
\* A text fits its limit, is cut between characters, and is cut once; a redacted text names
\* somebody in part exactly when the limit falls into the address, for the cut comes first.
\* Texts limited in characters are excepted from the first two when they are redacted:
\* there marks are put in after the cut, which may fall into a pair.
TextsAreBounded(t, n, o) ==
  LET Bounded(inUnits, inBytes) ==
        /\ GetUtf8TextSize(inBytes) <= n /\ (WellFormed(t) => WellFormed(inBytes))
        /\ o.verbatim => /\ Len(inUnits) <= n /\ (WellFormed(t) => WellFormed(inUnits))
                         /\ SanitizeDiagnosticText(inUnits, n, o) = inUnits /\ SanitizeDiagnosticTextBytes(inBytes, n, o) = inBytes
                         /\ (Len(t) <= n <=> inUnits = t) /\ (GetUtf8TextSize(t) <= n <=> inBytes = t)
        /\ ~ o.verbatim => /\ NamesNobody(inUnits) /\ NamesNobody(inBytes)
                           /\ Contains(inUnits, "@") <=> CutsAddress(t, n)
                           /\ Contains(inBytes, "@") => CutsAddress(t, n)
  IN  Bounded(SanitizeDiagnosticText(t, n, o), SanitizeDiagnosticTextBytes(t, n, o))

RECURSIVE Depth(_)
Depth(v) == IF ~ IsObject(v) \/ v[1] = "unreadable" THEN 0
            ELSE 1 + FoldLeft(LAMBDA most, e : IF Depth(e.value) > most THEN Depth(e.value) ELSE most, 0, v[3])
RECURSIVE Within(_, _), TextsIn(_), TellsKey(_), Whole(_), InOrder(_)
InOrder(v) == \* objects are compared whatever the order of their keys
  LET inside == [i \in DOMAIN v[3] |-> Entry(v[3][i].key, InOrder(v[3][i].value))]
  IN  CASE v[1] = "array" -> <<"array", 0, inside>> [] v[1] = "object" -> <<"object", 0, Sorted(inside)>> [] OTHER -> v
\* safeValueSchema
Within(v, n) ==
  CASE v[1] \in {"null", "boolean", "number"} -> TRUE
    [] v[1] = "text" -> Len(v[2]) <= n
    [] v[1] = "array" -> Len(v[3]) <= MaxItems /\ \A i \in DOMAIN v[3] : Within(v[3][i].value, n)
    [] v[1] = "object" -> Len(v[3]) <= MaxKeys /\ \A i \in DOMAIN v[3] : Within(v[3][i].value, n)
    [] OTHER -> FALSE
TextsIn(v) ==
  CASE v[1] = "text" -> {v[2]} [] v[1] \in {"array", "object"} -> UNION {TextsIn(v[3][i].value) : i \in DOMAIN v[3]} [] OTHER -> {}
Mentions(v) == \E t \in TextsIn(v) : Contains(t, "@") \* an address, or the half of one
TellsKey(v) == \* something under a sensitive key
  v[1] \in {"array", "object"} /\ \E i \in DOMAIN v[3] : TellsKey(v[3][i].value) \/ (v[3][i].key \in SensitiveKeys /\ v[3][i].value # RedactedValue)
TellsNobody(v) == ~ TellsKey(v) /\ \A t \in TextsIn(v) : NamesNobody(t)
\* What goes into a report is accepted by its schema, whatever it was; redacted, it tells no
\* secrets, but for the half of an address in which a text of it was cut; taken again, as on
\* the way into the payload, it stays as it is.  A text that is longer once redacted is
\* excepted, and so is a marker at the last level: taken again, it loses its type.
ValuesAreSafe(v, n, o) ==
  LET Of(safe) ==
        /\ ~ Mentions(v) \/ o.verbatim => Within(safe, n)
        /\ ~ o.verbatim => TellsNobody(safe) /\ (Mentions(safe) => \E t \in TextsIn(v) : \E url \in {t, StripUrlSearchAndHash(t)} : CutsAddress(url, n))
        /\ Depth(safe) < MaxDepth /\ ~ Mentions(v) => InOrder(BoundedValue(safe, n, o)) = InOrder(safe)
  IN  Of(BoundedValue(v, n, o))

Whole(v) == \* the value with marks for what JSON does not know
  CASE v[1] \in {"null", "boolean", "number", "text"} -> v
    [] v[1] = "date" -> IF v[2] THEN Text(<<"utc">>) ELSE Marker("invalid-date")
    [] v[1] \in {"array", "object"} -> <<v[1], 0, [i \in DOMAIN v[3] |-> Entry(v[3][i].key, Whole(v[3][i].value))]>>
    [] OTHER -> Marker(v[1])
\* A preview keeps its budget, and is the whole value unless it says that it is not.
PreviewIsExact(v, n) ==
  LET Of(preview) ==
        /\ JsonSize(preview.json) <= n \/ n < MinJsonPreviewBytes
        /\ ~ preview.truncated => preview.json = Whole(v)
  IN  Of(CreateErrorReportDataPreview(v, n))
\* The form of the data says nothing of its texts and numbers.
RECURSIVE Blanked(_)
Blanked(v) ==
  CASE v[1] = "text" -> Text(<<>>)
    [] v[1] = "number" -> Number(1)
    [] v[1] \in {"array", "object"} -> <<v[1], v[2], [i \in DOMAIN v[3] |-> Entry(v[3][i].key, Blanked(v[3][i].value))]>>
    [] OTHER -> v
ShapeTellsNoData(v) == CreateDataShape(v) = CreateDataShape(Blanked(v))
=============================================================================
