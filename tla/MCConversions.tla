--------------------------- MODULE MCConversions ---------------------------
(***************************************************************************)
(* The conversions of the library have no state of their own: a caller     *)
(* gives an input and gets an answer.  Here the caller chooses an area and *)
(* then an input of it, from the sets below, and the invariants say what   *)
(* holds of the answer for each of them.                                   *)
(***************************************************************************)
EXTENDS Integers, Sequences, FiniteSets, TLC
F == INSTANCE ODataFilters
Q == INSTANCE ODataQueries
M == INSTANCE ODataMetadata
D == INSTANCE DateFormats WITH Zone <- 10800

\* limits small enough to be met, in the proportions of the code
LimitOf == [field \in {"name", "message", "verbatimMessage", "code", "stackTrace", "componentStack", "id", "utc", "application", "source", "buildId",
                       "language", "timeZone", "location", "queryHash", "buster", "routeId", "appId", "target"} |->
              CASE field = "verbatimMessage" -> 12 [] field = "stackTrace" -> 8 [] field = "componentStack" -> 6 [] OTHER -> 4]
E == INSTANCE ErrorReportPayloads WITH Limits <- LimitOf, MaxString <- 5, MaxSafeString <- 6, MaxItems <- 2, MaxKeys <- 2, MaxDepth <- 3, MaxShapeItems <- 1,
  PreviewString <- 3, PreviewItems <- 2, PreviewKeys <- 2, PreviewDepth <- 3, PreviewNodes <- 5, MaxPreviewBytes <- 30, MaxBytes <- 130,
  MaxDiagnostics <- 3, MaxBreadcrumbs <- 3, ReducedDiagnostics <- 1, ReducedBreadcrumbs <- 1, ReducedPreviewByteLimits <- <<12, 8, 4>>, MaxChain <- 3,
  MaxRecords <- 2, MaxOwner <- 2

\* the formulas of the host: plain, throwing, without a result, and one that reads below its arguments
G == INSTANCE Formulas
Host == <<[id |-> G!Padded("f"), formula |-> G!Formula(0, <<0, 1>>, <<1>>, "sum")], [id |-> G!Text("throws"), formula |-> G!Formula(0, <<>>, <<>>, "throw")],
          [id |-> G!Text("empty"), formula |-> G!Formula(0, <<>>, <<>>, "nothing")], [id |-> G!Text("wild"), formula |-> G!Formula(-1, <<0>>, <<>>, "sum")]>>
V == INSTANCE FormatterPipelines WITH TableFormulas <- <<>>, RowBasedFormulas <- <<>> \* for the inputs, which read no registry
P == INSTANCE FormatterRuntime WITH TableFormulas <- G!Registry(Host), RowBasedFormulas <- G!Registry(Host)

VARIABLES area, input
vars == <<area, input>>

Areas == {"filters", "ranges", "chains", "columns", "documents", "sorts", "sql", "parameters", "values", "dictionary",
          "formulas", "resolvers", "graphs", "cells", "fields", "copies", "periods", "weeks", "instants", "days", "formats", "patterns", "shown", "typed",
          "texts", "forms", "payloads", "clicks", "records", "retries"}
Init == area = "none" /\ input = <<>>
Choose == area = "none" /\ area' \in Areas /\ UNCHANGED input
Asked(a) == area = a /\ input = <<>> /\ UNCHANGED area
Given(a) == area = a /\ input # <<>>
UpTo(n, S) == UNION {[1 .. k -> S] : k \in 0 .. n}

-----------------------------------------------------------------------------
(* Filters: definitions of every kind, of list, boolean and value          *)
(* bindings, with values of every type                                     *)

c == F!Text("c")
d == F!Text("d")
Conds == {F!Condition(F!Padded("c"), "eq", "static", F!Padded("a")), F!Condition(d, "contains", "input", F!None),
          F!Condition(F!Blank, "eq", "static", F!Number("1")), F!Condition(d, "eq", "static", F!Number("NaN"))}
Groups == {F!NoGroup} \cup {F!Group("unset", <<x>>) : x \in Conds} \cup
          {F!Group(a, <<x, y>>) : a \in {"no", "yes"}, x \in Conds, y \in Conds}
Small == {F!NoGroup} \cup {F!Group("no", <<x, y>>) : x \in Conds, y \in Conds}
Bindings == {F!NoBinding} \cup {F!GroupBinding(k, g) : k \in {"boolean", "value"}, g \in Groups}
     \cup {F!ListBinding(a, <<F!Option(F!Padded("a"), g), F!Option(F!Text("b"), h)>>) : a \in {"yes", "unset"}, g \in Small, h \in Small}
Trees == {F!TreeValue(<<[column |-> F!Padded("c"), value |-> F!Array(<<F!Text("b"), F!Padded("a")>>)],
                        [column |-> d, value |-> F!Array(<<F!Text("a")>>)]>>),
          F!TreeValue(<<[column |-> c, value |-> F!Text("a")]>>)}
Values == {F!None, F!Boolean("true"), F!Number("1.5"), F!Number("NaN"), F!Padded("a"), F!Blank,
           F!Array(<<F!Text("b"), F!Padded("a"), F!Text("a")>>), F!Array(<<F!Blank>>),
           F!Array(<<F!Number("1"), F!Date("NaN"), F!Boolean("true")>>)} \cup Trees
ListValues == {F!Padded("a"), F!Array(<<F!Text("b"), F!Padded("a"), F!Text("a")>>)}
Id == F!Padded("f")
Definitions ==
  {[F!Definition(k, Id, o, s) EXCEPT !.code = o] : k \in {"segment", "odata-segment", "column", "advanced"}, o \in {c, F!Blank}, s \in {"select", "multi-select"}}
   \cup {[F!Definition(k, Id, o, s) EXCEPT !.columns = cs, !.level = l] :
            k \in {"tree", "odata-tree"}, o \in {c, d}, s \in {"treeSelect", "x"}, cs \in {<<>>, <<F!Blank, F!Padded("c")>>, <<d, c, c>>}, l \in {"and", "or"}}
   \cup {[F!Definition("local", Id, F!Padded("c"), s) EXCEPT !.binding = b] : s \in {"select", "multi-select"}, b \in Bindings}
   \cup {[F!Definition("registered", Id, F!Blank, "x") EXCEPT !.binding = b, !.mode = m] : b \in Bindings, m \in {"single", "multiple"}}
Filters == Asked("filters") /\ \E x \in Definitions :
             \E v \in (IF x.binding.kind = "list" THEN ListValues ELSE Values) : input' = <<x, v>>

Bounds == {F!None, F!Blank, F!Text("a"), F!Number("0"), F!Number("1"), F!Boolean("false"), F!Boolean("true"), F!Date("2026")}
RangedDefinitions == {F!Definition("column", Id, c, "select")} \cup {[F!Definition("local", Id, c, "select") EXCEPT !.binding = F!GroupBinding("value", g)] : g \in Small}
Ranges == Asked("ranges") /\ \E x \in RangedDefinitions, v \in {F!None, F!Padded("a")}, low, high \in Bounds : input' = <<x, v, low, high>>

ids == {F!Text("p"), F!Text("q"), F!Text("r")}
Chains == Asked("chains") /\ \E held \in SUBSET ids : \E v \in [held -> {F!Text("a"), F!Array(<<F!Text("a")>>), F!Boolean("true")}] :
            \E segments \in SUBSET ids, one, other \in {<<>>, <<F!Text("p"), F!Text("q"), F!Text("r")>>, <<F!Text("r"), F!Text("p")>>} :
              input' = <<v, segments, <<one, other>>>>

-----------------------------------------------------------------------------
(* Columns and documents of a service *)

ColumnIds == {<<"K">>, <<"k", "_txt">>, <<"K", "_t">>, <<"L">>}
ColumnOf == {M!Column(id, role, link) : id \in ColumnIds, role \in {"measure", "dimension"}, link \in ColumnIds \cup {<<>>}}
Columns == Asked("columns") /\ \E n \in 1 .. 3 : \E columns \in [1 .. n -> ColumnOf] :
             /\ \A i, j \in 1 .. n : columns[i].id = columns[j].id => i = j
             /\ input' = <<columns>>

TypeOf(name, keys, properties, navigations) ==
  [name |-> name, endsInType |-> name = "ResultType", keys |-> keys, properties |-> properties, navigations |-> navigations]
K == M!Property(<<"K">>, "String", <<>>, FALSE)
Navigation(to) == [name |-> "Results", relationship |-> <<"ns", "link">>, to |-> to, from |-> "here"]
Properties == {<<K>>, <<[K EXCEPT !.edm = "SByte"]>>, <<[K EXCEPT !.name = <<"CNT">>, !.edm = "SByte"], K>>}
Associations == {<<>>} \cup {<<[name |-> n, ends |-> <<[role |-> "here", set |-> "A"], [role |-> "there", set |-> s]>>]>> :
                   n \in {<<"ns", "link">>, <<"", "link">>}, s \in {"A", "B"}}
Functions == {<<>>} \cup {<<[name |-> "go", set |-> s, actionFor |-> a, parameters |-> <<[K EXCEPT !.nullable = n, !.mode = m]>>]>> :
                s \in {"A", "B", ""}, a \in {"ResultType", ""}, n \in BOOLEAN, m \in {"In", "Out"}}
Documents == Asked("documents") /\ \E p, q \in Properties, to \in {"there", "other"}, navs \in {<<>>, <<1>>}, a \in Associations, f \in Functions :
  input' = <<[sets |-> <<[name |-> "A", type |-> "Main"], [name |-> "B", type |-> "ResultType"]>>,
              types |-> <<TypeOf("Main", {<<"K">>}, p, [i \in DOMAIN navs |-> Navigation(to)]), TypeOf("ResultType", {<<"K">>}, q, <<>>)>>,
              associations |-> a, functions |-> f]>>

-----------------------------------------------------------------------------
(* Queries *)

Sorts == Asked("sorts") /\ \E grouping \in {<<>>, <<"k">>, <<"l", "k">>}, clicks \in UpTo(4, {"k", "l", "m"} \X BOOLEAN) : input' = <<grouping, clicks>>

Leaves == {Q!CreateSqlFilterEqual("f", Q!Text("a")), Q!CreateSqlFilterEqual("g", Q!Blank), Q!CreateSqlFilterEqual("g", Q!Date("2026")),
           Q!CreateSqlFilterIn("g", <<Q!Number("NaN"), Q!Number("1"), Q!Boolean("true")>>), Q!CreateSqlFilterIn("1f", <<>>)}
SqlGroups == {Q!CreateSqlFilterGroup(s, or) : s \in UpTo(2, Leaves), or \in BOOLEAN}
Sql == Asked("sql") /\ \E nodes \in UpTo(2, Leaves \cup SqlGroups) : input' = <<nodes>>

Scalars == {Q!Text("a"), Q!Text("ab"), Q!Text("quote"), Q!Blank, Q!Text("X"), Q!Text("space"), Q!Text("1"), Q!Text("1.5"),
            Q!Number("0"), Q!Number("1"), Q!Number("1.5"), Q!Number("300"), Q!Number("NaN"), Q!Boolean("true"), Q!Boolean("false"),
            Q!Date("2026"), Q!Date("NaN")}
ScalarTypes == Q!NumericTypes \cup Q!DateTypes \cup {"string", "guid", "binary", "boolean"}
TwoParameters == {<<Q!Parameter("p", t, n, m), Q!Parameter("q", "int", 0, TRUE)>> : t \in {"string", "boolean", "datetime", "int"}, n \in {0, 1}, m \in BOOLEAN}
Calls == {<<>>} \cup [{"p"} -> {Q!Given(x, f) : x \in Scalars \cup {Q!None}, f \in {"none", "base", "asByte", "stringAbapDate"}}]
Sent == {<<>>, [k \in {"q", "x"} |-> Q!Given(Q!Number(IF k = "q" THEN "1" ELSE "1.5"), "none")]}
Parameters == Asked("parameters") /\ \E ps \in TwoParameters, one \in Calls, other \in Sent, result \in {"none", "Results"}, method \in {"create", "read", "query"} :
  input' = <<[parameters |-> ps, result |-> result],
             [k \in DOMAIN one \cup DOMAIN other |-> IF k \in DOMAIN one THEN one[k] ELSE other[k]], method>>
ReadValues == Asked("values") /\ \E type \in ScalarTypes, x \in Scalars : input' = <<type, x>>

Codes == {<<"1">>, <<"2">>, <<>>}
Items == {[f \in {"K", "T"} |-> IF f = "K" THEN k ELSE t] : k \in Codes, t \in {<<"b">>, <<"a", "b">>, <<>>}} \cup {[f \in {"K"} |-> k] : k \in Codes}
FieldIds == {<<"K">>, <<"K", "_txt">>, <<"K", "_t">>, <<"K", "_t", "_T">>, <<"L">>}
Dictionary == Asked("dictionary") /\ \E rows \in UpTo(3, Items), empty, byCode \in BOOLEAN :
  \E fields \in (IF rows = <<>> THEN UpTo(4, FieldIds) ELSE {<<>>}) :
    /\ \A i, j \in DOMAIN fields : fields[i] = fields[j] => i = j
    /\ input' = <<rows, empty, byCode, fields>>

-----------------------------------------------------------------------------
(* Formulas and pipelines of formatters *)

left == V!Text("k")
right == V!Text("n")
Formulas == Asked("formulas") /\ \E test \in {-1, 0, 1}, yes \in {<<>>, <<0>>, <<1, 0>>}, no \in {<<>>, <<1>>, <<2>>}, outcome \in {"sum", "throw", "nan"} :
  \E keys \in UpTo(2, {left, right, V!Padded("k"), V!Text(""), V!Constant(-5), V!Spoilt}) :
    \E x \in {V!None, V!Digits(0, 2), V!Number(-1), V!Grouped(1000)}, y \in {V!Number(3), V!Padded("x")} :
      input' = <<V!Formula(test, yes, no, outcome), keys, [key \in {left, right} |-> IF key = left THEN x ELSE y]>>

Resolvers == {V!Fixed(<<V!Entry(2, V!PieceOf(V!Number(1)), "error"), V!Entry(1, V!PieceOf(V!Text("x")), s)>>, f) : s \in {"error", "success"}, f \in {<<>>, <<"warning">>}}
        \cup {V!Fixed(<<V!Entry(1, V!PieceOf(V!Text("x")), "error"), V!Entry(2, V!PieceOf(V!Number(1)), "error")>>, <<>>), V!Fixed(<<>>, <<>>)}
        \cup {V!Thresholds(<<V!Threshold(x, b), V!Threshold(y, "upper")>>, <<"error", "none", "success">>, f) :
                x \in {1, 5}, y \in {3, 5}, b \in {"lower", "upper"}, f \in {<<>>, <<"">>}}
Cells == {V!None, V!Null, V!Text(""), V!Padded(""), V!Padded("x"), V!Text("x"), V!Digits(1, 1), V!Digits(3, 3), V!Boolean(TRUE)} \cup {V!Number(i) : i \in {-1, 1, 3, 4, 5, 6}}
ResolveStates == Asked("resolvers") /\ \E configs \in UpTo(2, Resolvers), x \in Cells : input' = <<configs, x>>

Ordered == V!Thresholds(<<V!Threshold(5, "lower"), V!Threshold(0, "upper")>>, <<"error", "none", "success">>, <<>>)
Icons == V!Icon(V!Boolean(TRUE), V!None, V!Text("right"))
S(id, type, config) == V!Step(V!Text(id), type, config)
Steps == {S("a", V!Zeros, <<>>), S("b", V!Zeros, <<[fixed |-> V!Number(4)]>>), S("c", V!Override, V!FieldConfig(left, V!None)),
          S("d", V!Override, V!FieldConfig(V!Padded("n"), V!Boolean(FALSE))), S("e", V!Override, V!FormulaConfig(V!Text("f"), <<<<left, right>>>>, V!None)),
          S("f", V!Override, V!FormulaConfig(V!Text("throws"), <<>>, V!Boolean(FALSE))), S("g", V!State, V!StateConfig(Ordered, <<>>, <<>>)),
          S("h", V!State, V!StateConfig(Ordered, <<V!FormulaSource(V!Padded("f"), <<right, left>>)>>, <<Icons>>)),
          S("i", V!State, V!StateConfig(V!Fixed(<<V!Entry(1, V!PieceOf(V!Number(0)), "warning")>>, <<"">>), <<[kind |-> "value"]>>, <<[Icons EXCEPT !.showValue = V!Boolean(FALSE)]>>)),
          S("j", V!Typed, <<>>), S("a", V!Typed, <<V!TypedConfig(V!Padded("price"), V!Text("x"))>>)}
Setting == {S("b", V!Zeros, <<[fixed |-> V!Number(4)]>>), S("c", V!Override, V!FieldConfig(left, V!None)), S("g", V!State, V!StateConfig(Ordered, <<>>, <<>>)), S("j", V!Typed, <<>>)}
At(x, row, kind) == [value |-> x, row |-> row, stateRow |-> <<>>, rowKind |-> kind]
RowOf(x, y) == [key \in {left, right} |-> IF key = left THEN x ELSE y]
Contexts == {At(x, RowOf(y, V!Number(-7)), kind) : x \in {V!Number(5), V!Null}, y \in {V!Null, V!Number(0), V!Padded("")}, kind \in {"plain", "totals"}}
       \cup {[At(V!Text("x"), RowOf(V!Number(1), V!Digits(12, 3)), "group") EXCEPT !.stateRow = s] : s \in {<<>>, <<[key \in {left} |-> V!Number(2)]>>}}
ExecuteCells == Asked("cells") /\ \E steps \in UpTo(2, Steps) \cup [1 .. 3 -> Setting], context \in Contexts, type \in {"number", "date"} : input' = <<steps, type, context>>

Ends == <<V!End(V!Text("s"), "source", <<0, 0>>), V!End(V!Text("t"), "sink", <<0, 1>>)>>
Nodes == {V!Node(S("a", V!Zeros, <<>>), <<1, 1>>), V!Node(S("b", V!Typed, <<>>), <<>>), V!Node(S("c", V!State, V!StateConfig(Ordered, <<>>, <<>>)), <<0, 0>>),
          V!Node(V!Step(V!Padded("a"), V!Zeros, <<>>), <<1, 1>>)}
Inner == UpTo(1, Nodes) \cup {<<x, y>> : x \in {V!Node(S("a", V!Zeros, <<>>), <<1, 1>>)}, y \in Nodes}
NodeLists == {Ends \o s : s \in Inner} \cup {Ends \o Ends, <<>>, <<Ends[2], Ends[1]>>, <<Ends[1]>>}
Points == {V!Text("s"), V!Text("a"), V!Text("b"), V!Text("t")}
Ways == {<<V!Text(e[1]), V!Text(e[2])>> : e \in {<<"s", "a">>, <<"a", "b">>, <<"b", "a">>, <<"b", "t">>, <<"a", "t">>, <<"t", "s">>}}
EdgeLists == {[i \in DOMAIN p |-> V!Edge(IF i = 3 /\ same THEN V!Text("1") ELSE V!Text(ToString(i)), p[i][1], p[i][2])] :
                p \in UpTo(2, Points \X Points) \cup [1 .. 3 -> Ways], same \in BOOLEAN}
Graphs == Asked("graphs") /\ \E nodes \in NodeLists, edges \in EdgeLists : input' = <<[nodes |-> nodes, edges |-> edges]>>

Chain(steps, pad) == \* the graph an editor draws for a plan
  [nodes |-> <<Ends[1]>> \o [i \in DOMAIN steps |-> V!Node(steps[i], <<i, i>>)] \o <<Ends[2]>>,
   edges |-> LET along == <<Ends[1].id>> \o [i \in DOMAIN steps |-> steps[i].id] \o <<Ends[2].id>>
             IN  [i \in 1 .. Len(along) - 1 |-> V!Edge(V!Text(ToString(i)), IF pad THEN V!Padded(along[i][2]) ELSE along[i], along[i + 1])]]
Configs ==
  LET Of(plans, Drawn(_, _)) ==
        {<<V!Config(v, p, g)>> : v \in {1, 2}, p \in {<<>>} \cup {<<s>> : s \in plans}, g \in {<<>>} \cup {<<Drawn(s, FALSE)>> : s \in {<<>>, <<S("a", V!Zeros, <<>>)>>}}}
          \cup {<<V!Config(1, p, <<Drawn(s, pad)>>)>> : p \in {<<>>, <<<<S("", V!Zeros, <<>>)>>>>}, s \in plans, pad \in BOOLEAN}
          \cup {<<V!Config(1, <<s>>, <<Drawn(s, FALSE)>>)>> : s \in plans}
  IN  Of(UpTo(2, Steps), Chain)
CopyConfigs == Asked("copies") /\ \E config \in Configs, context \in {x \in Contexts : x.rowKind # "totals"} : input' = <<config, context>>
Fields == {P!RuntimeField(left, "number", p, f, <<left, right>>, derived, empty) :
             p \in {<<>>} \cup {<<V!Config(1, <<s>>, <<>>)>> : s \in UpTo(1, Steps)}, f \in {V!Text(x) : x \in {"", "f", "throws", "x"}}, derived \in BOOLEAN, empty \in BOOLEAN}
ShowFields == Asked("fields") /\ \E field \in Fields, context \in Contexts : input' = <<field, context>>

-----------------------------------------------------------------------------
(* Dates *)

Days == {D!DayNumber(y, m, n) : y \in {2000, 2024, 2026, 2037}, m \in {1, 2, 3, 5, 8, 9, 12}, n \in {1, 15, 28}} \cup {-365, 0} \cup 20514 .. 20520
Times == {D!DateOf(n, s) : n \in Days, s \in {0, 86399, 45005}}
Modes == {"day", "week", "month", "year"}
Periods == Asked("periods") /\ \E date \in Times, mode \in Modes, end \in DOMAIN D!WeekEndDayOffsets : input' = <<date, mode, end>>
Nows == {D!DateOf(D!DayNumber(2026, 1, 1), 0), D!DateOf(D!DayNumber(2025, 9, 1), 45005),
         D!DateOf(D!DayNumber(2025, 8, 31), 86399), D!DateOf(D!DayNumber(2026, 8, 30), 0)}
Weeks == Asked("weeks") /\ \E y \in {2025, 2026}, m \in 0 .. 12, n \in {0, 1, 2, 15, 30, 31}, now \in Nows : input' = <<<<y, m, n>>, now>>
Instants == Asked("instants") /\ \E instant \in Times, offset \in {-330, 0, 180, 765} : input' = <<instant, offset>>
CalendarDays == Asked("days") /\ \E y \in {99, 1900, 2000, 2024, 2026}, m \in 0 .. 13, n \in {0, 1} \cup 28 .. 32, h \in {0, 23, 24} : input' = <<y, m, n, h>>
Precisions == {"day", "month", "year"}
Moments == {D!DateOf(n, s) : n \in {0, 10957, 20514, 20605, 20696, 24836}, s \in {0, 86399, 45005}}
Formats == Asked("formats") /\ \E date \in Moments, name \in DOMAIN D!BuiltinPresets, p \in Precisions : input' = <<date, name, p>>
UserPatterns == {D!DottedDate, <<"HH", ":", "mm", " ", "yyyy", "/", "MM", "/", "dd">>, <<"yy", "MM", "dd">>, <<"dd", " ", "HH", " ", "MM", "-", "yy", "!">>}
Patterns == Asked("patterns") /\ \E date \in Times, pattern \in UserPatterns, p \in Precisions : input' = <<date, pattern, p>>
Masks == {<<"dd", ".", "MM", ".", "yyyy">>, <<"YYYY", "-", "MM">>, <<"DD", "/", "MM", "/", "yy", " ", "HH", ":", "mm">>, <<"hh", ":", "mm", ":", "ss">>,
          <<"MM", "dd">>, <<"T">>}
Defaults == {D!Midnight(1970, 0, 1), D!Midnight(2024, 1, 29), D!Midnight(2026, 0, 31)}
Shown == Asked("shown") /\ \E mask \in Masks, date \in Moments \cup Times \cup Defaults, default \in Defaults : input' = <<mask, date, default>>
TypedInto(segments) ==
  LET Candidates(i) == {v \in {D!Digits(k, n) : k \in {0, 1, 2, 4}, n \in {0, 2, 12, 13, 24, 29, 30, 31, 32, 60, 69, 70, 99, 2023, 2024}} :
                          v.digits <= segments[i].length /\ (v.digits = 4 \/ v.n < 10 ^ v.digits)}
      places == D!EditableSegments(segments)
  IN  {v \in [places -> UNION {Candidates(i) : i \in places}] : \A i \in places : v[i] \in Candidates(i)}
Typed == Asked("typed") /\ \E mask \in {m \in Masks : Len(m) <= 5}, default \in Defaults :
  \E values \in TypedInto(D!ParseDateSegmentMask(mask)) : input' = <<mask, values, default>>

-----------------------------------------------------------------------------
(* Reports of errors *)

Address == <<"@", "m">>
Pieces == {<<"a">>, <<"e">>, <<"H">>, <<"L">>, Address, <<"q">>}
PreviewBytes(n) == <<[k \in {"query", "persistedQuery", "mutation"} |-> <<n>>]>>
PolicyOf(verbatim, n, sanitizer) == E!ResolvedOptions(<<[verbatim |-> verbatim, bytes |-> PreviewBytes(n)[1]]>>, sanitizer)
Texts == Asked("texts") /\ \E pieces \in UpTo(3, Pieces), n \in 0 .. 6, verbatim \in BOOLEAN :
                             input' = <<E!FlattenSeq(pieces), n, PolicyOf(verbatim, 0, E!NoSanitizer)>>

Leaf == {E!Null, E!Number(2), E!Boolean(TRUE), E!Text(<<"a", "e", "q", "a">>), E!Text(<<"/", "?", "a">>), E!Text(Address), E!Text(<<"a", "a">> \o Address), E!Undefined, E!NaN,
         E!Date(TRUE), E!Date(FALSE), <<"function">>, E!Unreadable(9)}
Deep == {E!Null, E!Text(<<"a">> \o Address), E!Undefined, E!Text(<<"/", "?">>), E!Array(2, <<E!Null, E!Text(<<>>)>>),
         E!Object(2, <<E!Entry("a", E!Array(3, <<E!Undefined, E!Number(1), E!Object(2, <<>>)>>))>>),
         E!Object(3, <<E!Entry("a", E!Null), E!Entry("b", E!Null), E!Entry("token", E!Number(1))>>)}
Objects == {E!Object(1, s) : s \in {<<>>} \cup {<<E!Entry("url", x), E!Entry(k, y)>> : k \in {"token", "$truncated"}, x \in Deep, y \in Deep}
                                  \cup {<<E!Entry("c", x), E!Entry("b", y), E!Entry("a", E!Null)>> : x \in Deep, y \in Deep}}
Forms == Asked("forms") /\ \E v \in Leaf \cup {E!Array(1, s) : s \in UpTo(2, Deep)} \cup Objects, verbatim \in BOOLEAN, n \in {3, 4, 9, 20} :
  input' = <<v, n, PolicyOf(verbatim, 0, E!NoSanitizer)>>

Mail == <<"a", "a">> \o Address
CutMail == <<"a", "a", "a">> \o Address \* most limits fall into the address
Escaped == [i \in 1 .. 12 |-> "q"]
Long == <<"a", "e", "H", "L", "a", "a", "q", "a">>
CachedData(n) == E!Array(1, <<E!Object(2, <<E!Entry("token", E!Text(Mail)), E!Entry("a", E!Text([i \in 1 .. n |-> "a"]))>>), E!Number(2)>>)
Faults(t) == {E!Thrown("error", <<t>>, t, <<>>, <<t>>, <<>>), E!Thrown("app", <<>>, t, <<<<>>>>, <<>>, <<1>>)}
CachedQuery(t, n, fault) == E!Cached(E!Array(3, <<E!Text(t), E!Number(1)>>),
                                     <<E!Object(4, <<E!Entry("url", E!Text(<<"a", "?", "b">>)), E!Entry("a", E!Text(t))>>)>>, CachedData(n), <<fault>>)
Parts == {"queryClient", "persistedQueries", "context", "query", "mutation", "breadcrumbs", "rest"}
Payload(o, parts, t, k, fault) ==
  LET Has(part, y) == IF part \in parts THEN y ELSE <<>>
      query == CachedQuery(t, k, fault)
      queries == [i \in 1 .. k |-> query]
      click == E!Breadcrumb(<<"utc">>, <<<<"/", "?", "a">>>>, <<t>>, <<t>>, <<E!Object(5, <<E!Entry("a", E!Text(t))>>)>>)
  IN  [reportId |-> <<"uuid">>, sessionId |-> <<"uuid">>, createdUtc |-> <<"utc">>, category |-> "query", application |-> <<"app">>, source |-> t,
       error |-> E!CreateErrorInfo(fault, o), buildId |-> <<t>>, client |-> Has("rest", <<E!Client(<<t>>, <<t>>, <<<<>>>>)>>),
       location |-> <<E!Location(<<"/", "?", "a">>, <<t>>, <<<<"?">> \o Address>>, <<t>>)>>, viewport |-> Has("rest", <<6>>), react |-> Has("rest", <<<<t>>>>),
       query |-> Has("query", <<E!CollectQueryDiagnostics(query, o)>>), mutation |-> Has("mutation", <<E!CollectMutationDiagnostics(query, o)>>),
       queryClient |-> Has("queryClient", <<E!CollectQueryClientDiagnostics(queries, Tail(queries), o)>>),
       persistedQueries |-> Has("persistedQueries", <<E!Each(LAMBDA q : E!CollectPersistedStateDiagnostics(q, t, o), queries)>>),
       breadcrumbs |-> E!GetErrorReportBreadcrumbs(Has("breadcrumbs", [i \in 1 .. k |-> click]), o),
       context |-> Has("context", E!SanitizeDetail(<<E!Object(6, <<E!Entry("a", CachedData(2))>>)>>, o)), truncation |-> <<>>]
Verbatim == PolicyOf(TRUE, 40, E!NoSanitizer)
ErrorPolicies == {Verbatim, PolicyOf(TRUE, -1, <<"throws">>), PolicyOf(FALSE, 40, E!NoSanitizer), E!ResolvedOptions(<<>>, <<"gives", E!Text(Mail)>>)}
\* the diagnostics may have been collected before the policy was changed to that of the capture
Payloads == Asked("payloads") /\ \E o \in ErrorPolicies, t \in {<<"a">>, Long, Mail, CutMail, Escaped}, k \in {1, 4},
                                  parts \in {{}, Parts, {"breadcrumbs", "rest"}, Parts \ {"queryClient", "persistedQueries"}} \cup {{x} : x \in Parts} :
  \E fault \in {f \in Faults(t) : k = 1 \/ f.kind = "error"}, before \in {p \in {o, Verbatim} : k = 1 \/ p = o} : input' = <<Payload(before, parts, t, k, fault), o>>
Clean == area = "payloads" /\ Len(input) = 2 /\ input' = Append(input, E!NormalizePayloadStrings(input[1], input[2])) /\ UNCHANGED area

Marks == {"none", "safe", "unsafe"}
ElementOf(tag, target, ui, usable) ==
  E!Element(tag, [name \in E!Attributes |-> CASE name = "target" -> target [] name \in {"ui", "role"} -> ui [] OTHER -> "none"], usable)
Elements == {ElementOf("div", target, ui, usable) : target \in Marks, ui \in {"none", "safe"}, usable \in BOOLEAN}
Clicks == Asked("clicks") /\ \E path \in UpTo(3, Elements) \ {<<>>} : input' = <<path \o <<ElementOf("body", "none", "none", FALSE), ElementOf("html", "safe", "none", FALSE)>>>>

\* records of two reports, and what may be damaged in them
Report(id) ==
  [reportId |-> id, sessionId |-> <<"uuid">>, createdUtc |-> <<"utc">>, category |-> "query", application |-> <<"app">>, source |-> <<"a">>,
   error |-> E!ErrorInfo(<<"Error">>, <<"a">>, <<>>, <<>>, <<>>), buildId |-> <<>>, client |-> <<>>, location |-> <<>>, viewport |-> <<>>, react |-> <<>>,
   query |-> <<>>, mutation |-> <<>>, queryClient |-> <<>>, persistedQueries |-> <<>>, breadcrumbs |-> <<>>, context |-> <<>>, truncation |-> <<>>]
OwnedBy(record) == [record EXCEPT !.lease = <<E!LeaseOf(<<"a">>, <<2>>)>>, !.failure = <<E!FailureOf(<<1>>, "http", <<599>>)>>]
Damaged(owned) ==
  {[owned EXCEPT !.version = 2], [owned EXCEPT !.reportId = <<"other uuid">>], [owned EXCEPT !.attempts = -1], [owned EXCEPT !.payload.source = <<>>],
   [owned EXCEPT !.enqueued = <<>>], [owned EXCEPT !.expires = <<>>], [owned EXCEPT !.next = <<>>], [owned EXCEPT !.lease[1].owner = <<>>],
   [owned EXCEPT !.lease[1].expires = <<>>], [owned EXCEPT !.failure[1].kind = "other"], [owned EXCEPT !.failure[1].status = <<600>>]}
StoredBeside(record) == {record, [record EXCEPT !.reportId = <<"other uuid">>, !.payload.reportId = <<"other uuid">>], OwnedBy(record)} \cup Damaged(OwnedBy(record))
Records == Asked("records") /\ \E stored \in UpTo(3, StoredBeside(E!NewQueueRecord(Report(<<"uuid">>), 1, 3))), now \in {1, 4} : input' = <<stored, now>>
Owners == {<<>>, <<" ">>, <<" ", "a">>, <<"a", " ", "b">>, <<"a", "b", " ">>}
Retries == Asked("retries") /\ \E id \in E!Uuids \cup {<<"a">>}, ttl \in {1, 3}, owner \in Owners, next \in {<<>>, <<2>>}, utc \in {<<>>, <<1>>},
                              kind \in {"timeout", "other"}, status \in {<<>>, <<0>>, <<100>>, <<600>>} :
  input' = <<Report(id), ttl, owner, E!Retry(next, E!FailureOf(utc, kind, status))>>

-----------------------------------------------------------------------------
Next ==
  \/ Choose
  \/ Filters \/ Ranges \/ Chains
  \/ Columns \/ Documents \/ Sorts \/ Sql \/ Parameters \/ ReadValues \/ Dictionary
  \/ Formulas \/ ResolveStates \/ ExecuteCells \/ Graphs \/ CopyConfigs \/ ShowFields
  \/ Periods \/ Weeks \/ Instants \/ CalendarDays \/ Formats \/ Patterns \/ Shown \/ Typed
  \/ Texts \/ Forms \/ Payloads \/ Clean \/ Clicks \/ Records \/ Retries
Spec == Init /\ [][Next]_vars

(* The filters a user sets reach the service as they were meant: the text  *)
(* of $filter selects the rows of the expression, the columns it reads are *)
(* those announced to the dictionaries, cleaning twice is cleaning once,   *)
(* a range beside it asks for its bounds (an only bound of 0, FALSE or ""  *)
(* is lost), and of a chain of segments only the deepest is sent.          *)
FiltersAgree ==
  /\ Given("filters") =>
       LET e == F!CompileFiltersToExpression(<<input[1]>>, [i \in {Id} |-> input[2]])
           twice == F!MergeFilterExpressions(e, F!CreateFilterBetween(d, F!Number("1"), F!None))
       IN  /\ F!ColumnsAnnounced(input[1], input[2]) /\ F!CleanOnce(input[1], input[2])
           /\ F!WrittenAsMeant(e, F!BuildODataFilter(e)) /\ F!WrittenAsMeant(twice, F!BuildODataFilterRecursive(twice))
  /\ Given("ranges") =>
       LET e == F!MergeFilterExpressions(F!CompileFiltersToExpression(<<input[1]>>, [i \in {Id} |-> input[2]]),
                                         F!CreateFilterBetween(d, input[3], input[4]))
       IN  /\ F!RangeIsAsked(d, input[3], input[4])
           /\ F!WrittenAsMeant(e, F!BuildODataFilter(e)) /\ F!WrittenAsMeant(e, F!BuildODataFilterRecursive(e))
  /\ Given("chains") => F!OnlyDeepestKept(input[1], input[2], input[3])

(* What is read of a service and asked of it: codes and texts are linked   *)
(* in pairs, sets are exposed, parameters and values are sent as given,    *)
(* the sorting shown is the sorting asked for, a dictionary keeps all.     *)
QueriesAgree ==
  /\ Given("columns") => M!LinksAreColumns(input[1]) /\ M!LinksArePairs(input[1])
  /\ Given("documents") => M!SetsAreReached(input[1]) /\ M!ParametersAreMarked(input[1])
  /\ Given("sorts") => Q!SortsAreShown(input[1], input[2])
  /\ Given("sql") => Q!SqlSelectsAsMeant(input[1])
  /\ Given("parameters") => Q!ParametersAreSent(input[1], input[2], input[3])
  /\ Given("values") => Q!ReadValuesAreSendable(input[1], input[2])
  /\ Given("dictionary") => Q!DictionaryIsExact(input[1], <<"K", "T">>, input[2], input[3]) /\ Q!PairsAreDisjoint(input[4])

(* A pipeline of formatters is accepted as drawn, runs in that order, and  *)
(* reads what it declares; states and derived values come of data that is  *)
(* there, copies do the same, formulas are called alike by all.            *)
PipelinesAgree ==
  /\ Given("formulas") => LET registry == G!Registry(<<[id |-> left, formula |-> input[1]]>>)
                          IN  G!CallersAgree(registry, V!Padded("k"), input[2], input[3])
                                /\ G!ProbesSuffice(registry, left, input[2], input[3], V!Number(9))
  /\ Given("resolvers") => /\ P!ResolversAreTheirOwn(input[1], input[2])
                           /\ \A i \in DOMAIN input[1] : input[1][i].kind = "threshold" => P!StateIsOfItsSegment(input[1][i], input[2])
  /\ Given("graphs") => P!PathIsWhole(input[1])
  /\ Given("cells") => P!OnlyDeclaredFieldsAreRead(input[1], input[2], input[3], V!Number(9)) /\ P!StatesAreOfData(input[1], input[2], input[3])
  /\ Given("copies") => P!CopiesAgree(input[1][1], "number", input[2])
  /\ Given("fields") => P!DerivedIsNeverRaw(input[1], input[2], V!Text("other"))

(* A date written in any format or pattern is read back as the same date   *)
(* at the precision of the field, an instant is the same one in every text *)
(* of it, no text is read as a day that is not its own, and the periods    *)
(* and weeks of a calendar hold exactly their days.                        *)
DatesAgree ==
  /\ Given("periods") => D!PeriodIsOfItsDays(input[1], input[2], input[3]) /\ D!RangesAreOrdered(input[1])
  /\ Given("weeks") => D!WeekIsChosen(input[1], input[2])
  /\ Given("instants") => D!SameMoment(input[1], input[2]) /\ D!TimeComesBack(input[1])
  /\ Given("days") => D!NoOtherDay(input[1], input[2], input[3], input[4])
  /\ Given("formats") => D!ReadsWhatItWrites(input[1], input[2], input[3])
  /\ Given("patterns") => D!PatternReadsWhatItWrites(input[1], input[2], input[3])
  /\ Given("shown") => D!SegmentsReadWhatTheyShow(input[1], input[2], input[3])
  /\ Given("typed") => D!SegmentsShowWhatIsTyped(input[1], input[2], input[3])

(* What is reported of an error is bounded, accepted where it is stored,   *)
(* tells no secrets unless the application asks for values verbatim (but   *)
(* for the half of an address which the limit of a text cuts in two), and  *)
(* says what was left out; the stored queue loses no report to the damage  *)
(* of another and reads again what it wrote.                               *)
ReportsAgree ==
  /\ Given("texts") => E!TextsAreBounded(input[1], input[2], input[3])
  /\ Given("forms") => E!ValuesAreSafe(input[1], input[2], input[3]) /\ E!PreviewIsExact(input[1], input[2]) /\ E!ShapeTellsNoData(input[1])
  /\ Given("payloads") /\ Len(input) = 3 => E!PayloadsAgree(input[1], input[3], input[2])
  /\ Given("clicks") => E!ClickIsNamed(input[1])
  /\ Given("records") => E!QueueKeepsReports(input[1], input[2])
  /\ Given("retries") => E!QueueReadsWhatItWrites(input[1], 1, input[2], input[3], input[4])
=============================================================================
