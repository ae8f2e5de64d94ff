---------------------------- MODULE ODataQueries ----------------------------
(***************************************************************************)
(* src/odata-service: what the tables and reports send to a service, the   *)
(* order of rows (sorts.ts), the parameters (builder.ts, formatters.ts,    *)
(* schema.ts), the SQL-like filter of a report (sqlFilters.ts), and what   *)
(* they make of a dictionary they get back (findCollectionPairs.ts,        *)
(* buildSeparatedArrays.ts).                                               *)
(*                                                                         *)
(* Abstraction.  Values and tokens are those of ODataFilters and column    *)
(* ids those of ODataMetadata.  A literal is in quotes or not and has a    *)
(* length; the text of a dictionary is a sequence of characters.           *)
(***************************************************************************)
EXTENDS ODataFilters
Columns == INSTANCE ODataMetadata

-----------------------------------------------------------------------------
(* Sorting: a sequence of sorts, each of a column *)

Sort(key, desc) == [key |-> key, desc |-> desc]
GetSortIndex(sorting, key) ==
  IF \E i \in DOMAIN sorting : sorting[i].key = key
  THEN CHOOSE i \in DOMAIN sorting : sorting[i].key = key /\ \A j \in 1 .. i - 1 : sorting[j].key # key ELSE 0

WrongToggleSort(sorting, key, multi) == \* the other columns stay sorted without the key held
  LET i == GetSortIndex(sorting, key)
  IN  CASE i = 0 -> Append(sorting, Sort(key, FALSE))
        [] i # 0 /\ ~ sorting[i].desc -> [sorting EXCEPT ![i].desc = TRUE]
        [] OTHER -> SelectSeq(sorting, LAMBDA s : s.key # key)
\* A click on a column: none, ascending, descending, none.
ToggleSort(sorting, key, multi) ==
  LET i == GetSortIndex(sorting, key)
      base == IF multi THEN sorting ELSE SelectSeq(sorting, LAMBDA s : s.key = key)
  IN  CASE i = 0 -> Append(base, Sort(key, FALSE))
        [] i # 0 /\ ~ sorting[i].desc -> [j \in DOMAIN base |-> IF base[j].key = key THEN Sort(key, TRUE) ELSE base[j]]
        [] OTHER -> SelectSeq(base, LAMBDA s : s.key # key)

ResolveEffectiveSorts(grouping, sorting) ==
  IF sorting # <<>> THEN sorting ELSE [i \in DOMAIN grouping |-> Sort(grouping[i], FALSE)]
BuildODataOrderBy(grouping, sorting) ==
  LET sorts == ResolveEffectiveSorts(grouping, sorting) IN [i \in DOMAIN sorts |-> <<sorts[i].key, IF sorts[i].desc THEN "desc" ELSE "asc">>]

GetSortIndicator(grouping, sorting, key) ==
  LET grouped == GetSortIndex([i \in DOMAIN grouping |-> Sort(grouping[i], FALSE)], key)
      sorted == GetSortIndex(sorting, key)
  IN  CASE sorting = <<>> /\ grouped # 0 -> [order |-> grouped, desc |-> FALSE, locked |-> TRUE]
        [] sorted # 0 -> [order |-> sorted, desc |-> sorting[sorted].desc, locked |-> FALSE]
        [] OTHER -> [order |-> 0, desc |-> FALSE, locked |-> FALSE]

-----------------------------------------------------------------------------
(* Values and literals *)

DateTypes == {"datetime", "datetimeOffset", "time"}
WholeTypes == {"int", "long", "byte"}
NumericTypes == WholeTypes \cup {"float", "decimal", "double"}
GetBaseTypeFromScalarType(type) ==
  CASE type = "boolean" -> "boolean" [] type \in NumericTypes -> "number" [] type \in DateTypes -> "date" [] OTHER -> "string"

Hexadecimal == {"a", "b", "1"}
\* odataTypeSchemas: the values a type takes.
Accepts(type, x) ==
  CASE type \in {"string", "binary"} -> x.t = "text"
    [] type = "guid" -> x.t = "text" /\ x.v \in Hexadecimal
    [] type = "boolean" -> x.t = "boolean"
    [] type = "byte" -> x.t = "number" /\ x.v \in {"0", "1", "255"}
    [] type \in WholeTypes \ {"byte"} -> x.t = "number" /\ x.v \notin {"1.5", "NaN"}
    [] type \in NumericTypes \ WholeTypes -> x.t = "number" /\ x.v # "NaN"
    [] OTHER -> x.t = "date" /\ x.v # "NaN"

\* The length of a text and, with its apostrophes doubled, of its literal.
Length == [a |-> 1, b |-> 1, ab |-> 2, c |-> 1, d |-> 1, quote |-> 1]
LengthOf(x) == IF x.t = "text" /\ x.v \in DOMAIN Length THEN Length[x.v] ELSE IF x = Blank THEN 0 ELSE 3
Escaped(x) == LengthOf(x) + (IF x = Text("quote") THEN 1 ELSE 0)
Refused == [error |-> TRUE]
Literal(quoted, length, x) == [error |-> FALSE, quoted |-> quoted, length |-> length, of |-> x]
\* The literal of a type: of a text and of a boolean in plain quotes, of the others with a prefix, a suffix or bare.
FormatValidValue(type, x) ==
  CASE type = "string" -> Literal(TRUE, Escaped(x), x)
    [] type = "boolean" -> Literal(TRUE, 1, x)
    [] OTHER -> Literal(FALSE, 0, x)
OdataFormatValue(type, x) == IF Accepts(type, x) THEN FormatValidValue(type, x) ELSE Refused

\* The formatters of a control, by its base type; each takes one value of the type it is for.
Formatters ==
  [date |-> {"base", "datetimeOffset", "time", "stringAbapDate"}, boolean |-> {"base", "asChar", "asByte"}, string |-> {"base"}]
GetFormattersForBaseType(base) == IF base \in DOMAIN Formatters THEN Formatters[base] ELSE {}
GetFormattersFor(type) == GetFormattersForBaseType(GetBaseTypeFromScalarType(type))
CreateFormatter(base, id, x) ==
  CASE base = "date" /\ Accepts("datetime", x) /\ id = "stringAbapDate" -> Literal(TRUE, 8, x)
    [] base = "date" /\ Accepts("datetime", x) /\ id # "stringAbapDate" -> Literal(FALSE, 0, x)
    [] base = "boolean" /\ Accepts("boolean", x) -> Literal(id # "asByte", 1, x)
    [] base = "string" /\ Accepts("string", x) -> Literal(TRUE, Escaped(x), x)
    [] OTHER -> Refused

TryParseBooleanValue(x) ==
  CASE x.t = "boolean" -> x
    [] x.t = "number" /\ x.v \in {"0", "1"} -> Boolean(IF x.v = "1" THEN "true" ELSE "false")
    [] x.t = "text" /\ (x = Text("X") \/ x.v \in {"true", "1"}) -> Boolean("true")
    [] x.t = "text" /\ (x = Blank \/ x.v \in {"space", "false", "0"}) -> Boolean("false")
    [] OTHER -> None
TryParseAbapBooleanLikeValue(x) ==
  CASE x = None -> Boolean("false") [] x \in {Text("X"), Text("space"), Blank} -> Boolean(IF x.v = "X" THEN "true" ELSE "false") [] OTHER -> None
\* parseNumber: 0 for what is not a number; a number of a text is external to this module.
ReadNumber(x) == IF x.t = "number" /\ x.v # "NaN" THEN x ELSE IF x.t = "text" /\ x.v \in {"0", "1", "1.5", "255"} THEN Number(x.v) ELSE Number("0")
\* parseDate (DateParsing): none for what is not a date.
ReadDate(x) == IF x.t = "date" /\ x.v # "NaN" THEN x ELSE None
OdataParseValue(type, x) ==
  CASE type = "boolean" -> IF TryParseBooleanValue(x) # None THEN TryParseBooleanValue(x) ELSE x
    [] type \in NumericTypes -> ReadNumber(x)
    [] type \in DateTypes -> ReadDate(x)
    [] OTHER -> IF x.t = "text" THEN x ELSE Text("written")
OdataParseValueByMetadata(type, abapBooleanLike, x) ==
  LET flag == TryParseAbapBooleanLikeValue(x) IN IF abapBooleanLike /\ flag # None THEN flag ELSE OdataParseValue(type, x)
DefaultODataTypeValue(type) ==
  CASE type = "boolean" -> Boolean("false") [] type \in NumericTypes -> Number("0") [] type \in DateTypes -> Date("2026") [] OTHER -> Blank
DefaultControlTypeValue(base) ==
  CASE base = "boolean" -> Boolean("false") [] base = "number" -> Number("0") [] base = "date" -> Date("2026") [] OTHER -> Blank

-----------------------------------------------------------------------------
(* Parameters *)

Parameter(id, type, maxLength, mandatory) == [id |-> id, type |-> type, maxLength |-> maxLength, mandatory |-> mandatory]
\* a value and the formatter the caller gave for it, or "none"
Given(value, formatter) == [value |-> value, formatter |-> formatter]

\* A limit (0 for none) is of the text between plain quotes, with its apostrophes doubled.
ValidFormattedLength(literal, maxLength) == maxLength = 0 \/ (literal.quoted /\ literal.length <= maxLength)

ValueOf(params, p) == IF p.id \in DOMAIN params THEN params[p.id].value ELSE None
FormattedParameter(p, given) ==
  LET literal == IF given.formatter # "none" THEN CreateFormatter(GetBaseTypeFromScalarType(p.type), given.formatter, given.value)
                 ELSE OdataFormatValue(p.type, given.value)
  IN  IF literal.error \/ ~ ValidFormattedLength(literal, p.maxLength) THEN Refused ELSE literal

BuildParameterEntries(parameters, params) ==
  LET given == SelectSeq(parameters, LAMBDA p : ValueOf(params, p) # None)
      entries == [i \in DOMAIN given |-> <<given[i].id, FormattedParameter(given[i], params[given[i].id])>>]
  IN  IF \/ \E i \in DOMAIN parameters : parameters[i].mandatory /\ ValueOf(params, parameters[i]) = None
         \/ \E i \in DOMAIN entries : entries[i][2].error
      THEN Refused
      ELSE [error |-> FALSE, entries |-> entries]

\* The path of an operation on a set: what it carries of the parameters, and whether it goes on to the results.
BuildEntityPath(metadata, params) == [parameters |-> BuildParameterEntries(metadata.parameters, params), navigation |-> metadata.result]
BarePath == [parameters |-> [error |-> FALSE, entries |-> <<>>], navigation |-> "none"]
BuildEntityOperationPath(metadata, params, method) ==
  CASE method = "create" \/ (method = "query" /\ metadata.result = "none") -> BarePath
    [] method = "query" /\ metadata.result # "none" -> BuildEntityPath(metadata, params)
    [] OTHER -> [BuildEntityPath(metadata, params) EXCEPT !.navigation = "none"]

\* unwrapODataParams: the keys in order, null for a value that is not there.
WrapODataParams(params) == [id \in DOMAIN params |-> Given(params[id], "none")]
UnwrapODataParams(params) == [id \in DOMAIN params |-> params[id].value]

-----------------------------------------------------------------------------
(* The SQL-like filter.  A node is a condition, of one value or of a list, *)
(* or a group.                                                             *)

CreateSqlFilterEqual(field, x) == [operation |-> "eq", field |-> field, values |-> <<x>>, or |-> FALSE, nodes |-> <<>>]
CreateSqlFilterIn(field, xs) == [operation |-> "in", field |-> field, values |-> xs, or |-> FALSE, nodes |-> <<>>]
CreateSqlFilterGroup(nodes, or) == [operation |-> "group", field |-> "", values |-> <<>>, or |-> or, nodes |-> nodes]

FieldIds == {"f", "g"}
NormalizeSqlFilterValue(x) ==
  CASE x.t = "text" /\ x.v # "" -> <<x>> [] x.t = "number" /\ x.v # "NaN" -> <<x>> [] x.t = "boolean" -> <<x>> [] OTHER -> <<>>
SqlLiterals(node) == FlattenSeq([i \in DOMAIN node.values |-> NormalizeSqlFilterValue(node.values[i])])
SqlCondition(node) == [k |-> "condition", key |-> node.field, operation |-> node.operation, value |-> SqlLiterals(node)]

RECURSIVE BuildSqlFilterExpression(_)
BuildSqlFilterExpression(node) ==
  LET nested == SelectSeq([i \in DOMAIN node.nodes |-> BuildSqlFilterExpression(node.nodes[i])], LAMBDA s : s # <<>>)
  IN  CASE node.operation = "group" -> IF nested = <<>> THEN <<>> ELSE Parenthesised(Joined(IF node.or THEN "or" ELSE "and", nested))
        [] node.operation # "group" /\ \E i \in DOMAIN node.values : node.values[i].t = "date" -> <<Token("error")>>
        [] node.operation # "group" /\ SqlLiterals(node) = <<>> -> <<>>
        [] OTHER -> IF node.field \in FieldIds THEN <<SqlCondition(node)>> ELSE <<Token("error")>>
BuildSqlFilter(nodes) ==
  Joined("and", SelectSeq([i \in DOMAIN nodes |-> BuildSqlFilterExpression(nodes[i])], LAMBDA s : s # <<>>))

-----------------------------------------------------------------------------
(* Dictionaries *)

\* The fields of a row in order: a text column and its code make a pair, each field in one pair at most.
FindCollectionPairs(fields) ==
  LET Add(pairs, field) ==
        LET code == Columns!WithoutTextSuffix(field)
            used == UNION {{p[1], p[2]} : p \in ToSet(pairs)}
        IN  IF code # <<>> /\ Contains(fields, code) /\ {field, code} \cap used = {} THEN Append(pairs, <<code, field>>) ELSE pairs
  IN  FoldLeft(Add, <<>>, fields)

\* String(item[key]): a missing value is written too.
Written(item, key) == IF key \in DOMAIN item THEN item[key] ELSE <<"undefined">>
UniqueKey(code, text) == code \o <<"|">> \o text
\* compareStrings orders the texts in use by their first character.
CharacterOrder == <<"1", "2", "a", "b", "undefined">>
Rank(text) == IF text = <<>> THEN 0 ELSE CHOOSE i \in DOMAIN CharacterOrder : CharacterOrder[i] = text[1]

SeparatedArray(items, pair, excludeEmpty, sortByCode) ==
  LET Add(rows, item) ==
        LET code == Written(item, pair[1])
            text == Written(item, pair[2])
            seen == \E i \in DOMAIN rows : UniqueKey(rows[i].code, rows[i].text) = UniqueKey(code, text)
        IN  IF (excludeEmpty /\ text = <<>>) \/ seen THEN rows ELSE Append(rows, [code |-> code, text |-> text])
      rows == FoldLeft(Add, <<>>, items)
      Key(row) == Rank(IF sortByCode THEN row.code ELSE row.text)
      order == SetToSortSeq(DOMAIN rows, LAMBDA i, j : Key(rows[i]) < Key(rows[j]) \/ (Key(rows[i]) = Key(rows[j]) /\ i < j))
  IN  IF items = <<>> \/ ~ {pair[1], pair[2]} \subseteq DOMAIN items[1] THEN <<>> ELSE [i \in DOMAIN order |-> rows[order[i]]]
BuildSeparatedArrays(items, pairs, excludeEmpty, sortByCode) ==
  [code \in {p[1] : p \in ToSet(pairs)} |->
     SeparatedArray(items, CHOOSE p \in ToSet(pairs) : p[1] = code, excludeEmpty, sortByCode)]

-----------------------------------------------------------------------------
(* What the queries promise *)

\* However a user clicks, a column is sorted by once, a plain click leaves no other column,
\* three clicks on a new column with the key held bring the sorting back, and the headers show what is asked of the service.
SortsAreShown(grouping, clicks) ==
  LET sorting == FoldLeft(LAMBDA s, click : ToggleSort(s, click[1], click[2]), <<>>, clicks)
      order == BuildODataOrderBy(grouping, sorting)
      keys == {s.key : s \in ToSet(sorting)} \cup {click[1] : click \in ToSet(clicks)} \cup ToSet(grouping)
      Thrice(key) == ToggleSort(ToggleSort(ToggleSort(sorting, key, TRUE), key, TRUE), key, TRUE)
  IN  /\ \A i, j \in DOMAIN order : order[i][1] = order[j][1] => i = j
      /\ \A key \in keys :
           LET shown == GetSortIndicator(grouping, sorting, key)
           IN  /\ shown.order = 0 <=> \A i \in DOMAIN order : order[i][1] # key
               /\ shown.order # 0 => order[shown.order] = <<key, IF shown.desc THEN "desc" ELSE "asc">>
      /\ clicks # <<>> /\ ~ Last(clicks)[2] => {s.key : s \in ToSet(sorting)} \subseteq {Last(clicks)[1]}
      /\ \A key \in keys : GetSortIndex(sorting, key) = 0 => Thrice(key) = sorting

\* The rows a filter of nodes selects: a node without a value counts for nothing.
RECURSIVE SqlConditionsOf(_)
SqlConditionsOf(node) ==
  IF node.operation = "group" THEN UNION {SqlConditionsOf(node.nodes[i]) : i \in DOMAIN node.nodes}
  ELSE IF SqlLiterals(node) = <<>> THEN {} ELSE {node}
RECURSIVE SqlSelects(_, _)
SqlSelects(node, holding) ==
  LET parts == {i \in DOMAIN node.nodes : SqlConditionsOf(node.nodes[i]) # {}}
  IN  CASE node.operation # "group" -> node \in holding
        [] node.operation = "group" /\ node.or -> \E i \in parts : SqlSelects(node.nodes[i], holding)
        [] OTHER -> \A i \in parts : SqlSelects(node.nodes[i], holding)
SqlSelectsAsMeant(nodes) ==
  LET tokens == BuildSqlFilter(nodes)
      whole == CreateSqlFilterGroup(nodes, FALSE)
      conditions == SqlConditionsOf(whole)
      AsTokens(holding) == {FilterCondition(n.field, n.operation, SqlLiterals(n)) : n \in holding}
  IN  \/ \E i \in DOMAIN tokens : tokens[i].k = "error"
      \/ /\ tokens = <<>> <=> conditions = {}
         /\ tokens # <<>> => \A holding \in SUBSET conditions : Reads(tokens, AsTokens(holding)) <=> SqlSelects(whole, holding)

\* What is sent is what was given and is known, once each; nothing is sent without a mandatory value or past a limit.
ParametersAreSent(metadata, params, method) ==
  LET Sent(path, sent, wanted) ==
      IF sent.error THEN \/ \E p \in ToSet(metadata.parameters) \ wanted : p.mandatory
                         \/ \E p \in wanted : FormattedParameter(p, params[p.id]).error
      ELSE /\ path # BarePath => /\ {e[1] : e \in ToSet(sent.entries)} = {p.id : p \in wanted}
                                 /\ Len(sent.entries) = Cardinality(wanted)
           /\ path.navigation # "none" => method = "query"
           /\ \A i \in DOMAIN sent.entries, p \in ToSet(metadata.parameters) :
                p.id = sent.entries[i][1] => sent.entries[i][2].of = params[p.id].value
                                               /\ (p.maxLength # 0 => LengthOf(params[p.id].value) <= p.maxLength \/ params[p.id].value.t # "text")
      Holds(path) == Sent(path, path.parameters, {p \in ToSet(metadata.parameters) : ValueOf(params, p) # None})
  IN  Holds(BuildEntityOperationPath(metadata, params, method))

\* A value read from the service, and the value a new row starts with, can be sent back (but for a GUID, which starts empty).
ReadValuesAreSendable(type, x) ==
  LET read == OdataParseValue(type, x)
  IN  /\ type # "guid" => Accepts(type, DefaultODataTypeValue(type))
      /\ Accepts(type, x) => read = x
      /\ type \in {"float", "decimal", "double"} => Accepts(type, read)
      /\ \A id \in GetFormattersFor(type) : GetBaseTypeFromScalarType(type) # "string" /\ Accepts(type, x) =>
           ~ CreateFormatter(GetBaseTypeFromScalarType(type), id, x).error

PairsAreDisjoint(fields) ==
  LET pairs == FindCollectionPairs(fields)
      used == UNION {{p[1], p[2]} : p \in ToSet(pairs)}
  IN  /\ \A i, j \in DOMAIN pairs : i # j => {pairs[i][1], pairs[i][2]} \cap {pairs[j][1], pairs[j][2]} = {}
      /\ \A f \in ToSet(fields) \ used : Columns!HasTextSuffix(f) => Columns!WithoutTextSuffix(f) \notin ToSet(fields) \ used

\* A dictionary keeps every pair of a code and a text once, in order of what it is sorted by.
DictionaryIsExact(items, pair, excludeEmpty, sortByCode) ==
  LET all == {[code |-> Written(item, pair[1]), text |-> Written(item, pair[2])] : item \in ToSet(items)}
      Key(row) == Rank(IF sortByCode THEN row.code ELSE row.text)
      Exact(rows) ==
        /\ ToSet(rows) = {r \in all : ~ excludeEmpty \/ r.text # <<>>}
        /\ Len(rows) = Cardinality(ToSet(rows))
        /\ \A i, j \in DOMAIN rows : i < j => Key(rows[i]) <= Key(rows[j])
  IN  items # <<>> /\ {pair[1], pair[2]} \subseteq DOMAIN items[1] =>
        Exact(BuildSeparatedArrays(items, <<pair>>, excludeEmpty, sortByCode)[pair[1]])
=============================================================================
