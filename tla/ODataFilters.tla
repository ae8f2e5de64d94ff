---------------------------- MODULE ODataFilters ----------------------------
(***************************************************************************)
(* src/odata-service/filterDefinitions.ts and filters.ts: the definitions  *)
(* of the filters of a view and the values a user gave them are cleaned,   *)
(* compiled to an expression, and the expression is written as an OData    *)
(* $filter.                                                                *)
(*                                                                         *)
(* Abstraction.  A scalar is a record with its JavaScript type "t", its    *)
(* value "v" and, for a text, whether it carries surrounding blanks; ids   *)
(* and columns are texts.  An undefined group is a group with no           *)
(* condition (the code tests both at once).  A $filter is the sequence of  *)
(* its tokens: a condition, a parenthesis or a logical operator.           *)
(***************************************************************************)
EXTENDS Integers, Sequences, FiniteSets, SequencesExt

\* [...new Set(s)]: the first of each.
Distinct(s) == FoldLeft(LAMBDA seen, x: IF Contains(seen, x) THEN seen ELSE Append(seen, x), <<>>, s)

-----------------------------------------------------------------------------
(* Values *)

Text(v) == [t |-> "text", v |-> v, pad |-> FALSE]
Padded(v) == [t |-> "text", v |-> v, pad |-> TRUE]
Number(v) == [t |-> "number", v |-> v, pad |-> FALSE]
Boolean(v) == [t |-> "boolean", v |-> v, pad |-> FALSE]
Date(v) == [t |-> "date", v |-> v, pad |-> FALSE]
Array(items) == [t |-> "array", items |-> items]
\* a tree value: the entries of an object, columns with arrays
TreeValue(entries) == [t |-> "tree", entries |-> entries]
None == [t |-> "none"]

Blank == Text("")
Trim(x) == [x EXCEPT !.pad = FALSE]
ScalarTypes == {"text", "number", "boolean", "date"}

(* serializeBaseValue: the order of "type:value" of the scalars in use.    *)
Serialized == <<Boolean("false"), Boolean("true"), Date("2026"), Number("1"), Number("1.5"), Text(""), Text("a"), Text("b")>>
SerializesBefore(x, y) == \E i, j \in DOMAIN Serialized : i < j /\ Serialized[i] = x /\ Serialized[j] = y

SanitizeScalarValue(x) ==
  CASE x.t = "text" -> Trim(x)
    [] x.t \in ScalarTypes \ {"text"} /\ x.v # "NaN" -> x
    [] OTHER -> None

SanitizeArrayValue(x) ==
  LET Of(kept) == IF kept = {} THEN None ELSE Array(SetToSortSeq(kept, SerializesBefore))
  IN  Of(IF x.t = "array" THEN {SanitizeScalarValue(y) : y \in ToSet(x.items)} \ {None} ELSE {})

SanitizeStringArray(x) ==
  IF x.t # "array" THEN <<>>
  ELSE LET texts == SelectSeq(x.items, LAMBDA y : y.t = "text" /\ y.v # "")
       IN  Distinct([i \in DOMAIN texts |-> Trim(texts[i])])

\* x ?? y
OrElse(x, default) == IF x # None THEN x ELSE default
ScalarOrElse(x, default) == OrElse(SanitizeScalarValue(x), default)
ArrayOrElse(x, default) == OrElse(SanitizeArrayValue(x), default)

\* Object.fromEntries: a later entry of a column replaces the value of the earlier one.
WithEntry(entries, column, items) ==
  IF \E i \in DOMAIN entries : entries[i].column = column
  THEN [i \in DOMAIN entries |-> IF entries[i].column = column THEN [entries[i] EXCEPT !.value = Array(items)] ELSE entries[i]]
  ELSE Append(entries, [column |-> column, value |-> Array(items)])

SanitizeTreeFilterValue(x) ==
  IF x.t # "tree" THEN None
  ELSE LET With(acc, e, items) == IF e.column.v = "" \/ items = <<>> THEN acc ELSE WithEntry(acc, Trim(e.column), items)
           Of(entries) == IF entries = <<>> THEN None ELSE TreeValue(entries)
       IN  Of(FoldLeft(LAMBDA acc, e : With(acc, e, SanitizeStringArray(e.value)), <<>>, x.entries))

\* The selected values of a column of a cleaned tree value.
Selected(tree, column) ==
  LET found == {e \in ToSet(tree.entries) : e.column = column}
  IN  IF found = {} THEN <<>> ELSE (CHOOSE e \in found : TRUE).value.items

SanitizeFilterValue(x) ==
  ScalarOrElse(x, ArrayOrElse(x, SanitizeTreeFilterValue(x)))

(* The values of a view: a function from filter ids, no two of which       *)
(* differ only by their blanks.                                            *)
SanitizeFilterValues(values) ==
  LET clean == [id \in DOMAIN values |-> SanitizeFilterValue(values[id])]
      kept == {i \in DOMAIN values : i.v # "" /\ clean[i] # None}
  IN  [id \in {Trim(i) : i \in kept} |-> clean[CHOOSE i \in kept : Trim(i) = id]]

MergeFilterValuePatch(values, id, x) ==
  LET Patched(clean, next) ==
        IF next = None THEN [i \in DOMAIN clean \ {id} |-> clean[i]]
        ELSE [i \in DOMAIN clean \cup {id} |-> IF i = id THEN next ELSE clean[i]]
  IN  Patched(SanitizeFilterValues(values), SanitizeFilterValue(x))

-----------------------------------------------------------------------------
(* Definitions *)

Condition(column, operation, source, value) ==
  [column |-> column, operation |-> operation, source |-> source, value |-> value]
Group(and, conditions) == [and |-> and, conditions |-> conditions]
NoGroup == Group("unset", <<>>)
Option(key, filter) == [key |-> key, filter |-> filter]
ListBinding(and, options) == [kind |-> "list", and |-> and, options |-> options, group |-> NoGroup]
GroupBinding(kind, group) == [kind |-> kind, and |-> "unset", options |-> <<>>, group |-> group]
NoBinding == GroupBinding("none", NoGroup)

Definition(kind, id, owner, component) ==
  [kind |-> kind, id |-> id, owner |-> owner, component |-> component, columns |-> <<>>,
   mode |-> "none", level |-> "and", code |-> Blank, binding |-> NoBinding]

CollectConditionGroupColumnIds(group, fallback) ==
  LET columns == [i \in DOMAIN group.conditions |->
                    IF group.conditions[i].column.v # "" THEN Trim(group.conditions[i].column) ELSE fallback]
  IN  SelectSeq(columns, LAMBDA c : c # Blank)

OrFallback(columns, fallback) ==
  IF columns # <<>> THEN columns ELSE IF fallback # Blank THEN <<fallback>> ELSE <<>>

CollectBindingColumnIds(binding, fallback) ==
  LET groups == IF binding.kind = "list" THEN [i \in DOMAIN binding.options |-> binding.options[i].filter]
                ELSE <<binding.group>>
  IN  Distinct(OrFallback(FlattenSeq([i \in DOMAIN groups |-> CollectConditionGroupColumnIds(groups[i], fallback)]), fallback))

ResolveConditionGroupColumnIds(group, fallback) ==
  OrFallback(CollectConditionGroupColumnIds(group, fallback), fallback)

NormalizeDictionaryCodeKey(code, owner) == IF Trim(code) = owner THEN Blank ELSE Trim(code)

SanitizeFilterConditionGroup(group) ==
  LET Of(usable) ==
        IF usable = <<>> THEN NoGroup
        ELSE Group(group.and, [i \in DOMAIN usable |-> [usable[i] EXCEPT !.column = Trim(@), !.value = SanitizeScalarValue(@)]])
  IN  Of(SelectSeq(group.conditions, LAMBDA c : c.source = "input" \/ SanitizeScalarValue(c.value) # None))

SanitizeFilterBinding(binding) ==
  CASE binding.kind = "none" \/ (binding.kind = "list" /\ binding.options = <<>>) -> NoBinding
    [] binding.kind = "list" /\ binding.options # <<>> ->
         [binding EXCEPT !.options = [i \in DOMAIN @ |-> Option(Trim(@[i].key), SanitizeFilterConditionGroup(@[i].filter))]]
    [] OTHER -> [binding EXCEPT !.group = SanitizeFilterConditionGroup(@)]

\* Kinds written by earlier versions of the configuration.
CurrentKind(kind) == CASE kind = "odata-segment" -> "segment" [] kind = "odata-tree" -> "tree" [] OTHER -> kind

\* One definition with its cleaned binding and columns: none or the cleaned one.
CleanDefinition(d, owner, binding, columns) ==
  LET kind == CurrentKind(d.kind)
      owned == [d EXCEPT !.kind = kind, !.id = Trim(@), !.owner = owner]
      bound == CollectBindingColumnIds(binding, IF kind = "registered" THEN Blank ELSE owner)
  IN  CASE d.id.v = "" -> <<>>
        [] d.id.v # "" /\ kind = "registered" ->
             IF d.component = "" \/ d.mode \notin {"single", "multiple"} THEN <<>>
             ELSE <<[owned EXCEPT !.owner = d.owner, !.binding = binding, !.columns = IF binding = NoBinding THEN <<>> ELSE bound]>>
        [] d.id.v # "" /\ kind # "registered" /\ owner = Blank -> <<>>
        [] d.id.v # "" /\ owner # Blank /\ kind = "segment" ->
             <<[owned EXCEPT !.columns = <<owner>>, !.code = NormalizeDictionaryCodeKey(@, owner),
                             !.component = IF @ = "select" THEN "select" ELSE "multi-select"]>>
        [] d.id.v # "" /\ owner # Blank /\ kind = "tree" ->
             IF columns = <<>> THEN <<>>
             ELSE <<[owned EXCEPT !.owner = IF Contains(columns, owner) THEN owner ELSE columns[1], !.columns = columns,
                                  !.component = IF @ \in {"treeSelect", "tree-select"} THEN "tree-select" ELSE "tree-multi-select",
                                  !.level = IF @ = "or" THEN "or" ELSE "unset"]>>
        [] d.id.v # "" /\ owner # Blank /\ kind = "local" ->
             IF binding = NoBinding THEN <<>>
             ELSE <<[owned EXCEPT !.binding = binding, !.columns = bound]>>
        [] OTHER -> <<owned>>
SanitizeOne(d) ==
  CleanDefinition(d, Trim(d.owner), SanitizeFilterBinding(d.binding),
                  Distinct(SelectSeq([i \in DOMAIN d.columns |-> Trim(d.columns[i])], LAMBDA c : c # Blank)))

SanitizeFilterDefinitions(ds) == FlattenSeq([i \in DOMAIN ds |-> SanitizeOne(ds[i])])

IsMultipleListFilterDefinition(d) ==
  IF d.kind = "registered" THEN d.mode = "multiple" ELSE d.component = "multi-select"

SanitizeFilterOptionKeys(x) ==
  IF x.t # "array" THEN <<>>
  ELSE LET texts == SelectSeq(x.items, LAMBDA y : y.t = "text") IN Distinct([i \in DOMAIN texts |-> Trim(texts[i])])

ResolveListFilterSelectedKeys(d, x) ==
  IF IsMultipleListFilterDefinition(d) THEN SanitizeFilterOptionKeys(x)
  ELSE SelectSeq(<<SanitizeScalarValue(x)>>, LAMBDA y : y.t = "text")

\* options.find: none or the first option with the key.
FindOption(options, key) ==
  LET First(found) == SubSeq(found, 1, IF found = <<>> THEN 0 ELSE 1) IN First(SelectSeq(options, LAMBDA o : o.key = key))

-----------------------------------------------------------------------------
(* The columns a definition and its value touch *)

ResolveODataFilterDefinitionColumnIds(d) ==
  LET Of(clean) == CASE clean = <<>> -> <<>>
                     [] clean # <<>> /\ clean[1].kind \in {"segment", "column", "advanced"} -> <<clean[1].owner>>
                     [] OTHER -> clean[1].columns
  IN  Of(SanitizeFilterDefinitions(<<d>>))

\* Of a clean definition and a clean value.
ActiveColumnIds(n, value) ==
  LET ColumnsOf(group) == ResolveConditionGroupColumnIds(group, IF n.kind = "local" THEN n.owner ELSE Blank)
      OfTree(tree) == IF tree = None THEN <<>>
                      ELSE SelectSeq([i \in DOMAIN tree.entries |-> tree.entries[i].column], LAMBDA c : Contains(n.columns, c))
      OfOption(o) == IF o = <<>> THEN <<>> ELSE ColumnsOf(o[1].filter)
      OfKeys(keys) == Distinct(FlattenSeq([i \in DOMAIN keys |-> OfOption(FindOption(n.binding.options, keys[i]))]))
  IN  CASE n.kind \in {"segment", "column", "advanced"} -> <<n.owner>>
        [] n.kind = "tree" -> OfTree(SanitizeTreeFilterValue(value))
        [] n.kind \in {"local", "registered"} /\ n.binding.kind = "list" -> OfKeys(ResolveListFilterSelectedKeys(n, value))
        [] n.kind \in {"local", "registered"} /\ (n.binding.kind = "value" \/ (n.binding.kind = "boolean" /\ value = Boolean("true"))) ->
             ColumnsOf(n.binding.group)
        [] OTHER -> <<>>
ResolveODataFilterDefinitionActiveColumnIds(d, x) ==
  LET Of(clean, value) == IF clean = <<>> \/ value = None THEN <<>> ELSE ActiveColumnIds(clean[1], value)
  IN  Of(SanitizeFilterDefinitions(<<d>>), SanitizeFilterValue(x))

-----------------------------------------------------------------------------
(* Compilation.  An expression has the form "conditions", "filters" or     *)
(* "none" (undefined).                                                     *)

NoExpression == [form |-> "none", and |-> FALSE, parts |-> <<>>]
Conditions(and, parts) == [form |-> "conditions", and |-> and, parts |-> parts]
Filters(and, parts) == [form |-> "filters", and |-> and, parts |-> parts]
FilterCondition(key, operation, value) == [key |-> key, operation |-> operation, value |-> value]

Defined(expressions) == SelectSeq(expressions, LAMBDA e : e # NoExpression)
\* No filter is undefined, one stands for itself, more are nested.
Combined(and, expressions) ==
  LET Of(filters) == CASE Len(filters) = 0 -> NoExpression [] Len(filters) = 1 -> filters[1] [] OTHER -> Filters(and, filters)
  IN  Of(Defined(expressions))

ExpressionOrElse(expression, default) == IF expression # NoExpression THEN expression ELSE default

\* createFilter: a list of values is a disjunction.
CreateFilter(key, values, operation) ==
  Conditions(FALSE, [i \in DOMAIN values |-> FilterCondition(key, operation, values[i])])
CreateFilterEqual(key, values) == CreateFilter(key, values, "eq")

\* What JavaScript takes for true.
Truthy(x) == x # None /\ x \notin {Blank, Number("0"), Number("NaN"), Boolean("false")}

\* The only bound counts when it is truthy: 0 alone makes no condition.
CreateFilterBetween(key, low, high) ==
  LET from == FilterCondition(key, "ge", low)
      to == FilterCondition(key, "le", high)
      both == low # None /\ high # None
  IN  CASE both -> Conditions(TRUE, <<from, to>>)
        [] ~both /\ Truthy(low) -> Conditions(FALSE, <<from>>)
        [] ~both /\ ~Truthy(low) /\ Truthy(high) -> Conditions(FALSE, <<to>>)
        [] OTHER -> Conditions(FALSE, <<>>)

ResolveExpressionValue(condition, input) ==
  SanitizeScalarValue(IF condition.source = "input" THEN input ELSE condition.value)

CompileCondition(owner, condition, input) ==
  LET With(key, value) == IF value = None \/ key = Blank THEN <<>> ELSE <<FilterCondition(key, condition.operation, value)>>
  IN  With(IF condition.column.v # "" THEN Trim(condition.column) ELSE owner, ResolveExpressionValue(condition, input))

CompileConditionGroup(owner, group, input) ==
  LET Of(conditions) == IF conditions = <<>> THEN NoExpression ELSE Conditions(group.and # "no", conditions)
  IN  Of(FlattenSeq([i \in DOMAIN group.conditions |-> CompileCondition(owner, group.conditions[i], input)]))

CompileDefaultBooleanFilter(owner) == CreateFilterEqual(owner, <<Boolean("true")>>)
\* of a scalar or of an array; nothing else is given to it
CompileDefaultValueFilter(owner, x) ==
  CASE x = None -> NoExpression [] x.t = "array" -> CreateFilterEqual(owner, x.items) [] OTHER -> CreateFilterEqual(owner, <<x>>)
ScalarOrArray(x) == ScalarOrElse(x, SanitizeArrayValue(x))

CompileTreeFilter(d, x) ==
  LET Equal(c, values) == IF values = <<>> THEN NoExpression ELSE CreateFilterEqual(c, values)
      Of(tree) == IF tree = None THEN NoExpression
                  ELSE Combined(d.level # "or", [i \in DOMAIN d.columns |-> Equal(d.columns[i], Selected(tree, d.columns[i]))])
  IN  Of(SanitizeTreeFilterValue(x))

CompileListFilter(d, x) ==
  LET Explicit(option) == CompileConditionGroup(IF d.kind = "local" THEN d.owner ELSE Blank, option.filter, None)
      OfOption(option) ==
        CASE option = <<>> -> NoExpression
          [] option # <<>> /\ d.kind = "registered" -> Explicit(option[1])
          [] OTHER -> ExpressionOrElse(Explicit(option[1]), CompileDefaultValueFilter(d.owner, option[1].key))
      OfKeys(keys) == Combined(d.binding.and = "yes", [i \in DOMAIN keys |-> OfOption(FindOption(d.binding.options, keys[i]))])
  IN  OfKeys(ResolveListFilterSelectedKeys(d, x))

CompileDefinitionFilter(d, x) ==
  CASE x = None -> NoExpression
    [] x # None /\ d.kind = "segment" ->
         CompileDefaultValueFilter(d.owner, IF d.component = "select" THEN SanitizeScalarValue(x) ELSE SanitizeArrayValue(x))
    [] x # None /\ d.kind = "tree" -> CompileTreeFilter(d, x)
    [] x # None /\ d.kind \in {"local", "registered"} /\ d.binding.kind = "list" -> CompileListFilter(d, x)
    [] x # None /\ d.kind = "local" /\ d.binding.kind = "boolean" ->
         IF x # Boolean("true") THEN NoExpression
         ELSE ExpressionOrElse(CompileConditionGroup(d.owner, d.binding.group, None), CompileDefaultBooleanFilter(d.owner))
    [] x # None /\ d.kind = "local" /\ d.binding.kind = "value" ->
         ExpressionOrElse(CompileConditionGroup(d.owner, d.binding.group, x), CompileDefaultValueFilter(d.owner, ScalarOrArray(x)))
    [] x # None /\ d.kind = "registered" /\ d.binding.kind = "boolean" ->
         IF x = Boolean("true") THEN CompileConditionGroup(Blank, d.binding.group, None) ELSE NoExpression
    [] x # None /\ d.kind = "registered" /\ d.binding.kind = "value" -> CompileConditionGroup(Blank, d.binding.group, x)
    [] x # None /\ d.kind = "column" -> CompileDefaultValueFilter(d.owner, ScalarOrArray(x))
    [] x # None /\ d.kind = "advanced" -> CompileDefaultValueFilter(d.owner, SanitizeArrayValue(x))
    [] OTHER -> NoExpression

CompileFiltersToExpression(ds, values) ==
  LET Of(d, given) == CompileDefinitionFilter(d, IF d.id \in DOMAIN given THEN given[d.id] ELSE None)
      All(clean, given) == Combined(TRUE, [i \in DOMAIN clean |-> Of(clean[i], given)])
  IN  All(SanitizeFilterDefinitions(ds), SanitizeFilterValues(values))

MergeFilterExpressions(left, right) ==
  CASE left = NoExpression -> right [] left # NoExpression /\ right = NoExpression -> left [] OTHER -> Filters(TRUE, <<left, right>>)

-----------------------------------------------------------------------------
(* Chains of segments and dependencies of dictionaries *)

(* A chain is a sequence of segment ids from the widest to the deepest;    *)
(* chains is a sequence of them, a later one taking over the ids they      *)
(* share.                                                                  *)
ChainOf(id, chains) ==
  LET owners == {c \in DOMAIN chains : Contains(chains[c], id)} IN IF owners = {} THEN 0 ELSE CHOOSE c \in owners : \A o \in owners : o <= c

CollapseChainedODataSegmentFilterValues(values, segments, chains) ==
  LET Grouped(c) == {id \in DOMAIN values \cap segments : ChainOf(id, chains) = c /\ values[id].t \in {"array", "text"}}
      Deepest(c) == chains[c][CHOOSE i \in DOMAIN chains[c] :
                        /\ chains[c][i] \in Grouped(c)
                        /\ \A j \in DOMAIN chains[c] : chains[c][j] \in Grouped(c) => j <= i]
      kept == (DOMAIN values \ UNION {Grouped(c) : c \in DOMAIN chains})
                 \cup {Deepest(c) : c \in {k \in DOMAIN chains : Grouped(k) # {}}}
  IN  [id \in kept |-> values[id]]

\* The selected texts of segments and of trees, by dictionary column.
FlattenFilterValuesToODataDependencies(ds, values) ==
  LET Selections(d, tree) ==
        IF tree = None THEN <<>> ELSE [i \in DOMAIN d.columns |-> [column |-> d.columns[i], values |-> Selected(tree, d.columns[i])]]
      Texts(x) == IF x.t = "text" /\ x # Blank THEN <<x>> ELSE SanitizeStringArray(x)
      Entries(d, x) ==
        CASE d.kind = "segment" -> <<[column |-> IF d.code # Blank THEN d.code ELSE d.owner, values |-> Texts(x)]>>
          [] d.kind = "tree" -> Selections(d, SanitizeTreeFilterValue(x))
          [] OTHER -> <<>>
      All(clean, given) == FlattenSeq([i \in DOMAIN clean |-> IF clean[i].id \in DOMAIN given THEN Entries(clean[i], given[clean[i].id]) ELSE <<>>])
      LastOf(entries, c) == CHOOSE i \in DOMAIN entries : entries[i].column = c /\ \A j \in DOMAIN entries : entries[j].column = c => j <= i
      Object(entries) == [c \in {entries[i].column : i \in DOMAIN entries} |-> entries[LastOf(entries, c)].values]
  IN  Object(SelectSeq(All(SanitizeFilterDefinitions(ds), SanitizeFilterValues(values)), LAMBDA e : e.values # <<>>))

-----------------------------------------------------------------------------
(* Writing the expression *)

GetODataTypeFromValue(x) ==
  CASE x.t = "number" -> "int" [] x.t = "boolean" -> "boolean" [] x.t = "date" -> "datetime" [] OTHER -> "string"
\* odataFormatValue throws on a value its schema refuses: an Edm.Int is an integer.
Formattable(x) == ~ (GetODataTypeFromValue(x) = "int" /\ x.v = "1.5")

Token(k) == [k |-> k]
BuildCondition(c) ==
  IF Formattable(c.value) THEN [k |-> "condition", key |-> c.key, operation |-> c.operation, value |-> c.value] ELSE Token("error")

Joined(operator, strings) ==
  FoldLeft(LAMBDA acc, s : IF acc = <<>> THEN s ELSE acc \o <<Token(operator)>> \o s, <<>>, strings)
Parenthesised(tokens) == <<Token("(")>> \o tokens \o <<Token(")")>>
Operator(expression) == IF expression.and THEN "and" ELSE "or"

RECURSIVE WrongBuildODataFilter(_)
WrongBuildODataFilter(e) ==
  LET strings == IF e.form = "conditions" THEN [i \in DOMAIN e.parts |-> <<BuildCondition(e.parts[i])>>]
                 ELSE SelectSeq([i \in DOMAIN e.parts |-> WrongBuildODataFilter(e.parts[i])], LAMBDA s : s # <<>>)
  IN  Joined(Operator(e), strings)
RECURSIVE BuildODataFilter(_)
BuildODataFilter(e) ==
  LET strings == IF e.form = "conditions" THEN [i \in DOMAIN e.parts |-> <<BuildCondition(e.parts[i])>>]
                 ELSE SelectSeq([i \in DOMAIN e.parts |-> BuildODataFilter(e.parts[i])], LAMBDA s : s # <<>>)
  IN  IF Len(strings) < 2 THEN FlattenSeq(strings) ELSE Parenthesised(Joined(Operator(e), strings))

\* The other version: a part of a nested expression whose text has a blank is parenthesised again.
HasBlank(tokens) == Len(tokens) > 1 \/ tokens[1].k = "error" \/ tokens[1].operation # "contains"
RECURSIVE BuildODataFilterRecursive(_)
BuildODataFilterRecursive(e) ==
  LET Part(i) == BuildODataFilterRecursive(e.parts[i])
      nested == SelectSeq([i \in DOMAIN e.parts |-> Part(i)], LAMBDA s : s # <<>>)
      Wrapped(s) == IF HasBlank(s) THEN Parenthesised(s) ELSE s
      strings == IF e.form = "conditions" THEN [i \in DOMAIN e.parts |-> <<BuildCondition(e.parts[i])>>]
                 ELSE [i \in DOMAIN nested |-> Wrapped(nested[i])]
  IN  CASE e.form = "filters" /\ Len(e.parts) = 1 -> Part(1)
        [] Len(strings) < 2 -> FlattenSeq(strings)
        [] OTHER -> Parenthesised(Joined(Operator(e), strings))
-----------------------------------------------------------------------------
(* What the filters promise *)

RECURSIVE ConditionsOf(_)
ConditionsOf(e) ==
  IF e.form = "conditions" THEN ToSet(e.parts) ELSE UNION {ConditionsOf(e.parts[i]) : i \in DOMAIN e.parts}

\* The rows an expression selects, given the conditions that hold of a row; parts without a condition count for nothing.
RECURSIVE Selects(_, _)
Selects(e, holding) ==
  LET parts == {i \in DOMAIN e.parts : e.form = "conditions" \/ ConditionsOf(e.parts[i]) # {}}
      Of(i) == IF e.form = "conditions" THEN e.parts[i] \in holding ELSE Selects(e.parts[i], holding)
  IN  IF e.and THEN \A i \in parts : Of(i) ELSE \E i \in parts : Of(i)

\* The same of a text, read with the precedence of OData: parentheses, then and, then or.
Depth(tokens, i) == Cardinality({j \in 1 .. i : tokens[j].k = "("}) - Cardinality({j \in 1 .. i - 1 : tokens[j].k = ")"})
Splits(tokens, k) == {i \in DOMAIN tokens : tokens[i].k = k /\ Depth(tokens, i) = 0}
RECURSIVE Reads(_, _)
Reads(tokens, holding) ==
  LET Left(i) == Reads(SubSeq(tokens, 1, i - 1), holding)
      Right(i) == Reads(SubSeq(tokens, i + 1, Len(tokens)), holding)
      or == Splits(tokens, "or")
      and == Splits(tokens, "and")
      t == tokens[1]
  IN  CASE or # {} -> LET i == CHOOSE i \in or : TRUE IN Left(i) \/ Right(i)
        [] or = {} /\ and # {} -> LET i == CHOOSE i \in and : TRUE IN Left(i) /\ Right(i)
        [] or = {} /\ and = {} /\ t.k = "(" -> Reads(SubSeq(tokens, 2, Len(tokens) - 1), holding)
        [] OTHER -> FilterCondition(t.key, t.operation, t.value) \in holding

\* The text selects the rows of the expression, and there is one exactly when there is a condition.
WrittenAsMeant(e, tokens) ==
  \/ \E c \in ConditionsOf(e) : ~ Formattable(c.value)
  \/ /\ (tokens = <<>>) <=> (ConditionsOf(e) = {})
     /\ tokens # <<>> => \A holding \in SUBSET ConditionsOf(e) : Reads(tokens, holding) <=> Selects(e, holding)

\* The columns a filter reads are those announced for its value (the owner when its own conditions come to nothing),
\* and these are announced for its definition (or the owner, for an option without conditions).
ColumnsAnnounced(d, x) ==
  LET Agree(owner, read, active, all) ==
        /\ read \subseteq active \cup {owner}
        /\ active \subseteq all \cup {owner}
        /\ d.kind # "local" => read \subseteq active
      Read(clean) == {c.key : c \in ConditionsOf(CompileDefinitionFilter(clean, SanitizeFilterValue(x)))}
      Of(clean) == clean # <<>> => Agree(clean[1].owner, Read(clean[1]), ToSet(ResolveODataFilterDefinitionActiveColumnIds(d, x)),
                                         ToSet(ResolveODataFilterDefinitionColumnIds(d)))
  IN  Of(SanitizeFilterDefinitions(<<d>>))

\* A range asks for each of its bounds at once, and one alone asks for that one; except
\* that an only bound of 0, of FALSE or of the empty text asks for nothing.
RangeIsAsked(key, low, high) ==
  LET given == {b \in {FilterCondition(key, "ge", low), FilterCondition(key, "le", high)} : b.value # None}
      lost == {b \in given : given = {b} /\ b.value \in {Number("0"), Boolean("false"), Blank}}
  IN  \A holding \in SUBSET given :
        Selects(CreateFilterBetween(key, low, high), holding) <=> given \ lost \subseteq holding /\ given \ lost # {}

\* Cleaning what is clean changes nothing: every entry point cleans again.
CleanOnce(d, x) ==
  LET Clean(definitions, value) == SanitizeFilterDefinitions(definitions) = definitions /\ SanitizeFilterValue(value) = value
  IN  Clean(SanitizeFilterDefinitions(<<d>>), SanitizeFilterValue(x))

\* A segment is dropped only for a deeper selected one of its chain, and a chain keeps one.
OnlyDeepestKept(values, segments, chains) ==
  LET kept == DOMAIN CollapseChainedODataSegmentFilterValues(values, segments, chains)
      Position(c, id) == CHOOSE i \in DOMAIN chains[c] : chains[c][i] = id
  IN  /\ \A id \in DOMAIN values \ kept :
           \E c \in DOMAIN chains : \E deeper \in kept :
             /\ {id, deeper} \subseteq ToSet(chains[c])
             /\ Position(c, id) < Position(c, deeper)
      /\ \A c \in DOMAIN chains :
           Cardinality({id \in kept \cap segments : ChainOf(id, chains) = c /\ values[id].t \in {"array", "text"}}) <= 1
=============================================================================
