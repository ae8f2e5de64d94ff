------------------------------ MODULE Formulas ------------------------------
(***************************************************************************)
(* src/formulas/ and src/formatters/rowBased/: formulas of a host, called  *)
(* with positional arguments that are fields of a row or constants.  A     *)
(* formula is compiled for a column, or called with arguments its host has *)
(* resolved, and checked with two probes before it is offered.             *)
(*                                                                         *)
(* Abstraction.  A value is a tuple with its kind first; a numeral is a    *)
(* text of a whole number with a count of digits, and one that only the    *)
(* SAP-like parser reads is "grouped".  The function of a formula is the   *)
(* host's: it reads one position, by its sign one of two lists of          *)
(* positions, and returns their sum, NaN, nothing, or throws.              *)
(***************************************************************************)
EXTENDS Integers, Sequences, FiniteSets, SequencesExt

None == <<"none">> \* undefined, a property that is absent
Null == <<"null">>
Number(n) == <<"number", n>>
Boolean(b) == <<"boolean", b>>
Text(v) == <<"text", v, FALSE>>
Padded(v) == <<"text", v, TRUE>> \* with blanks around it
Digits(n, width) == <<"digits", n, width>>
Grouped(n) == <<"grouped", n>>

IsText(x) == x[1] \in {"text", "digits", "grouped"}
Trim(x) == IF x[1] = "text" THEN Text(x[2]) ELSE x
IsBlank(x) == Trim(x) = Text("")
IsSafe(x) == x # None /\ x # Null

NaN == <<>> \* a number is wrapped where it may be NaN, or undefined
\* Number(x)
NumberOf(x) == CASE x[1] \in {"number", "digits"} -> <<x[2]>>
                 [] x = Null \/ IsBlank(x) -> <<0>>
                 [] x[1] = "boolean" -> <<IF x[2] THEN 1 ELSE 0>>
                 [] OTHER -> NaN
ToFiniteNumberOrZero(x) == IF NumberOf(x) = NaN THEN 0 ELSE NumberOf(x)[1]
ToFiniteNumber(x) == IF x[1] \in {"number", "digits", "grouped"} THEN <<x[2]>> ELSE NaN
ParseNumber(x) == IF ToFiniteNumber(x) = NaN THEN 0 ELSE x[2]
\* String(n) and its digits
Width(n) == CHOOSE w \in 1 .. 9 : (IF n < 0 THEN -n ELSE n) < 10 ^ w /\ (w = 1 \/ (IF n < 0 THEN -n ELSE n) >= 10 ^ (w - 1))
StringOf(x) == IF x[1] = "number" THEN Digits(x[2], Width(x[2])) ELSE x
IsZeroValue(x) == ToFiniteNumber(x) = <<0>>

-----------------------------------------------------------------------------
(* Formulas and their registry *)

Formula(test, yes, no, outcome) == [test |-> test, yes |-> yes, no |-> no, outcome |-> outcome]
Failed == <<"failed">>
\* the ids of a registry are trimmed, filled and different, or there is none
Registry(definitions) ==
  LET ids == [i \in DOMAIN definitions |-> Trim(definitions[i].id)]
  IN  IF \E i, j \in DOMAIN ids : IsBlank(ids[i]) \/ (i # j /\ ids[i] = ids[j]) THEN Failed
      ELSE [id \in Range(ids) |-> definitions[CHOOSE i \in DOMAIN ids : ids[i] = id].formula]
GetFormulaById(registry, id) == IF IsText(id) /\ ~ IsBlank(id) /\ Trim(id) \in DOMAIN registry THEN <<registry[Trim(id)]>> ELSE <<>>

\* The positions a formula reads, given the number at every position.
Positions == -1 .. 4 \* a bound: formulas of these positions
ReadOf(formula, numbers) == <<formula.test>> \o (IF numbers[formula.test] >= 0 THEN formula.yes ELSE formula.no)
ResultOf(formula, numbers) ==
  LET read == ReadOf(formula, numbers) IN IF formula.outcome = "sum" THEN FoldLeft(LAMBDA n, i : n + numbers[i], 0, read) ELSE 0

-----------------------------------------------------------------------------
(* Arguments and execution *)

Constant(n) == <<"constant", <<n>>>>
Spoilt == <<"constant", NaN>>
IsTableFormulaDependency(x) == IsText(x) \/ (x[1] = "constant" /\ x # Spoilt)
CanSnapshot(keys) == \A i \in DOMAIN keys : IsTableFormulaDependency(keys[i])
FieldOf(row, key) == IF key \in DOMAIN row THEN row[key] ELSE None

\* The arguments of a formula are looked up by position from 0; what is beyond them is 0.
TableNumber(row, key) ==
  CASE key = Text("") -> 0
    [] key[1] = "constant" -> key[2][1]
    [] OTHER -> ToFiniteNumberOrZero(FieldOf(row, key))
TableNumbers(row, keys) == [i \in Positions |-> IF i + 1 \in DOMAIN keys THEN TableNumber(row, keys[i + 1]) ELSE 0]
RowBasedNumbers(row, keys) ==
  [i \in Positions |-> IF i + 1 \in DOMAIN keys /\ keys[i + 1] # Text("") THEN ParseNumber(FieldOf(row, keys[i + 1])) ELSE 0]
ResolvedNumbers(arguments) == [i \in Positions |-> IF i + 1 \in DOMAIN arguments THEN ToFiniteNumberOrZero(arguments[i + 1]) ELSE 0]

Succeeded(n) == [ok |-> TRUE, value |-> n]
Refused(reason) == [ok |-> FALSE, reason |-> reason]
ExecuteWithContext(formula, numbers) ==
  CASE formula.outcome = "throw" -> Refused("runtime_error")
    [] formula.outcome \in {"nan", "nothing"} -> Refused("invalid_result")
    [] OTHER -> Succeeded(ResultOf(formula, numbers))

ExecuteTableFormulaWithResolvedArguments(registry, id, arguments) ==
  LET formula == GetFormulaById(registry, id)
  IN  CASE formula = <<>> -> Refused("formula_not_found")
        [] \E i \in DOMAIN arguments : arguments[i] = Failed -> Refused("runtime_error") \* not an argument
        [] OTHER -> ExecuteWithContext(formula[1], ResolvedNumbers(arguments))

\* A compiled formula keeps a snapshot of its keys.
NotCompiled == <<>>
CompileTableFormula(registry, id, keys) ==
  LET formula == GetFormulaById(registry, id)
  IN  IF formula = <<>> THEN NotCompiled ELSE <<[formula |-> formula[1], keys |-> keys, ok |-> CanSnapshot(keys)]>>
ExecuteCompiled(compiled, row) ==
  IF compiled.ok THEN ExecuteWithContext(compiled.formula, TableNumbers(row, compiled.keys)) ELSE Refused("runtime_error")
ExecuteTableFormula(registry, id, row, keys) ==
  LET compiled == CompileTableFormula(registry, id, keys)
  IN  IF compiled = NotCompiled THEN Refused("formula_not_found") ELSE ExecuteCompiled(compiled[1], row)

-----------------------------------------------------------------------------
(* Validation: two probes, with every field positive and every one negative *)

ProbeValue == 100
\* the last of two dependencies on one field gives the sample of both
CreateSampleRowData(keys, multiplier) ==
  LET fields == SelectSeq(keys, IsText)
  IN  [key \in Range(fields) |-> Number(multiplier * CHOOSE i \in DOMAIN keys : keys[i] = key /\ \A j \in DOMAIN keys : keys[j] = key => j <= i)]
Probe(formula, first, second) == Range(ReadOf(formula, first)) \cup Range(ReadOf(formula, second))
UsedIndexes(read) == {i \in read : i >= 0}
OutOfRange(read, keys) == {i \in read : i + 1 \notin DOMAIN keys}
RequiredDependencyCount(read) == Cardinality(UNION {0 .. i : i \in UsedIndexes(read)})
\* what the probes say of a formula, the same for both registries
ProbeErrors(read, keys) == IF OutOfRange(read, keys) # {} THEN {"dependency_index_out_of_range"} ELSE {}
ProbeWarnings(formula, read, keys) ==
  (IF UsedIndexes(read) = {} THEN {"formula_does_not_use_dependencies"} ELSE {})
    \cup (IF \E i \in DOMAIN keys : i - 1 \notin read THEN {"unused_dependencies"} ELSE {})
    \cup (IF formula.outcome = "throw" THEN {"formula_runtime_error"} ELSE {})

ValidateTableFormulaDependencies(registry, id, keys, available) ==
  LET found == GetFormulaById(registry, id)
      formula == found[1]
      sound == CanSnapshot(keys)
      read == IF sound THEN Probe(formula, TableNumbers(CreateSampleRowData(keys, ProbeValue), keys),
                                           TableNumbers(CreateSampleRowData(keys, -ProbeValue), keys)) ELSE {}
  IN  IF found = <<>> THEN [errors |-> {"formula_not_found"}, warnings |-> {}, used |-> {}, required |-> 0]
      ELSE [errors |-> (IF \E i \in DOMAIN keys : IsText(keys[i]) /\ keys[i] \notin available THEN {"dependency_not_available"} ELSE {})
                         \cup (IF sound THEN {} ELSE {"invalid_constant"}) \cup ProbeErrors(read, keys),
            warnings |-> ProbeWarnings(IF sound THEN formula ELSE [formula EXCEPT !.outcome = "throw"], read, keys),
            used |-> UsedIndexes(read), required |-> RequiredDependencyCount(read)]

RowBasedProbe(formula, keys) ==
  Probe(formula, RowBasedNumbers(CreateSampleRowData(keys, ProbeValue), keys), RowBasedNumbers(CreateSampleRowData(keys, -ProbeValue), keys))

-----------------------------------------------------------------------------
(* What is promised *)

\* A formula compiled for a column and one called with the arguments of the row agree, with one
\* exception: an argument that is not one fails the call, not the compilation.
CallersAgree(registry, id, keys, row) ==
  LET arguments == [i \in DOMAIN keys |-> CASE ~ IsTableFormulaDependency(keys[i]) -> Failed
                                            [] keys[i] = Text("") -> None
                                            [] keys[i][1] = "constant" -> Number(keys[i][2][1])
                                            [] OTHER -> FieldOf(row, keys[i])]
  IN  ExecuteTableFormula(registry, id, row, keys) = ExecuteTableFormulaWithResolvedArguments(registry, id, arguments)

\* A formula accepted for its dependencies reads only them whatever the row holds, and
\* the fields it is told not to use make no difference to its result.
ProbesSuffice(registry, id, keys, row, other) ==
  LET said == ValidateTableFormulaDependencies(registry, id, keys, Range(keys))
      formula == GetFormulaById(registry, id)[1]
      unused == {keys[i + 1] : i \in {j \in 0 .. Len(keys) - 1 : j \notin said.used}} \ {keys[i + 1] : i \in said.used}
      changed == [key \in DOMAIN row |-> IF key \in unused THEN other ELSE row[key]]
  IN  said.errors = {} =>
        /\ Range(ReadOf(formula, TableNumbers(row, keys))) \subseteq {i - 1 : i \in DOMAIN keys}
        /\ said.required <= Len(keys)
        /\ ExecuteTableFormula(registry, id, changed, keys) = ExecuteTableFormula(registry, id, row, keys)
=============================================================================
