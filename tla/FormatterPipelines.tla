------------------------- MODULE FormatterPipelines -------------------------
(***************************************************************************)
(* src/formatters/pipeline/: the pipeline of formatters of a column, drawn *)
(* as a graph or given as a plan.  It is read from a store, validated,     *)
(* compiled and executed for the cells; the fields it reads are collected  *)
(* for the query, and a copy of it gets new ids.  Before it stands         *)
(* src/formatters/valueState/: the resolvers of the state of a value, by   *)
(* its exact text or by the segment between thresholds it falls in, in a   *)
(* registry under a canonical key of their configuration.                  *)
(*                                                                         *)
(* Abstraction.  Values are those of Formulas.  What may be absent is a    *)
(* sequence of at most one element, an absent property is None.  Messages  *)
(* are their codes; a formatted number or date is its preset with what it  *)
(* was made of.  A canonical key is the sequence of its pieces, and a key  *)
(* of a fixed resolver a sequence of pieces too, so that a key that holds  *)
(* separators can be told; "rank" is its place in the order of texts.  The *)
(* short hash of a canonical key is taken to be free of collisions: the    *)
(* key itself is the id.                                                   *)
(***************************************************************************)
EXTENDS Formulas

CONSTANTS TableFormulas, RowBasedFormulas \* the registries of the host, filled before they are read

States == {"", "none", "information", "success", "warning", "error"}
OrElse(x, other) == IF x = <<>> THEN other ELSE x[1]

-----------------------------------------------------------------------------
(* Fixed resolvers *)

PieceOf(value) == <<ToString(StringOf(value))>>
Entry(rank, key, state) == [rank |-> rank, key |-> key, state |-> state]
Fixed(entries, fallback) == [kind |-> "fixed", entries |-> entries, fallback |-> fallback]
SortedEntries(config) == SortSeq(config.entries, LAMBDA a, b : a.rank < b.rank)
Separated(parts, separator) == \* join
  FlattenSeq([i \in DOMAIN parts |-> IF i = 1 THEN parts[i] ELSE <<separator>> \o parts[i]])
FixedCanonicalKey(config) ==
  LET Parts(entries) == [i \in DOMAIN entries |-> entries[i].key \o <<":", entries[i].state>>]
  IN  <<"fixed", "|">> \o Separated(Parts(SortedEntries(config)), ",") \o <<"|", OrElse(config.fallback, "none")>>
CompileFixedResolver(config, value) ==
  LET found == {i \in DOMAIN config.entries : config.entries[i].key = PieceOf(value)}
  IN  IF ~ IsSafe(value) \/ found = {} THEN OrElse(config.fallback, "none") ELSE config.entries[CHOOSE i \in found : TRUE].state

-----------------------------------------------------------------------------
(* Threshold resolvers *)

Threshold(value, boundary) == [value |-> value, boundary |-> boundary]
Thresholds(thresholds, states, invalid) == [kind |-> "threshold", thresholds |-> thresholds, states |-> states, invalid |-> invalid]
\* sort is stable
SortedThresholds(config) ==
  LET all == config.thresholds
      Before(i, j) == all[i].value < all[j].value \/ (all[i].value = all[j].value /\ i < j)
  IN  [n \in DOMAIN all |-> all[CHOOSE i \in DOMAIN all : Cardinality({j \in DOMAIN all : Before(j, i)}) = n - 1]]
ThresholdCanonicalKey(config) ==
  LET Parts(all) == [i \in DOMAIN all |-> <<all[i].value, ":", all[i].boundary>>]
  IN  <<"threshold", "|">> \o Separated(Parts(SortedThresholds(config)), ",")
        \o <<"|">> \o Separated([i \in DOMAIN config.states |-> <<config.states[i]>>], ",") \o <<"|", OrElse(config.invalid, "none")>>
CountIsValid(config) == Len(config.states) = Len(config.thresholds) + 1
CompileThresholdResolver(config, value) ==
  LET Belongs(all, n) == {i \in DOMAIN all : n < all[i].value \/ (n = all[i].value /\ all[i].boundary = "lower")}
      Of(n) == IF n = NaN THEN OrElse(config.invalid, "none")
               ELSE config.states[Min({Len(config.states)} \cup Belongs(SortedThresholds(config), n[1]))]
  IN  IF value = Text("") \/ ~ IsSafe(value) THEN OrElse(config.invalid, "none") ELSE Of(NumberOf(value))

-----------------------------------------------------------------------------
(* The registry of resolvers, in the order they were registered *)

CanonicalKey(config) == IF config.kind = "fixed" THEN FixedCanonicalKey(config) ELSE ThresholdCanonicalKey(config)
CompiledState(config, value) == IF config.kind = "fixed" THEN CompileFixedResolver(config, value) ELSE CompileThresholdResolver(config, value)
RegisterResolver(registry, config) ==
  IF \E i \in DOMAIN registry : CanonicalKey(registry[i]) = CanonicalKey(config) THEN registry ELSE Append(registry, config)
ResolveValueState(registry, id, value) ==
  LET Of(found) == IF found = {} THEN "none" ELSE CompiledState(registry[CHOOSE i \in found : TRUE], value)
  IN  Of({i \in DOMAIN registry : CanonicalKey(registry[i]) = id})

-----------------------------------------------------------------------------
(* What is promised of resolvers *)

\* Whoever registered before, a resolver answers as its own configuration says.
\* It takes keys without the separators of a canonical key.
NoSeparators(config) == config.kind = "fixed" => \A i \in DOMAIN config.entries : Len(config.entries[i].key) = 1
ResolversAreTheirOwn(configs, value) ==
  (\A i \in DOMAIN configs : NoSeparators(configs[i])) =>
    LET registry == FoldLeft(RegisterResolver, <<>>, configs)
    IN  \A i \in DOMAIN configs : ResolveValueState(registry, CanonicalKey(configs[i]), value) = CompiledState(configs[i], value)

\* A number has the state of its segment: as many states are passed as there are thresholds
\* below it, in whatever order they were given.
StateIsOfItsSegment(config, value) ==
  LET n == NumberOf(value)
      passed == {i \in DOMAIN config.thresholds : config.thresholds[i].value < n[1]
                   \/ (config.thresholds[i].value = n[1] /\ config.thresholds[i].boundary = "upper")}
      different == \A i, j \in DOMAIN config.thresholds : config.thresholds[i].value = config.thresholds[j].value => i = j
  IN  different /\ n # NaN /\ value # Null /\ value # Text("")
        => CompiledState(config, value) = config.states[Cardinality(passed) + 1]

-----------------------------------------------------------------------------
(* Steps, graphs and configurations *)

Zeros == "normalizeLeadingZeros"
Override == "rowBasedOverride"
State == "resolveValueState"
Typed == "typedValueFormat"
FormatterTypes == {Zeros, Override, State, Typed}
Step(id, type, config) == [id |-> id, type |-> type, config |-> config]
FieldConfig(key, fallback) == [mode |-> "field", fieldKey |-> key, fallbackToRaw |-> fallback]
FormulaConfig(id, keys, fallback) == [mode |-> "formula", formulaId |-> id, dependencyIds |-> keys, fallbackToRaw |-> fallback]
StateConfig(resolver, source, icon) == [resolver |-> resolver, valueSource |-> source, icon |-> icon]
FormulaSource(id, keys) == [kind |-> "formula", formulaId |-> id, dependencyIds |-> keys]
Icon(enabled, showValue, position) == [enabled |-> enabled, showValue |-> showValue, position |-> position]
TypedConfig(number, date) == [numberPresetName |-> number, datePresetName |-> date]
Node(step, position) == [id |-> step.id, type |-> step.type, config |-> step.config, position |-> position]
End(id, type, position) == Node(Step(id, type, <<>>), position)
Edge(id, source, target) == [id |-> id, source |-> source, target |-> target]
Config(version, plan, graph) == [version |-> version, plan |-> plan, graph |-> graph]

PresetNames == {"integer", "decimal", "decimal-2", "decimal-3", "currency", "price", "percent", "ratio-percent", "tonnage"}
CompactNames == {"compact-currency", "compact-currency-round", "compact-percent", "compact-percent-round", "compact-tonnage", "compact-tonnage-round"}
NumberPresets == {Text(name) : name \in PresetNames \cup CompactNames}
DatePresets == {Text("date"), Text("month")}

-----------------------------------------------------------------------------
(* Validation of steps *)

When(condition, code) == IF condition THEN {code} ELSE {}
HasFormulaSource(step) == step.type = State /\ step.config.valueSource # <<>> /\ step.config.valueSource[1].kind = "formula"

RowBasedFormulaFindings(config) ==
  LET keys == OrElse(config.dependencyIds, <<>>)
      Probed(formula, read) == [errors |-> ProbeErrors(read, keys), warnings |-> ProbeWarnings(formula, read, keys)]
      Of(found) == IF found = <<>> THEN [errors |-> {"row_based_formula_not_found"}, warnings |-> {}]
                   ELSE Probed(found[1], RowBasedProbe(found[1], keys))
  IN  IF IsBlank(config.formulaId) THEN [errors |-> {"formula_id_empty"}, warnings |-> {}]
      ELSE Of(GetFormulaById(RowBasedFormulas, config.formulaId))

ValueStateSourceFindings(source) ==
  LET keys == source.dependencyIds
      Of(found) == [errors |-> When("formula_not_found" \in found.errors, "value_state_formula_not_found")
                                 \cup (found.errors \cap {"dependency_index_out_of_range"}), warnings |-> found.warnings]
  IN  CASE IsBlank(source.formulaId) -> [errors |-> {"formula_id_empty"}, warnings |-> {}]
        [] ~ IsBlank(source.formulaId) /\ (\E i \in DOMAIN keys : IsBlank(keys[i])) -> [errors |-> {"dependency_id_empty"}, warnings |-> {}]
        [] OTHER -> Of(ValidateTableFormulaDependencies(TableFormulas, source.formulaId, keys, Range(keys)))

NoFindings == [errors |-> {}, warnings |-> {}]
StepFindings(step) ==
  CASE step.type = Override /\ step.config.mode = "field" ->
         [errors |-> When(IsBlank(step.config.fieldKey), "field_key_empty"), warnings |-> {}]
    [] step.type = Override /\ step.config.mode = "formula" -> RowBasedFormulaFindings(step.config)
    [] step.type = State ->
         LET of == IF HasFormulaSource(step) THEN ValueStateSourceFindings(step.config.valueSource[1]) ELSE NoFindings
             spoilt == step.config.resolver.kind = "threshold" /\ ~ CountIsValid(step.config.resolver)
         IN  [of EXCEPT !.errors = @ \cup When(spoilt, "threshold_states_count_invalid")]
    [] step.type = Typed /\ step.config # <<>> ->
         LET name == step.config[1].numberPresetName
         IN  [errors |-> When(name # None /\ IsBlank(name), "preset_empty")
                           \cup When(name # None /\ ~ IsBlank(name) /\ Trim(name) \notin NumberPresets, "preset_not_found"), warnings |-> {}]
    [] OTHER -> NoFindings

FirstOf(steps, type) == SelectInSeq(steps, LAMBDA step : step.type = type) \* 0 when there is none
HidesValueWithoutIcon(step) ==
  step.type = State /\ step.config.icon # <<>> /\ step.config.icon[1].enabled # Boolean(TRUE) /\ step.config.icon[1].showValue = Boolean(FALSE)

\* A step without an id is reported and not looked at, but its place counts.
ValidateStepDefinitions(steps) ==
  LET seen == {i \in DOMAIN steps : ~ IsBlank(steps[i].id)}
      CountOf(type) == Cardinality({i \in seen : steps[i].type = type})
      All(of) ==
      [errors |-> When(seen # DOMAIN steps \/ (\E i, j \in seen : i # j /\ Trim(steps[i].id) = Trim(steps[j].id)), "step_id_duplicate")
                    \cup UNION {of[i].errors : i \in seen} \cup When(\E type \in FormatterTypes : CountOf(type) > 1, "step_multiple")
                    \cup When(FirstOf(steps, State) # 0 /\ FirstOf(steps, Typed) \in 1 .. FirstOf(steps, State) - 1, "typed_before_value_state"),
       warnings |-> UNION {of[i].warnings : i \in seen} \cup When(\E i \in DOMAIN steps : HidesValueWithoutIcon(steps[i]), "value_hidden_without_icon")]
  IN  All([i \in seen |-> StepFindings(steps[i])])

Verdict(findings, steps) == [ok |-> findings.errors = {}, errors |-> findings.errors, warnings |-> findings.warnings,
                             plan |-> IF findings.errors = {} THEN <<steps>> ELSE <<>>]
Rejected(errors) == [ok |-> FALSE, errors |-> errors, warnings |-> {}, plan |-> <<>>]
ValidateFormattersPipelinePlan(steps) == Verdict(ValidateStepDefinitions(steps), steps)

-----------------------------------------------------------------------------
(* Validation of graphs *)

IsEnd(node) == node.type \in {"source", "sink"}
Repeats(items) == \E i, j \in DOMAIN items : IsBlank(items[i].id) \/ (i # j /\ Trim(items[i].id) = Trim(items[j].id))
NodeIds(graph) == {node.id : node \in Range(graph.nodes)}
Links(graph) == {i \in DOMAIN graph.edges : {Trim(graph.edges[i].source), Trim(graph.edges[i].target)} \subseteq NodeIds(graph)}
Outgoing(graph, id) == {i \in Links(graph) : Trim(graph.edges[i].source) = id}
Incoming(graph, id) == {i \in Links(graph) : Trim(graph.edges[i].target) = id}
OfType(graph, type) == {i \in DOMAIN graph.nodes : graph.nodes[i].type = type}

DegreeErrors(graph) ==
  UNION {LET in == Cardinality(Incoming(graph, graph.nodes[i].id))
             out == Cardinality(Outgoing(graph, graph.nodes[i].id))
         IN  CASE graph.nodes[i].type = "source" -> When(in # 0, "source_incoming_invalid") \cup When(out # 1, "node_degree_invalid")
               [] graph.nodes[i].type = "sink" -> When(out # 0, "sink_outgoing_invalid") \cup When(in # 1, "node_degree_invalid")
               [] OTHER -> When(in # 1 \/ out # 1, "node_degree_invalid") : i \in DOMAIN graph.nodes}

\* From the source along the edges to the sink.
WalkFrom(graph, source, sink) ==
  LET Follow(path, next) == IF Last(path) = sink \/ Cardinality(next) # 1 THEN path
                            ELSE Append(path, Trim(graph.edges[CHOOSE e \in next : TRUE].target))
  IN  FoldLeft(LAMBDA path, node : Follow(path, Outgoing(graph, Last(path))), <<source>>, graph.nodes)
BuildLinearPathFromGraph(graph) ==
  LET early == When(Links(graph) # DOMAIN graph.edges, "edge_node_not_found")
                 \cup When(Cardinality(OfType(graph, "source")) # 1, "source_count_invalid")
                 \cup When(Cardinality(OfType(graph, "sink")) # 1, "sink_count_invalid")
      EndOf(type) == graph.nodes[CHOOSE i \in OfType(graph, type) : TRUE].id
      Failure(errors) == [path |-> <<>>, errors |-> errors]
      Whole(path, sink) ==
        CASE Cardinality(Range(path)) # Len(path) -> Failure({"path_cycle_detected"})
          [] Cardinality(Range(path)) = Len(path) /\ Last(path) # sink -> Failure({"path_broken"})
          [] Last(path) = sink /\ Len(path) # Len(graph.nodes) -> Failure({"path_disconnected_nodes"})
          [] OTHER -> [path |-> path, errors |-> {}]
      Checked(errors, degrees) ==
        CASE errors # {} -> Failure(errors)
          [] errors = {} /\ degrees # {} -> Failure(degrees)
          [] OTHER -> Whole(WalkFrom(graph, EndOf("source"), EndOf("sink")), EndOf("sink"))
  IN  Checked(early, DegreeErrors(graph))

StepsAlong(graph, path) ==
  LET nodes == [i \in DOMAIN path |-> graph.nodes[CHOOSE n \in DOMAIN graph.nodes : graph.nodes[n].id = path[i]]]
      StepsOf(inner) == [i \in DOMAIN inner |-> Step(inner[i].id, inner[i].type, inner[i].config)]
  IN  StepsOf(SelectSeq(nodes, LAMBDA node : ~ IsEnd(node)))
ValidateFormattersPipelineGraph(graph) ==
  LET repeated == When(Repeats(graph.nodes), "node_id_duplicate") \cup When(Repeats(graph.edges), "edge_id_duplicate")
      Along(linear) == IF linear.errors # {} THEN Rejected(linear.errors) ELSE ValidateFormattersPipelinePlan(StepsAlong(graph, linear.path))
  IN  CASE graph.nodes = <<>> -> Rejected({"path_broken"})
        [] graph.nodes # <<>> /\ repeated # {} -> Rejected(repeated)
        [] OTHER -> Along(BuildLinearPathFromGraph(graph))

\* A plan goes before the graph; the graph is tried when the plan is not valid.
Version == 1
ValidateFormattersPipelineConfig(config) ==
  LET Either(plan, graph) ==
        CASE config[1].plan = <<>> /\ config[1].graph = <<>> -> Rejected({"graph_or_plan_required"})
          [] config[1].plan = <<>> /\ config[1].graph # <<>> -> graph
          [] config[1].plan # <<>> /\ (plan.ok \/ config[1].graph = <<>>) -> plan
          [] OTHER -> [graph EXCEPT !.warnings = @ \cup plan.warnings \cup {"path_broken"}]
  IN  CASE config = <<>> -> Rejected({"config_not_defined"})
        [] config # <<>> /\ config[1].version # Version -> Rejected({"unsupported_version"})
        [] OTHER -> Either(ValidateFormattersPipelinePlan(config[1].plan[1]), ValidateFormattersPipelineGraph(config[1].graph[1]))
=============================================================================
