-------------------------- MODULE FormatterRuntime --------------------------
(***************************************************************************)
(* src/formatters/pipeline/: what is done with a validated pipeline: its   *)
(* execution for a cell, the value a cell shows, the fields the query must *)
(* bring, the copy with new ids, and the reading of a stored configuration.*)
(***************************************************************************)
EXTENDS FormatterPipelines

-----------------------------------------------------------------------------
(* Execution *)

\* normalizeLeadingZeros: what Number() reads is written anew, at least "fixed" digits wide.
NormalizeLeadingZeros(x, fixed) ==
  LET WidthOf(n) == IF fixed # None /\ fixed[2] > Width(n) THEN fixed[2] ELSE Width(n)
      Of(n) == IF n = NaN THEN x ELSE Digits(n[1], WidthOf(n[1]))
  IN  Of(NumberOf(x))

Presetted(name, presets, default) == IF name # None /\ Trim(name) \in presets THEN Trim(name) ELSE Text(default)
FormatTypedCellValue(x, baseType, config) ==
  LET given == OrElse(config, TypedConfig(None, None))
  IN  CASE ~ IsSafe(x) -> Text("")
        [] IsSafe(x) /\ baseType = "number" -> <<"shown", Presetted(given.numberPresetName, NumberPresets, "decimal"), x>>
        [] IsSafe(x) /\ baseType = "date" -> <<"shown", Presetted(given.datePresetName, DatePresets, "date"), x>>
        [] OTHER -> StringOf(x)

ShouldApplyRowBasedOverride(context, mode) == context.rowKind = "totals" => mode = "formula"
ResolveIconState(state) == IF state \in {"success", "warning", "error", "information"} THEN <<state>> ELSE <<>>

WrongHasDependencies(keys, row) == TRUE \* ctx.num() alone decides: what is missing counts as 0
HasDependencies(keys, row) == \A i \in DOMAIN keys : IsSafe(FieldOf(row, keys[i])) /\ ~ IsBlank(FieldOf(row, keys[i]))

\* The value after an override: nothing found falls back to the value before it, unless told not to.
Overridden(value, config, context) ==
  LET formula == GetFormulaById(RowBasedFormulas, config.formulaId)[1]
      field == FieldOf(context.row, config.fieldKey)
      numbers == RowBasedNumbers(context.row, OrElse(config.dependencyIds, <<>>))
      back == config.fallbackToRaw # Boolean(FALSE)
  IN  CASE ~ ShouldApplyRowBasedOverride(context, config.mode) -> value
        [] config.mode = "field" -> IF ~ IsSafe(field) /\ back THEN value ELSE field
        [] OTHER -> CASE formula.outcome \in {"throw", "nothing"} -> IF back THEN value ELSE None
                      [] formula.outcome = "nan" -> <<"nan">> \* not null: NaN is a value
                      [] OTHER -> Number(ResultOf(formula, numbers))

StateOfValue(config, value, context) ==
  LET source == config.valueSource[1]
      row == OrElse(context.stateRow, context.row)
      Of(result) == IF result.ok THEN CompiledState(config.resolver, Number(result.value)) ELSE "none"
  IN  IF config.valueSource # <<>> /\ config.valueSource[1].kind = "formula"
      THEN IF ~ HasDependencies(source.dependencyIds, row) THEN "none"
           ELSE Of(ExecuteTableFormula(TableFormulas, source.formulaId, row, source.dependencyIds))
      ELSE CompiledState(config.resolver, value)

NoExecution(value) == [value |-> value, state |-> "none", icon |-> <<>>, showIcon |-> FALSE, showValue |-> TRUE, iconPosition |-> "left"]
WithState(result, step, context) ==
  LET config == step.config
      icon == OrElse(config.icon, Icon(None, None, None))
      enabled == icon.enabled = Boolean(TRUE)
      In(state) == [result EXCEPT !.state = state,
                                  !.icon = IF enabled THEN ResolveIconState(state) ELSE <<>>,
                                  !.showIcon = enabled /\ ~ (HasFormulaSource(step) /\ state = "none"),
                                  !.showValue = icon.showValue # Boolean(FALSE),
                                  !.iconPosition = IF icon.position = Text("right") THEN "right" ELSE "left"]
  IN  In(StateOfValue(config, result.value, context))
ExecuteStep(result, step, column, context) ==
  CASE step.type = Zeros -> [result EXCEPT !.value = NormalizeLeadingZeros(@, OrElse(step.config, [fixed |-> None]).fixed)]
    [] step.type = Override -> [result EXCEPT !.value = Overridden(@, step.config, context)]
    [] step.type = State -> WithState(result, step, context)
    [] step.type = Typed -> [result EXCEPT !.value = FormatTypedCellValue(@, column, step.config)]

\* An executor is the steps of a valid plan, or there is none and a reason.
CompileFormattersPipelineExecutor(config) ==
  LET Of(said) ==
        CASE said.ok -> [ok |-> TRUE, steps |-> said.plan[1]]
          [] ~ said.ok /\ "value_state_formula_not_found" \in said.errors -> [ok |-> FALSE, reason |-> "value_state_formula_not_found"]
          [] OTHER -> [ok |-> FALSE, reason |-> IF "row_based_formula_not_found" \in said.errors THEN "row_based_formula_not_found" ELSE "pipeline_invalid"]
  IN  Of(ValidateFormattersPipelineConfig(config))
Execute(steps, column, context) == FoldLeft(LAMBDA result, step : ExecuteStep(result, step, column, context), NoExecution(context.value), steps)

-----------------------------------------------------------------------------
(* The value a cell shows *)

RuntimeField(id, column, pipeline, formula, keys, derived, emptyWhenZero) ==
  [id |-> id, type |-> column, formattersPipeline |-> pipeline, formulaId |-> formula, formulaDependencies |-> keys,
   purelyDerived |-> derived, emptyWhenZero |-> emptyWhenZero]
ResolvePipelineSourceValue(raw, row, field) ==
  LET Of(execution) == IF execution.ok THEN [value |-> Number(execution.value), empty |-> FALSE]
                       ELSE [value |-> IF field.purelyDerived THEN None ELSE raw, empty |-> field.purelyDerived]
  IN  IF field.formulaId = Text("") THEN [value |-> raw, empty |-> FALSE]
      ELSE Of(ExecuteTableFormula(TableFormulas, field.formulaId, row, field.formulaDependencies))

ExecutePipelineFormatting(value, field, context) ==
  LET Finished(steps, result) == IF FirstOf(steps, Typed) # 0 THEN result ELSE [result EXCEPT !.value = FormatTypedCellValue(@, field.type, <<>>)]
      By(executor) ==
        IF executor.ok THEN Finished(executor.steps, Execute(executor.steps, field.type, [context EXCEPT !.value = value]))
        ELSE NoExecution(FormatTypedCellValue(value, field.type, <<>>))
  IN  By(CompileFormattersPipelineExecutor(field.formattersPipeline))
FormatPipelineDisplayValue(field, context) ==
  LET Shown(source, shown) ==
        IF source.empty \/ (field.emptyWhenZero /\ IsZeroValue(source.value)) THEN [shown EXCEPT !.value = Text("")] ELSE shown
      Of(source) == Shown(source, ExecutePipelineFormatting(source.value, field, context))
  IN  Of(ResolvePipelineSourceValue(context.value, context.row, field))

-----------------------------------------------------------------------------
(* The fields the query must bring *)

StepDependencies(step) ==
  CASE HasFormulaSource(step) -> step.config.valueSource[1].dependencyIds
    [] step.type = Override /\ step.config.mode = "field" -> <<step.config.fieldKey>>
    [] step.type = Override /\ step.config.mode = "formula" -> OrElse(step.config.dependencyIds, <<>>)
    [] OTHER -> <<>>
\* addUnique
AddUnique(ids, id) == IF IsBlank(id) \/ Trim(id) \in Range(ids) THEN ids ELSE Append(ids, Trim(id))
CollectFormattersPipelineDependencyIds(config) ==
  LET Of(plan) == FoldLeft(AddUnique, <<>>, FlattenSeq([i \in DOMAIN plan |-> StepDependencies(plan[i])]))
  IN  Of(OrElse(ValidateFormattersPipelineConfig(config).plan, <<>>))
\* known: the fields by id; the bindings are those of the renderers
CollectRuntimeFieldDependencyIds(fieldIds, known, bindings) ==
  LET asked == FlattenSeq([i \in DOMAIN fieldIds |->
                 IF fieldIds[i] \in DOMAIN known
                 THEN bindings[fieldIds[i]] \o CollectFormattersPipelineDependencyIds(known[fieldIds[i]].formattersPipeline) ELSE <<>>])
      Split(ids) == [required |-> SelectSeq(ids, LAMBDA id : id \in DOMAIN known), missing |-> SelectSeq(ids, LAMBDA id : id \notin DOMAIN known)]
  IN  Split(FoldLeft(AddUnique, <<>>, asked))

-----------------------------------------------------------------------------
(* New ids, and the reading of a stored configuration *)

Fresh(n) == Text("#" \o ToString(n))
Inner(nodes) == {i \in DOMAIN nodes : ~ IsEnd(nodes[i])}
RekeyGraph(graph) ==
  LET NewId(i) == IF IsEnd(graph.nodes[i]) THEN graph.nodes[i].id ELSE Fresh(Cardinality({j \in Inner(graph.nodes) : j <= i}))
      \* a Map: the last node of an id counts
      Renamed(id) == LET of == {i \in DOMAIN graph.nodes : graph.nodes[i].id = id} IN IF of = {} THEN id ELSE NewId(Max(of))
      count == Cardinality(Inner(graph.nodes))
  IN  [nodes |-> [i \in DOMAIN graph.nodes |-> [graph.nodes[i] EXCEPT !.id = Renamed(@)]],
       edges |-> [i \in DOMAIN graph.edges |-> Edge(Fresh(count + i), Renamed(graph.edges[i].source), Renamed(graph.edges[i].target))]]
RekeyPlan(steps, after) == [i \in DOMAIN steps |-> [steps[i] EXCEPT !.id = Fresh(after + i)]]
RekeyFormattersPipelineConfig(config) ==
  LET Plan(fromGraph, after) ==
        CASE fromGraph # <<>> -> fromGraph
          [] fromGraph = <<>> /\ config.plan # <<>> -> <<RekeyPlan(config.plan[1], after)>>
          [] OTHER -> <<>>
      With(graph) == Config(config.version, Plan(ValidateFormattersPipelineGraph(graph).plan, Cardinality(Inner(graph.nodes)) + Len(graph.edges)), <<graph>>)
  IN  IF config.graph = <<>> THEN Config(config.version, Plan(<<>>, 0), <<>>) ELSE With(RekeyGraph(config.graph[1]))

IsOptionalBoolean(x) == x = None \/ x[1] = "boolean"
IsOptionalString(x) == x = None \/ IsText(x)
AreStrings(ids) == \A i \in DOMAIN ids : IsText(ids[i])
IsTypedValueFormatConfig(config) == config = <<>> \/ (IsOptionalString(config[1].numberPresetName) /\ IsOptionalString(config[1].datePresetName))
IsRowBasedOverrideConfig(config) ==
  /\ config.mode \in {"field", "formula"}
  /\ IsOptionalBoolean(config.fallbackToRaw)
  /\ IF config.mode = "field" THEN IsText(config.fieldKey)
     ELSE IsText(config.formulaId) /\ (config.dependencyIds = <<>> \/ AreStrings(config.dependencyIds[1]))
IsThresholdDefinition(threshold) == threshold.boundary \in {"lower", "upper"}
IsResolver(resolver) ==
  CASE resolver.kind = "fixed" -> /\ \A i \in DOMAIN resolver.entries : resolver.entries[i].state \in States
                                  /\ OrElse(resolver.fallback, "none") \in States
    [] resolver.kind = "threshold" -> /\ \A i \in DOMAIN resolver.thresholds : IsThresholdDefinition(resolver.thresholds[i])
                                      /\ Range(resolver.states) \cup {OrElse(resolver.invalid, "none")} \subseteq States
    [] OTHER -> FALSE
IsResolveValueStateConfig(config) ==
  /\ config.valueSource = <<>> \/ config.valueSource[1].kind = "value"
       \/ (config.valueSource[1].kind = "formula" /\ IsText(config.valueSource[1].formulaId) /\ AreStrings(config.valueSource[1].dependencyIds))
  /\ config.icon = <<>> \/ (/\ IsOptionalBoolean(config.icon[1].enabled) /\ IsOptionalBoolean(config.icon[1].showValue)
                            /\ config.icon[1].position \in {None, Text("left"), Text("right")})
  /\ IsResolver(config.resolver)
IsPipelineStep(step) ==
  /\ IsText(step.id) /\ step.type \in FormatterTypes
  /\ CASE step.type = Zeros -> step.config = <<>> \/ step.config[1].fixed[1] \in {"none", "number"}
       [] step.type = Override -> IsRowBasedOverrideConfig(step.config)
       [] step.type = State -> IsResolveValueStateConfig(step.config)
       [] step.type = Typed -> IsTypedValueFormatConfig(step.config)
IsPipelineNode(node) == node.position # <<>> /\ IF IsEnd(node) THEN IsText(node.id) ELSE IsPipelineStep(node)
IsPipelineEdge(edge) == IsText(edge.id) /\ IsText(edge.source) /\ IsText(edge.target)
IsPipelineConfig(config) ==
  /\ config.version = Version /\ (config.plan # <<>> \/ config.graph # <<>>)
  /\ config.plan # <<>> => \A i \in DOMAIN config.plan[1] : IsPipelineStep(config.plan[1][i])
  /\ config.graph # <<>> => /\ \A i \in DOMAIN config.graph[1].nodes : IsPipelineNode(config.graph[1].nodes[i])
                            /\ \A i \in DOMAIN config.graph[1].edges : IsPipelineEdge(config.graph[1].edges[i])
NormalizeFormattersPipelineConfig(config) == IF IsPipelineConfig(config) /\ ValidateFormattersPipelineConfig(<<config>>).ok THEN <<config>> ELSE <<>>

-----------------------------------------------------------------------------
(* What is promised *)

\* A graph is accepted exactly when its nodes make one chain from the source to the sink, every
\* node once and no edge beside the chain, and the steps along it are accepted as a plan.
IsChain(graph, order) ==
  /\ graph.nodes[order[1]].type = "source" /\ graph.nodes[order[Len(order)]].type = "sink"
  /\ \A i \in 2 .. Len(order) - 1 : ~ IsEnd(graph.nodes[order[i]])
  /\ Len(graph.edges) = Len(order) - 1
  /\ \A i \in 1 .. Len(order) - 1 : \E e \in Range(graph.edges) :
       Trim(e.source) = graph.nodes[order[i]].id /\ Trim(e.target) = graph.nodes[order[i + 1]].id
PathIsWhole(graph) ==
  LET orders == {s \in [DOMAIN graph.nodes -> DOMAIN graph.nodes] : graph.nodes # <<>> /\ IsInjective(s) /\ IsChain(graph, s)}
      StepOf(node) == Step(node.id, node.type, node.config)
      chains == {[i \in 1 .. Len(order) - 2 |-> StepOf(graph.nodes[order[i + 1]])] : order \in orders}
      Agrees(said) == /\ said.ok <=> /\ ~ Repeats(graph.nodes) /\ ~ Repeats(graph.edges)
                                     /\ \E steps \in chains : ValidateFormattersPipelinePlan(steps).ok
                      /\ said.ok => said.plan[1] \in chains
  IN  Agrees(ValidateFormattersPipelineGraph(graph))

\* The ids of a configuration carry no blanks around them: an id is trimmed when it is collected
\* or when an edge is followed, and taken as it is when a row is read or an id is renamed.
PlainSteps(steps) == \A i \in DOMAIN steps : \A id \in Range(StepDependencies(steps[i])) : id = Trim(id)
PlainEdges(graph) == \A e \in Range(graph.edges) : e.source = Trim(e.source) /\ e.target = Trim(e.target)

\* The cell shows the same whatever the fields hold that the query was not asked to bring.
OnlyDeclaredFieldsAreRead(steps, column, context, other) ==
  LET Unasked(declared) == [context EXCEPT !.row = [key \in DOMAIN @ |-> IF key \in declared THEN @[key] ELSE other]]
  IN  ValidateFormattersPipelinePlan(steps).ok /\ PlainSteps(steps)
        => Execute(steps, column, context)
             = Execute(steps, column, Unasked(Range(CollectFormattersPipelineDependencyIds(<<Config(Version, <<steps>>, <<>>)>>))))

\* Nothing is shown as a success that was computed from data that is missing, and the state
\* does not depend on how the value is written afterwards.
StatesAreOfData(steps, column, context) ==
  LET row == OrElse(context.stateRow, context.row)
      Lacks(step) == HasFormulaSource(step) /\ \E key \in Range(step.config.valueSource[1].dependencyIds) : FieldOf(row, key) \in {None, Null, Text(""), Padded("")}
      Holds(result, unformatted) ==
        /\ (\E i \in DOMAIN steps : Lacks(steps[i])) => result.state = "none" /\ ~ result.showIcon /\ result.icon = <<>>
        /\ [result EXCEPT !.value = None] = [unformatted EXCEPT !.value = None]
        /\ result.icon # <<>> => result.icon = <<result.state>> /\ result.showIcon
  IN  ValidateFormattersPipelinePlan(steps).ok =>
        Holds(Execute(steps, column, context), Execute(SelectSeq(steps, LAMBDA step : step.type # Typed), column, context))

\* A value derived by a formula shows nothing when the formula has no result, never the value it
\* stands for, and a configuration compiles exactly when it is valid.
DerivedIsNeverRaw(field, context, other) ==
  LET computed == ExecuteTableFormula(TableFormulas, field.formulaId, context.row, field.formulaDependencies).ok
      Holds(shown) == Cardinality(shown) = 1 /\ (~ computed => \A s \in shown : s.value = Text(""))
  IN  /\ field.purelyDerived /\ field.formulaId # Text("") =>
           Holds({FormatPipelineDisplayValue(field, x) : x \in {context, [context EXCEPT !.value = other]}})
      /\ CompileFormattersPipelineExecutor(field.formattersPipeline).ok <=> ValidateFormattersPipelineConfig(field.formattersPipeline).ok

\* A copy with new ids does what the original does, and shares none of its ids but those of the ends.
\* It takes plain edges, and a plan and a graph that agree.
CopiesAgree(config, column, context) ==
  LET Same(one, two) == Len(one) = Len(two) /\ \A i \in DOMAIN one : one[i].type = two[i].type /\ one[i].config = two[i].config
      Ids(one) == IF one.graph = <<>> THEN {} ELSE {n.id : n \in {x \in Range(one.graph[1].nodes) : ~ IsEnd(x)}} \cup {e.id : e \in Range(one.graph[1].edges)}
      Agree(graph, steps) == graph.ok => Same(graph.plan[1], steps)
      Copied(copy, told, steps) ==
        /\ told.ok
        /\ Execute(told.plan[1], column, context) = Execute(steps, column, context)
        /\ Ids(config) \cap Ids(copy) = {}
        /\ IsPipelineConfig(config) => NormalizeFormattersPipelineConfig(copy) = <<copy>>
      By(copy, steps) == Copied(copy, ValidateFormattersPipelineConfig(<<copy>>), steps)
      Of(said) ==
        /\ said.ok /\ (config.graph # <<>> => PlainEdges(config.graph[1]))
        /\ config.plan # <<>> /\ config.graph # <<>> => Agree(ValidateFormattersPipelineGraph(config.graph[1]), said.plan[1])
        => By(RekeyFormattersPipelineConfig(config), said.plan[1])
  IN  Of(ValidateFormattersPipelineConfig(<<config>>))
=============================================================================
