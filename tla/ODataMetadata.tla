--------------------------- MODULE ODataMetadata ---------------------------
(***************************************************************************)
(* src/odata-service/parser.ts: the EDMX document of an OData V2 service   *)
(* is read into the entities and functions the tables and filters work on. *)
(*                                                                         *)
(* Abstraction.  A document is the sequences of its elements, in document  *)
(* order, and an element is the record of its attributes.  A column id is  *)
(* a sequence of parts, the last of which may be a text suffix, so that    *)
(* <<"K", "_txt">> is "K_txt"; Upper puts a name in upper case.  A         *)
(* qualified name of an association is a pair of a namespace and a short   *)
(* name.  Labels, titles and sizes are left out.  None stands for a        *)
(* missing id, NoName for any other missing name.                          *)
(***************************************************************************)
EXTENDS Integers, Sequences, FiniteSets, SequencesExt

None == <<>>
NoName == ""
\* The later of the elements with a key stands for all of them.
LastOf(elements, Chosen(_)) ==
  LET Of(found) == SubSeq(found, IF found = <<>> THEN 1 ELSE Len(found), Len(found)) IN Of(SelectSeq(elements, Chosen))

-----------------------------------------------------------------------------
(* Columns *)

TextSuffixes == {"_txt", "_text", "_t"}
UpperParts == [k |-> "K", _txt |-> "_TXT", _text |-> "_TEXT", _t |-> "_T"]
Upper(id) == [i \in DOMAIN id |-> IF id[i] \in DOMAIN UpperParts THEN UpperParts[id[i]] ELSE id[i]]
HasTextSuffix(id) == Len(id) > 1 /\ Upper(id)[Len(id)] \in {UpperParts[s] : s \in TextSuffixes}
\* The parts before the suffix, as the expression captures them; "" without one.
WithoutTextSuffix(id) == IF HasTextSuffix(id) THEN Front(id) ELSE None

ForcedCodeTextIds == {<<"ZDIV">>, <<"ZCFO1">>}
IsForcedCodeTextId(id) == Upper(id) \in ForcedCodeTextIds
IsForcedCodeTextFamilyId(id) == IsForcedCodeTextId(id) \/ WithoutTextSuffix(Upper(id)) \in ForcedCodeTextIds

Column(id, role, link) == [id |-> id, role |-> role, link |-> link, semantic |-> "none", sortable |-> TRUE, filterable |-> TRUE]

ResolveColumnIdByCaseInsensitive(columns, id) ==
  LET Of(found) == IF id = None \/ found = <<>> THEN None ELSE found[1].id IN Of(LastOf(columns, LAMBDA c : Upper(c.id) = Upper(id)))

FindTextColumnForCodeId(id, columns) ==
  LET First(code, texts) == IF code = None \/ texts = <<>> THEN None ELSE texts[1].id
      Of(code) == First(code, SelectSeq(columns, LAMBDA c : WithoutTextSuffix(Upper(c.id)) = Upper(code)))
  IN  Of(ResolveColumnIdByCaseInsensitive(columns, id))

\* columnsById: the position of the last column with the id, or 0.
At(columns, id) == Max({0} \cup {i \in DOMAIN columns : columns[i].id = id})
IsDimension(columns, i) == i # 0 /\ columns[i].role = "dimension"

\* What the metadata says of a column.
Declared(columns, i) ==
  LET c == columns[i]
      Linked(link) == [c EXCEPT !.sortable = TRUE, !.filterable = TRUE, !.semantic = IF HasTextSuffix(c.id) THEN "text" ELSE "code",
                                !.link = IF link = c.id THEN None ELSE link]
  IN  IF c.role = "measure" THEN [c EXCEPT !.semantic = "none", !.link = None]
      ELSE Linked(ResolveColumnIdByCaseInsensitive(columns, c.link))

\* The text of a code: the declared one, or the one whose name says so.
WithTextOfCode(columns, i) ==
  LET c == columns[i]
      Linked(text, t) == IF IsDimension(columns, t) THEN [columns EXCEPT ![i].link = text, ![t].semantic = "text", ![t].link = c.id]
                         ELSE [columns EXCEPT ![i].link = text]
      To(text) == Linked(text, At(columns, text))
  IN  IF c.role # "dimension" \/ c.semantic # "code" THEN columns
      ELSE To(IF IsDimension(columns, At(columns, c.link)) THEN c.link ELSE FindTextColumnForCodeId(c.id, columns))

\* The code of a text, likewise; a code keeps the text it already has.
WithCodeOfText(columns, i) ==
  LET c == columns[i]
      Linked(code, k) ==
        IF IsDimension(columns, k) THEN [columns EXCEPT ![i].link = code, ![k].semantic = "code", ![k].link = IF @ = None THEN c.id ELSE @]
        ELSE [columns EXCEPT ![i].link = None]
      To(code) == Linked(code, At(columns, code))
  IN  IF c.role # "dimension" \/ c.semantic # "text" THEN columns
      ELSE To(IF IsDimension(columns, At(columns, c.link)) THEN c.link ELSE ResolveColumnIdByCaseInsensitive(columns, WithoutTextSuffix(c.id)))

NormalizeColumns(columns) ==
  LET declared == [i \in DOMAIN columns |-> Declared(columns, i)]
      order == [i \in DOMAIN columns |-> i]
  IN  FoldLeft(WithCodeOfText, FoldLeft(WithTextOfCode, declared, order), order)

-----------------------------------------------------------------------------
(* Elements *)

Property(name, edm, link, measure) ==
  [name |-> name, edm |-> edm, link |-> link, measure |-> measure, mandatory |-> FALSE, nullable |-> TRUE, mode |-> "In"]
MapEdmToServiceType ==
  [String |-> "string", Guid |-> "guid", Boolean |-> "boolean", Int16 |-> "int", Int32 |-> "int", Int64 |-> "long",
   Single |-> "float", Decimal |-> "decimal", Double |-> "double", DateTime |-> "datetime", DateTimeOffset |-> "datetimeOffset",
   Time |-> "time", Binary |-> "binary", Byte |-> "byte"]
\* A type outside "Edm." is complex; one that is not in the table is not supported and the parser throws.
IsScalarEdmPropertyType(edm) == edm # "complex"
Supported(elements) == \A i \in DOMAIN elements : elements[i].edm \in DOMAIN MapEdmToServiceType

CreateParameterProperty(p) == [id |-> p.name, type |-> MapEdmToServiceType[p.edm], mandatory |-> p.mandatory]
CreateColumnProperty(p) == Column(p.name, IF p.measure THEN "measure" ELSE "dimension", p.link)

\* The counter of a set and the formatted values of the service are not the user's.
PropertyFilter(p) ==
  /\ p.name # None /\ IsScalarEdmPropertyType(p.edm)
  /\ p.name \notin {<<"CNT">>, <<"cnt">>} /\ Upper(p.name)[Len(p.name)] # "_F"
ColumnPropertyFilter(p) == PropertyFilter(p)
GetProperties(type) == SelectSeq(type.properties, PropertyFilter)
Parameters(properties) == [i \in DOMAIN properties |-> CreateParameterProperty(properties[i])]
Forced(parameters, keys) == [i \in DOMAIN parameters |-> [parameters[i] EXCEPT !.mandatory = @ \/ parameters[i].id \in keys]]
GetParametersProperties(type) == Parameters(GetProperties(type))
GetParametersPropertiesWithKey(type) == Forced(GetParametersProperties(type), type.keys)
GetColumnsProperties(type) ==
  LET ColumnsOf(kept) == [i \in DOMAIN kept |-> CreateColumnProperty(kept[i])]
  IN  NormalizeColumns(ColumnsOf(SelectSeq(type.properties, ColumnPropertyFilter)))

(* The maps of a document, as sequences without repeated keys (none or one *)
(* element is found).                                                      *)
TypeNamed(doc, name) == LastOf(doc.types, LAMBDA t : t.name = name)
EntitySets(doc) == {s \in ToSet(doc.sets) : s.name # NoName /\ s.type # NoName}
TypeOfSet(doc, name) ==
  LET Of(set) == IF set = <<>> THEN <<>> ELSE TypeNamed(doc, set[1].type) IN Of(LastOf(doc.sets, LAMBDA s : s.name = name /\ s.type # NoName))
\* An association is found by its qualified and by its short name, whichever was written last.
AssociationSet(doc, relationship) ==
  LastOf(doc.associations, LAMBDA a : relationship # None /\ relationship \in {a.name, <<"", a.name[2]>>})

EndsOf(association) == SelectSeq(association.ends, LAMBDA e : e.role # "" /\ e.set # NoName)
FindResultNavigation(doc, type) ==
  LET Ends(association) == IF association = <<>> THEN <<>> ELSE EndsOf(association[1])
      \* the end at "to", else the one that is not at "from"
      Chosen(n, ends) == SelectSeq(ends, LAMBDA e : e.role = n.to) \o SelectSeq(ends, LAMBDA e : e.role # n.from)
      SetOf(end) == IF end = <<>> THEN NoName ELSE end[1].set
      Of(n) == [name |-> n.name, target |-> SetOf(Chosen(n, Ends(AssociationSet(doc, n.relationship))))]
      First(results) == [i \in DOMAIN results \cap {1} |-> Of(results[i])]
  IN  First(SelectSeq(type.navigations, LAMBDA n : n.name \in {"Set", "Results"}))
Target(navigation) == IF navigation = <<>> THEN NoName ELSE navigation[1].target

\* The sets that only hold the results of another one.
InternalEntitySetNames(doc) ==
  LET TargetOf(type) == IF type = <<>> THEN NoName ELSE Target(FindResultNavigation(doc, type[1]))
  IN  UNION {{TargetOf(TypeOfSet(doc, s.name))} \ {s.name, NoName} : s \in EntitySets(doc)}

ResolveColumnsEntityType(doc, type, navigation) ==
  LET Of(result) == IF result = <<>> THEN type ELSE result[1]
  IN  Of(IF Target(navigation) = NoName THEN <<>> ELSE TypeOfSet(doc, Target(navigation)))
HasParameters(type, navigation) == navigation # <<>> \/ ~ type.endsInType
ResolveEntityParameters(type, navigation) ==
  IF navigation # <<>> THEN GetParametersProperties(type)
  ELSE IF type.endsInType THEN <<>> ELSE GetParametersPropertiesWithKey(type)

ActionForKeyIds(doc, actionFor) ==
  LET Of(type) == IF actionFor = NoName \/ type = <<>> THEN {} ELSE type[1].keys \ {None} IN Of(TypeNamed(doc, actionFor))

CreateFunctionImportParameterProperty(p) == [CreateParameterProperty(p) EXCEPT !.mandatory = @ \/ ~ p.nullable]
\* A parameter that is not an input, or not a scalar, is refused with an error.
FunctionImportFails(f) ==
  \E i \in DOMAIN f.parameters : LET p == f.parameters[i] IN p.mode # "In" \/ ~ IsScalarEdmPropertyType(p.edm) \/ ~ Supported(<<p>>)
ParseFunctionImport(doc, f) ==
  [name |-> f.name,
   parameters |-> Forced([i \in DOMAIN f.parameters |-> CreateFunctionImportParameterProperty(f.parameters[i])], ActionForKeyIds(doc, f.actionFor)),
   result |-> IF \E s \in EntitySets(doc) : s.name = f.set THEN f.set ELSE NoName]

ExposedSets(doc) == {name \in {s.name : s \in EntitySets(doc)} : TypeOfSet(doc, name) # <<>>} \ InternalEntitySetNames(doc)
EntityOf(doc, name) ==
  LET Of(type, navigation) == [columns |-> GetColumnsProperties(ResolveColumnsEntityType(doc, type, navigation)),
                               parameters |-> ResolveEntityParameters(type, navigation),
                               result |-> IF navigation = <<>> THEN "none" ELSE navigation[1].name]
      OfType(type) == Of(type, FindResultNavigation(doc, type))
  IN  OfType(TypeOfSet(doc, name)[1])
EntityFails(doc, name) ==
  LET Of(type, navigation) == \/ ~ Supported(GetProperties(ResolveColumnsEntityType(doc, type, navigation)))
                              \/ HasParameters(type, navigation) /\ ~ Supported(GetProperties(type))
      OfType(type) == Of(type, FindResultNavigation(doc, type))
  IN  OfType(TypeOfSet(doc, name)[1])

Fails(doc) == (\E name \in ExposedSets(doc) : EntityFails(doc, name)) \/ (\E i \in DOMAIN doc.functions : FunctionImportFails(doc.functions[i]))
ParseServiceMetadata(doc) ==
  IF Fails(doc) THEN [failed |-> TRUE]
  ELSE [entities |-> [name \in ExposedSets(doc) |-> EntityOf(doc, name)],
        functions |-> [name \in {f.name : f \in ToSet(doc.functions)} |->
                         ParseFunctionImport(doc, LastOf(doc.functions, LAMBDA f : f.name = name)[1])]]

-----------------------------------------------------------------------------
(* What the parser promises *)

\* A link leads to another column, and from a text only to a dimension; measures have none.
LinksAreColumns(columns) ==
  LET Leads(normal, i, j) == j \notin {0, i} /\ normal[i].role = "dimension" /\ (normal[i].semantic = "text" => IsDimension(normal, j))
      All(normal) == \A i \in DOMAIN normal : normal[i].link # None => Leads(normal, i, At(normal, normal[i].link))
  IN  All(NormalizeColumns(columns))

\* When no column is claimed by two others, by its name or by sap:text, every claim makes a pair of a code and a text.
Claims(c, d) == c.id # d.id /\ (Upper(c.link) = Upper(d.id) \/ WithoutTextSuffix(Upper(d.id)) = Upper(c.id))
WellDescribed(columns) ==
  \A i \in DOMAIN columns :
    LET partners == {j \in DOMAIN columns : Claims(columns[i], columns[j]) \/ Claims(columns[j], columns[i])}
    IN  Cardinality(partners) <= 1 /\ (partners # {} => columns[i].role = "dimension")
LinksArePairs(columns) ==
  LET Pairs(normal) ==
        \A i, j \in DOMAIN columns :
          /\ Claims(columns[i], columns[j]) => {normal[i].link, normal[j].link} = {columns[i].id, columns[j].id}
          /\ normal[i].link = columns[j].id =>
               normal[j].link = columns[i].id /\ {normal[i].semantic, normal[j].semantic} = {"code", "text"}
  IN  WellDescribed(columns) => Pairs(NormalizeColumns(columns))

\* A set of a known type is exposed, or holds the results of another set.
SetsAreReached(doc) ==
  LET Reached(exposed) ==
        \A s \in EntitySets(doc) : TypeOfSet(doc, s.name) # <<>> /\ s.name \notin exposed =>
          \E e \in exposed : Target(FindResultNavigation(doc, TypeOfSet(doc, e)[1])) = s.name
  IN  Reached(ExposedSets(doc))

\* When the document is read, a parameter of a function that is a key of what it acts on, or may not be null, is mandatory.
ParametersAreMarked(doc) ==
  LET Marked(f, read, target) == \A j \in DOMAIN f.parameters :
        read.parameters[j].mandatory <=> \/ f.parameters[j].mandatory \/ ~ f.parameters[j].nullable
                                         \/ target # <<>> /\ f.parameters[j].name \in target[1].keys
      All(read) == "functions" \in DOMAIN read =>
        \A f \in ToSet(doc.functions) : Marked(f, read.functions[f.name], TypeNamed(doc, f.actionFor))
  IN  All(ParseServiceMetadata(doc))
=============================================================================
