------------------------- MODULE ErrorReportPayloads -------------------------
(***************************************************************************)
(* src/error-report/: the payload of a report.  Errors, queries, mutations *)
(* and clicks are described, the payload is cleaned and made to fit the    *)
(* transport, and the schema accepts it or not; the queue stores it and    *)
(* reads it again.                                                         *)
(*                                                                         *)
(* Abstraction.  Texts and values are those of ErrorReportValues.  Fields  *)
(* that are only passed on (statuses, times, counts, the mode) are left    *)
(* out; a viewport is its size in bytes.  The sizes of names and brackets  *)
(* of the JSON are rounded to Name.                                        *)
(***************************************************************************)
EXTENDS ErrorReportValues

CONSTANTS
  MaxBytes,            \* ERROR_REPORT_PAYLOAD_MAX_BYTES
  MaxDiagnostics,      \* of queries, mutations and persisted queries each
  MaxBreadcrumbs,
  ReducedDiagnostics, ReducedBreadcrumbs, ReducedPreviewByteLimits,
  MaxChain,            \* MAX_ELEMENT_CHAIN
  MaxRecords,          \* ERROR_REPORT_QUEUE_MAX_ITEMS
  MaxOwner             \* QUEUE_LEASE_OWNER_MAX_LENGTH

Truthy(text) == SelectSeq(text, LAMBDA t : t # <<>>)
All(Of(_), s) == FlattenSeq(Each(Of, s))
CleanText(text, n, o) == Each(LAMBDA t : SanitizeDiagnosticText(t, n, o), Truthy(text))
Latest(s, n) == SubSeq(s, IF Len(s) > n THEN Len(s) - n + 1 ELSE 1, Len(s))

-----------------------------------------------------------------------------
(* Errors *)

ErrorInfo(name, message, code, stackTrace, status) ==
  [name |-> name, message |-> message, code |-> code, stackTrace |-> stackTrace, httpStatus |-> status]
DefaultName == <<"Error">>
DefaultMessage == <<"unknown">>
IsBlank(t) == \A i \in DOMAIN t : t[i] = " "
ResolveErrorMessage(t, o) ==
  IF IsBlank(t) THEN DefaultMessage
  ELSE IF o.verbatim THEN SanitizeDiagnosticTextBytes(t, Limits.verbatimMessage, o) ELSE SanitizeDiagnosticText(t, MaxString, o)

\* What was thrown: the failure of a server function, an Error, another object, or anything else.
Thrown(kind, name, message, code, stack, status) ==
  [kind |-> kind, name |-> name, message |-> message, code |-> code, stack |-> stack, status |-> status]
Trace(stack, o) == Each(LAMBDA t : SanitizeDiagnosticTextBytes(t, Limits.stackTrace, o), stack)
CreateErrorInfo(e, o) ==
  LET app == e.kind = "app" /\ ~ IsBlank(e.message)
      thrown == IF app THEN <<>> ELSE CASE e.kind = "error" -> Truthy(e.name) [] e.kind \in {"object", "app"} -> e.name [] OTHER -> <<>>
      stack == IF app THEN <<>> ELSE CASE e.kind = "error" -> Truthy(e.stack) [] e.kind \in {"object", "app"} -> e.stack [] OTHER -> <<>>
      name == IF app THEN <<"AppError">> ELSE SanitizeDiagnosticText(OneOf(thrown, DefaultName), Limits.name, o)
      code == IF app THEN SelectSeq(e.code, LAMBDA t : ~ IsBlank(t)) ELSE <<>>
  IN  ErrorInfo(name, ResolveErrorMessage(e.message, o), CleanText(code, Limits.code, o), Trace(stack, o),
                IF app \/ e.kind \in {"object", "app"} THEN e.status ELSE <<>>)

\* The built-in cleaning, the application's, and the built-in one again.
SanitizeScopedText(t, n, inBytes, o) ==
  LET Clean(x) == IF inBytes THEN SanitizeDiagnosticTextBytes(x, n, o) ELSE SanitizeDiagnosticText(x, n, o)
      IsText(x) == x[1] = "text"
      Through(Cleaned(_)) ==
        LET Of(texts) == Each(LAMBDA x : Cleaned(x[2]), texts)
        IN  Of(SelectSeq(SanitizeErrorReportValue(Text(Cleaned(t)), FALSE, n, o), IsText))
  IN  Through(Clean)
SanitizeErrorInfo(e, o) ==
  LET most == IF o.verbatim THEN Limits.verbatimMessage ELSE Limits.message
      instead == IF o.verbatim THEN SanitizeDiagnosticTextBytes(e.message, most, o) ELSE RedactedText
      Of(Scoped(_, _, _)) ==
        [e EXCEPT !.name = SanitizeDiagnosticText(@, Limits.name, o), !.message = Head(Scoped(@, most, o.verbatim) \o <<instead>>),
                  !.code = CleanText(@, Limits.code, o),
                  !.stackTrace = All(LAMBDA t : Scoped(t, Limits.stackTrace, TRUE), Truthy(@))]
  IN  Of(LAMBDA t, n, inBytes : SanitizeScopedText(t, n, inBytes, o))

-----------------------------------------------------------------------------
(* Queries and mutations *)

\* What the cache of TanStack Query holds of a query, a mutation or a stored query.
Cached(key, meta, data, error) == [key |-> key, meta |-> meta, data |-> data, error |-> error]
Hash == <<"h">>
Errors(errors, o) == Each(LAMBDA e : CreateErrorInfo(e, o), errors)
PreviewOf(data, n, o) == IF o.verbatim /\ n > 0 /\ data # Undefined THEN <<CreateErrorReportDataPreview(data, n)>> ELSE <<>>
SafeKey(key, o) == SanitizeErrorReportValue(key, TRUE, MaxString, o)
RedactedKey == Marker("redacted")

CollectQueryDiagnostics(query, o) ==
  [queryHash |-> Hash, queryKey |-> OneOf(SafeKey(query.key, o), RedactedKey), meta |-> SanitizeDetail(query.meta, o),
   dataShape |-> SanitizeErrorReportValue(CreateDataShape(query.data), FALSE, MaxString, o),
   dataPreview |-> PreviewOf(query.data, o.bytes.query, o), error |-> Errors(query.error, o)]
CollectMutationDiagnostics(mutation, o) ==
  [mutationKey |-> IF mutation.key = Undefined THEN <<>> ELSE SafeKey(mutation.key, o), meta |-> SanitizeDetail(mutation.meta, o),
   variablesPreview |-> PreviewOf(mutation.data, o.bytes.mutation, o), error |-> Errors(mutation.error, o)]
CollectQueryClientDiagnostics(queries, mutations, o) ==
  LET Omitted(s) == IF o.verbatim /\ Len(s) > MaxDiagnostics THEN Len(s) - MaxDiagnostics ELSE 0
  IN  [queries |-> Each(LAMBDA query : CollectQueryDiagnostics(query, o), Latest(queries, MaxDiagnostics)),
       mutations |-> Each(LAMBDA mutation : CollectMutationDiagnostics(mutation, o), Latest(mutations, MaxDiagnostics)),
       omittedQueries |-> Omitted(queries), omittedMutations |-> Omitted(mutations)]
CollectPersistedStateDiagnostics(query, buster, o) ==
  LET Of(key) == [buster |-> CleanText(<<buster>>, Limits.buster, o), queryHash |-> IF o.verbatim \/ key # <<>> THEN <<Hash>> ELSE <<>>, queryKey |-> key,
                  dataPreview |-> PreviewOf(query.data, o.bytes.persistedQuery, o), error |-> Errors(query.error, o)]
  IN  Of(SafeKey(query.key, o))

ReducePreview(previews, n) == Each(LAMBDA x : IF JsonSize(x.json) <= n THEN x ELSE Preview(CreateErrorReportDataPreview(x.json, n).json, TRUE), previews)
NormalizeDataPreview(previews, n, o) == IF ~ o.verbatim \/ n <= 0 THEN <<>> ELSE ReducePreview(previews, n)
SanitizeErrors(errors, o) == Each(LAMBDA e : SanitizeErrorInfo(e, o), errors)
SafeKeys(keys, o) == All(LAMBDA key : SafeKey(key, o), keys)
SanitizeQueryDiagnostics(query, o) ==
  [query EXCEPT !.queryHash = SanitizeDiagnosticText(@, Limits.queryHash, o), !.queryKey = OneOf(SafeKey(@, o), RedactedKey), !.meta = SanitizeDetail(@, o),
                !.dataShape = All(LAMBDA shape : SanitizeErrorReportValue(shape, FALSE, MaxString, o), @),
                !.dataPreview = NormalizeDataPreview(@, o.bytes.query, o), !.error = SanitizeErrors(@, o)]
SanitizeMutationDiagnostics(mutation, o) ==
  [mutation EXCEPT !.mutationKey = SafeKeys(@, o), !.meta = SanitizeDetail(@, o),
                   !.variablesPreview = NormalizeDataPreview(@, o.bytes.mutation, o), !.error = SanitizeErrors(@, o)]
SanitizePersistedQueryDiagnostics(query, o) ==
  [query EXCEPT !.buster = CleanText(@, Limits.buster, o), !.queryHash = CleanText(@, Limits.queryHash, o), !.queryKey = SafeKeys(@, o),
                !.dataPreview = NormalizeDataPreview(@, o.bytes.persistedQuery, o), !.error = SanitizeErrors(@, o)]

-----------------------------------------------------------------------------
(* Breadcrumbs *)

\* An element of the page: the kind of each of its technical attributes, and whether it is a
\* button, a link, a field or has a role.
Attributes == {"role", "type", "target", "ui", "action"}
Element(tag, attributes, interactive) == [tag |-> tag, attributes |-> attributes, interactive |-> interactive]
ReadTechnicalAttribute(element, name) == IF element.attributes[name] = "safe" THEN {name} ELSE {}
ReadTechnicalAttributes(element) ==
  LET target == ReadTechnicalAttribute(element, "target")
      Read(name) == ReadTechnicalAttribute(element, name)
  IN  Read("role") \cup Read("type") \cup target \cup (IF target = {} THEN Read("ui") \cup Read("action") ELSE {})
BuildElementSelector(element) == <<element.tag, ReadTechnicalAttributes(element)>>
\* Of the elements from the clicked one outwards: up to the body, and not too many.
GetClickElementChain(path) ==
  LET end == SelectInSeq(path, LAMBDA e : e.tag \in {"body", "html"})
      inside == IF end = 0 THEN path ELSE SubSeq(path, 1, IF path[end].tag = "html" THEN end - 1 ELSE end)
  IN  SubSeq(inside, 1, AtMost(Len(inside), MaxChain))
FindMeaningfulClickTarget(path) ==
  LET chain == GetClickElementChain(path)
      explicit == SelectInSeq(chain, LAMBDA e : ReadTechnicalAttribute(e, "target") # {})
      technical == SelectInSeq(chain, LAMBDA e : e.interactive \/ ReadTechnicalAttribute(e, "action") # {} \/ ReadTechnicalAttribute(e, "ui") # {})
  IN  IF explicit # 0 THEN explicit ELSE IF technical # 0 THEN technical ELSE 1
DescribeClickTarget(path) ==
  LET chain == GetClickElementChain(SubSeq(path, FindMeaningfulClickTarget(path), Len(path)))
  IN  Each(BuildElementSelector, chain)

Breadcrumb(utc, routeId, names, target, detail) ==
  [utc |-> utc, routeId |-> routeId, names |-> names, target |-> target, detail |-> detail]
CleanBreadcrumb(b, o) ==
  [b EXCEPT !.utc = SanitizeDiagnosticText(@, Limits.utc, o), !.routeId = CleanText(@, Limits.routeId, o), !.names = CleanText(@, Limits.appId, o),
            !.target = CleanText(@, Limits.target, o), !.detail = SanitizeDetail(@, o)]
AddErrorReportBreadcrumb(breadcrumbs, b, o) ==
  Latest(Append(breadcrumbs, CleanBreadcrumb(IF o.verbatim THEN b ELSE [b EXCEPT !.routeId = Each(WithoutSearch, Truthy(@))], o)), MaxBreadcrumbs)
GetErrorReportBreadcrumbs(added, o) == FoldLeft(LAMBDA trail, b : AddErrorReportBreadcrumb(trail, b, o), <<>>, added)

-----------------------------------------------------------------------------
(* The payload *)

Identity == {"reportId", "sessionId", "createdUtc", "category", "application", "source"}
Client(userAgent, language, timeZone) == [userAgent |-> userAgent, language |-> language, timeZone |-> timeZone]
Location(pathname, origin, search, hash) == [pathname |-> pathname, origin |-> origin, search |-> search, hash |-> hash]
QueryClient(queries, mutations, omittedQueries, omittedMutations) ==
  [queries |-> queries, mutations |-> mutations, omittedQueries |-> omittedQueries, omittedMutations |-> omittedMutations]
Truncation(originalBytes, droppedSections) == [originalBytes |-> originalBytes, droppedSections |-> droppedSections]

SanitizePathname(t, o) == SanitizeDiagnosticText(IF o.verbatim THEN t ELSE WithoutSearch(t), Limits.location, o)
SanitizeLocation(location, o) ==
  [pathname |-> SanitizePathname(location.pathname, o),
   origin |-> CleanText(Each(WithoutSearch, location.origin), Limits.location, o),
   search |-> IF o.verbatim THEN CleanText(location.search, Limits.location, o) ELSE <<>>,
   hash |-> IF o.verbatim THEN CleanText(location.hash, Limits.location, o) ELSE <<>>]
SanitizeClient(client, o) ==
  Client(CleanText(client.userAgent, MaxString, o), CleanText(client.language, Limits.language, o), CleanText(client.timeZone, Limits.timeZone, o))
NormalizePayloadStrings(p, o) ==
  LET Omitted(n, s) == IF ~ o.verbatim THEN 0 ELSE n + Len(s) - Len(Latest(s, MaxDiagnostics))
      Of(Query(_), Mutation(_), Info(_), Component(_)) ==
        LET Known(c) == QueryClient(Each(Query, Latest(c.queries, MaxDiagnostics)), Each(Mutation, Latest(c.mutations, MaxDiagnostics)),
                                    Omitted(c.omittedQueries, c.queries), Omitted(c.omittedMutations, c.mutations))
        IN  [p EXCEPT
               !.reportId = SanitizeDiagnosticText(@, Limits.id, o), !.sessionId = SanitizeDiagnosticText(@, Limits.id, o),
               !.createdUtc = SanitizeDiagnosticText(@, Limits.utc, o), !.application = SanitizeDiagnosticText(@, Limits.application, o),
               !.source = SanitizeDiagnosticText(@, Limits.source, o), !.error = Info(@), !.buildId = CleanText(@, Limits.buildId, o),
               !.client = Each(LAMBDA c : SanitizeClient(c, o), @), !.location = Each(LAMBDA l : SanitizeLocation(l, o), @),
               !.react = Each(Component, SelectSeq(@, LAMBDA r : r # <<>> /\ r[1] # <<>>)),
               !.query = Each(Query, @), !.mutation = Each(Mutation, @), !.queryClient = Each(Known, @),
               !.persistedQueries = Each(LAMBDA s : Each(LAMBDA q : SanitizePersistedQueryDiagnostics(q, o), Latest(s, MaxDiagnostics)), @),
               !.breadcrumbs = Each(LAMBDA b : CleanBreadcrumb(b, o), Latest(@, MaxBreadcrumbs)), !.context = SanitizeDetail(@, o)]
  IN  Of(LAMBDA q : SanitizeQueryDiagnostics(q, o), LAMBDA m : SanitizeMutationDiagnostics(m, o), LAMBDA e : SanitizeErrorInfo(e, o),
         LAMBDA r : SanitizeScopedText(r[1], Limits.componentStack, TRUE, o))

\* What a payload is made of.
QueriesOf(p) == p.query \o All(LAMBDA c : c.queries, p.queryClient)
MutationsOf(p) == p.mutation \o All(LAMBDA c : c.mutations, p.queryClient)
PersistedOf(p) == FlattenSeq(p.persistedQueries)
ErrorsOf(p) == <<p.error>> \o All(LAMBDA x : x.error, QueriesOf(p)) \o All(LAMBDA x : x.error, MutationsOf(p)) \o All(LAMBDA x : x.error, PersistedOf(p))
PreviewsOf(p) == All(LAMBDA x : x.dataPreview, QueriesOf(p)) \o All(LAMBDA x : x.variablesPreview, MutationsOf(p)) \o All(LAMBDA x : x.dataPreview, PersistedOf(p))
TextsOf(p) ==
  <<p.reportId, p.sessionId, p.createdUtc, p.application, p.source>> \o p.buildId \o All(LAMBDA e : <<e.name, e.message>> \o e.code \o e.stackTrace, ErrorsOf(p))
    \o All(LAMBDA c : c.userAgent \o c.language \o c.timeZone, p.client) \o All(LAMBDA l : <<l.pathname>> \o l.origin \o l.search \o l.hash, p.location)
    \o FlattenSeq(p.react) \o All(LAMBDA q : <<q.queryHash>>, QueriesOf(p)) \o All(LAMBDA q : q.buster \o q.queryHash, PersistedOf(p))
    \o All(LAMBDA b : <<b.utc>> \o b.routeId \o b.names \o b.target, p.breadcrumbs)
ValuesOf(p) ==
  p.context \o All(LAMBDA q : <<q.queryKey>> \o q.meta \o q.dataShape, QueriesOf(p)) \o All(LAMBDA m : m.mutationKey \o m.meta, MutationsOf(p))
    \o All(LAMBDA q : q.queryKey, PersistedOf(p)) \o All(LAMBDA b : b.detail, p.breadcrumbs)

Name == 2
GetErrorReportPayloadSize(p) ==
  LET Sum(Size(_), s) == Total([i \in DOMAIN s |-> Name + Size(s[i])])
  IN  Sum(JsonText, TextsOf(p)) + Sum(JsonSize, ValuesOf(p) \o All(LAMBDA preview : <<preview.json>>, PreviewsOf(p)))
        + Sum(LAMBDA size : size, p.viewport) + Sum(LAMBDA mark : Name * Len(mark.droppedSections), p.truncation)

ReduceDataPreviews(p, n, background) ==
  LET Of(Reduced(_)) ==
        LET Queries(queries) == Each(LAMBDA q : [q EXCEPT !.dataPreview = Reduced(@)], queries)
            Mutations(mutations) == Each(LAMBDA m : [m EXCEPT !.variablesPreview = Reduced(@)], mutations)
        IN  IF background
            THEN [p EXCEPT !.queryClient = Each(LAMBDA c : [c EXCEPT !.queries = Queries(@), !.mutations = Mutations(@)], @),
                           !.persistedQueries = Each(Queries, @)]
            ELSE [p EXCEPT !.query = Queries(@), !.mutation = Mutations(@)]
  IN  Of(LAMBDA previews : ReducePreview(previews, n))

OldestQueries == "queryClient.queries:oldest"
OldestMutations == "queryClient.mutations:oldest"
OldestPersisted == "persistedQueries:oldest"
OldestBreadcrumbs == "breadcrumbs:oldest"
VerbatimSections == <<OldestQueries, OldestMutations, OldestPersisted>>
Sections == <<"queryClient", "persistedQueries", "context", "query.meta", "query.dataShape", "mutation.meta", OldestBreadcrumbs,
              "query", "mutation", "react", "breadcrumbs", "client", "viewport">>
IsPresent(p, section) ==
  CASE section = OldestQueries -> Len(All(LAMBDA c : c.queries, p.queryClient)) > ReducedDiagnostics
    [] section = OldestMutations -> Len(All(LAMBDA c : c.mutations, p.queryClient)) > ReducedDiagnostics
    [] section = OldestPersisted -> Len(PersistedOf(p)) > ReducedDiagnostics
    [] section = OldestBreadcrumbs -> Len(p.breadcrumbs) > ReducedBreadcrumbs
    [] section = "query.meta" -> All(LAMBDA q : q.meta, p.query) # <<>>
    [] section = "query.dataShape" -> All(LAMBDA q : q.dataShape, p.query) # <<>>
    [] section = "mutation.meta" -> All(LAMBDA m : m.meta, p.mutation) # <<>>
    [] OTHER -> p[section] # <<>>
WithoutSection(p, section) ==
  CASE section = OldestQueries -> [p EXCEPT !.queryClient[1] = [@ EXCEPT !.omittedQueries = @ + Len(p.queryClient[1].queries) - ReducedDiagnostics, !.queries = Latest(@, ReducedDiagnostics)]]
    [] section = OldestMutations -> [p EXCEPT !.queryClient[1] = [@ EXCEPT !.omittedMutations = @ + Len(p.queryClient[1].mutations) - ReducedDiagnostics, !.mutations = Latest(@, ReducedDiagnostics)]]
    [] section = OldestPersisted -> [p EXCEPT !.persistedQueries[1] = Latest(@, ReducedDiagnostics)]
    [] section = OldestBreadcrumbs -> [p EXCEPT !.breadcrumbs = Latest(@, ReducedBreadcrumbs)]
    [] section = "query.meta" -> [p EXCEPT !.query[1].meta = <<>>]
    [] section = "query.dataShape" -> [p EXCEPT !.query[1].dataShape = <<>>]
    [] section = "mutation.meta" -> [p EXCEPT !.mutation[1].meta = <<>>]
    [] OTHER -> [p EXCEPT ![section] = <<>>]

Fits(p) == GetErrorReportPayloadSize(p) <= MaxBytes
WrongDrop(p, section) == \* a section is named though there is none
  IF Fits(p) THEN p
  ELSE WithoutSection([p EXCEPT !.truncation[1].droppedSections = Append(@, section)], section)
Drop(p, section) ==
  IF ~ IsPresent(p, section) \/ Fits(p) THEN p
  ELSE WithoutSection([p EXCEPT !.truncation[1].droppedSections = Append(@, section)], section)
\* Previews of what is behind an error are made smaller before those of what it is about.
ReducedOnce(p, n) == FoldLeft(LAMBDA q, background : IF Fits(q) THEN q ELSE ReduceDataPreviews(q, n, background), p, <<TRUE, FALSE>>)
Order(o) == IF o.verbatim THEN VerbatimSections \o Sections ELSE Sections
Limited(normalized, o) ==
  LET Shortened(p) == IF o.verbatim THEN FoldLeft(ReducedOnce, p, ReducedPreviewByteLimits) ELSE p
      Of(bytes) == IF bytes <= MaxBytes THEN normalized
                   ELSE FoldLeft(Drop, Shortened([normalized EXCEPT !.truncation = <<Truncation(bytes, <<>>)>>]), Order(o))
  IN  Of(GetErrorReportPayloadSize(normalized))
LimitErrorReportPayload(input, o) == Limited(NormalizePayloadStrings(input, o), o)

-----------------------------------------------------------------------------
(* The schema *)

UpToLimit(texts, n) == \A i \in DOMAIN texts : Len(texts[i]) <= n
Filled(t, n) == Len(t) \in 1 .. n
SafeValues(values) == \A i \in DOMAIN values : Within(values[i], MaxSafeString)
Every(Schema(_), s) == \A i \in DOMAIN s : Schema(s[i])
ErrorInfoSchema(e) ==
  /\ Filled(e.name, Limits.name) /\ Filled(e.message, Limits.verbatimMessage) /\ GetUtf8TextSize(e.message) <= Limits.verbatimMessage
  /\ UpToLimit(e.code, Limits.code) /\ \A i \in DOMAIN e.stackTrace : GetUtf8TextSize(e.stackTrace[i]) <= Limits.stackTrace
PreviewSchema(preview) == JsonSize(preview.json) <= MaxPreviewBytes
QueryDiagnosticsSchema(q) == Len(q.queryHash) <= Limits.queryHash
PersistedQueryDiagnosticsSchema(q) == UpToLimit(q.buster, Limits.buster) /\ UpToLimit(q.queryHash, Limits.queryHash)
BreadcrumbSchema(b) == Filled(b.utc, Limits.utc) /\ UpToLimit(b.routeId, Limits.routeId) /\ UpToLimit(b.names, Limits.appId) /\ UpToLimit(b.target, Limits.target)
Uuids == {<<"uuid">>, <<"other uuid">>}
\* The parts of one kind are checked together, wherever they are.
ErrorReportPayloadSchema(p) ==
  /\ Filled(p.application, Limits.application) /\ Filled(p.createdUtc, Limits.utc) /\ Filled(p.source, Limits.source) /\ UpToLimit(p.buildId, Limits.buildId)
  /\ {p.reportId, p.sessionId} \subseteq Uuids /\ Every(ErrorInfoSchema, ErrorsOf(p)) /\ SafeValues(ValuesOf(p)) /\ Every(PreviewSchema, PreviewsOf(p))
  /\ Every(LAMBDA c : UpToLimit(c.userAgent, MaxString) /\ UpToLimit(c.language, Limits.language) /\ UpToLimit(c.timeZone, Limits.timeZone), p.client)
  /\ Every(LAMBDA l : UpToLimit(<<l.pathname>> \o l.origin \o l.search \o l.hash, Limits.location), p.location)
  /\ Every(LAMBDA r : \A i \in DOMAIN r : GetUtf8TextSize(r[i]) <= Limits.componentStack, p.react)
  /\ Every(QueryDiagnosticsSchema, QueriesOf(p)) /\ Every(PersistedQueryDiagnosticsSchema, PersistedOf(p)) /\ Every(BreadcrumbSchema, p.breadcrumbs)
  /\ Every(LAMBDA c : Len(c.queries) <= MaxDiagnostics /\ Len(c.mutations) <= MaxDiagnostics, p.queryClient)
  /\ Every(LAMBDA s : Len(s) <= MaxDiagnostics, p.persistedQueries) /\ Len(p.breadcrumbs) <= MaxBreadcrumbs /\ Fits(p)

Draft(payload) == [reportId |-> payload.reportId, sessionId |-> payload.sessionId, createdUtc |-> payload.createdUtc, category |-> payload.category, payload |-> payload]
ErrorReportDraftSchema(draft) ==
  ErrorReportPayloadSchema(draft.payload) /\ \A field \in {"reportId", "sessionId", "createdUtc", "category"} : draft[field] = draft.payload[field]
ParseErrorReportDrafts(drafts) == SelectSeq(drafts, ErrorReportDraftSchema)

\* captureErrorReportDraft: the draft keeps the identity the payload was made with.
Drafted(input, limited) == ParseErrorReportDrafts(<<[Draft(input) EXCEPT !.payload = limited]>>)
CaptureErrorReportDraft(input, o) == Drafted(input, LimitErrorReportPayload(input, o))

-----------------------------------------------------------------------------
(* The stored records of the queue *)

\* A time of a stored record is <<>> if its text is too long or names no moment; a lease and a
\* failure are absent or one, and the list of a stored envelope may hold anything.
QueueVersion == 1
FailureKinds == {"http", "network", "timeout", "unknown"}
LeaseOf(owner, expires) == [owner |-> owner, expires |-> expires]
FailureOf(utc, kind, status) == [utc |-> utc, kind |-> kind, status |-> status]
\* What reschedule() is asked for.
Retry(next, failure) == [next |-> next, failure |-> failure]
Trimmed(t) ==
  LET told == {i \in DOMAIN t : t[i] # " "}
  IN  SelectSeq([i \in DOMAIN t |-> IF \E j, k \in told : j <= i /\ i <= k THEN t[i] ELSE ""], LAMBDA c : c # "")
IsOwner(t) == Len(Trimmed(t)) \in 1 .. MaxOwner

\* enqueue(), leaseNext() and reschedule(): what they write of a report.
NewQueueRecord(payload, now, ttl) ==
  [version |-> QueueVersion, reportId |-> payload.reportId, enqueued |-> <<now>>, expires |-> <<now + ttl>>, next |-> <<now>>, attempts |-> 0,
   payload |-> payload, lease |-> <<>>, failure |-> <<>>]
LeasedRecord(record, owner, until) == [record EXCEPT !.attempts = @ + 1, !.lease = <<LeaseOf(Trimmed(owner), <<until>>)>>]
RescheduledRecord(record, retry) == [record EXCEPT !.next = retry.next, !.lease = <<>>, !.failure = <<retry.failure>>]

IsUtc(time) == time # <<>>
FailureIsRead(failure) == IsUtc(failure.utc) /\ failure.kind \in FailureKinds /\ \A i \in DOMAIN failure.status : failure.status[i] \in 100 .. 599
LeaseIsRead(lease) == Len(lease.owner) \in 1 .. MaxOwner /\ IsUtc(lease.expires)
QueueRecordIsRead(record) ==
  /\ record.version = QueueVersion /\ IsUtc(record.enqueued) /\ IsUtc(record.expires) /\ IsUtc(record.next) /\ record.attempts >= 0
  /\ ErrorReportPayloadSchema(record.payload) /\ record.payload.reportId = record.reportId
  /\ Every(LeaseIsRead, record.lease) /\ Every(FailureIsRead, record.failure)
NormalizeErrorReportQueueRecords(stored, now) ==
  LET Known(records, id) == \E i \in DOMAIN records : records[i].reportId = id
      Add(records, record) ==
        IF Len(records) < MaxRecords /\ QueueRecordIsRead(record) /\ record.expires[1] > now /\ ~ Known(records, record.reportId)
        THEN Append(records, record) ELSE records
  IN  FoldLeft(Add, <<>>, stored)

-----------------------------------------------------------------------------
(* What is promised *)

\* A payload that is too large loses sections, those the least needed first, until it fits or
\* only the error and where it happened are left; the mark names exactly what was lost.
PayloadFits(normalized, limited, o) ==
  LET order == Order(o)
      named == All(LAMBDA mark : mark.droppedSections, limited.truncation)
      dropped == {k \in DOMAIN order : Contains(named, order[k])}
      Gone(k) == ~ IsPresent(limited, order[k])
  IN  /\ Fits(limited) \/ \A k \in DOMAIN order : Gone(k)
      /\ \A field \in Identity \cup {"error", "buildId", "location"} : limited[field] = normalized[field]
      /\ limited.truncation # <<>> <=> ~ Fits(normalized)
      /\ \A k \in dropped : IsPresent(normalized, order[k]) /\ \A j \in 1 .. k : Gone(j)
      /\ dropped = {} => \A k \in DOMAIN order : IsPresent(normalized, order[k]) => ~ Gone(k)

\* Unless the application asks for values verbatim, a report tells no e-mail (but for the half
\* of one in which a text was cut), no value of a sensitive key, no search of the address and
\* no cached data.
PolicyHolds(p, o) ==
  ~ o.verbatim =>
    /\ Every(NamesNobody, TextsOf(p)) /\ Every(TellsNobody, ValuesOf(p))
    /\ Every(LAMBDA l : l.search = <<>> /\ l.hash = <<>> /\ ~ Contains(l.pathname, "?"), p.location) /\ PreviewsOf(p) = <<>>

\* What was captured becomes a draft if it fits.  Excepted are an error without a name, a
\* sanitizer that leaves an empty message, and texts that are longer once redacted.
CaptureIsAccepted(input, limited, o) ==
  /\ Fits(limited) /\ limited.error.name # <<>> /\ limited.error.message # <<>>
  /\ o.verbatim \/ Every(LAMBDA t : ~ Contains(t, "@"), TextsOf(input))
  => Drafted(input, limited) = <<[Draft(input) EXCEPT !.payload = limited]>>

PayloadsAgree(input, normalized, o) ==
  LET Hold(limited) == PayloadFits(normalized, limited, o) /\ PolicyHolds(limited, o) /\ CaptureIsAccepted(input, limited, o)
  IN  Hold(Limited(normalized, o))

\* A report is lost from the stored queue only for a reason of its own: it is damaged, has
\* expired, is there already or finds the queue full; damage elsewhere takes nothing with it,
\* and what was read once is read again.
QueueKeepsReports(stored, now) ==
  LET Of(live, kept) ==
        /\ Len(kept) <= MaxRecords /\ \A i, j \in DOMAIN kept : kept[i].reportId = kept[j].reportId => i = j
        /\ \A i \in live : Len(kept) = MaxRecords \/ \E j \in DOMAIN kept : kept[j].reportId = stored[i].reportId
        /\ \A other \in {kept} \cup {RemoveAt(stored, i) : i \in DOMAIN stored \ live} : NormalizeErrorReportQueueRecords(other, now) = kept
  IN  Of({i \in DOMAIN stored : QueueRecordIsRead(stored[i]) /\ stored[i].expires[1] > now}, NormalizeErrorReportQueueRecords(stored, now))

\* What the queue writes of a report it accepted it reads again until the report expires, through
\* leases and retries.  Excepted are retries whose failure the parser does not know:
\* reschedule() looks at the times alone, and the report is dropped at the next reading.
QueueReadsWhatItWrites(payload, now, ttl, owner, retry) ==
  LET Leased(new) == LeasedRecord(new, owner, now + 1)
      Written(new, leased) ==
        {new} \cup {record \in {leased} : IsOwner(owner)}
          \cup {RescheduledRecord(record, retry) : record \in {r \in {leased} : IsOwner(owner) /\ FailureIsRead(retry.failure) /\ IsUtc(retry.next)}}
      Of(new) == \A record \in Written(new, Leased(new)) : NormalizeErrorReportQueueRecords(<<record>>, now) = <<record>>
  IN  ErrorReportPayloadSchema(payload) => Of(NewQueueRecord(payload, now, ttl))

\* A click is told by the nearest element that is marked for reports, or else the nearest that
\* can be used; only technical attributes are told, and marked elements tell no others.
ClickIsNamed(path) ==
  LET Marked(i) == path[i].attributes["target"] = "safe"
      reached == DOMAIN GetClickElementChain(path)
      Of(first, told) ==
        /\ Len(told) <= MaxChain
        /\ \A i \in DOMAIN told : \A name \in told[i][2] :
             path[first + i - 1].attributes[name] = "safe" /\ (Marked(first + i - 1) => name \notin {"ui", "action"})
        /\ \A i \in reached : Marked(i) => Marked(first) /\ first <= i
        /\ \A i \in reached : path[i].interactive => first <= i \/ Marked(first)
  IN  Of(FindMeaningfulClickTarget(path), DescribeClickTarget(path))
=============================================================================
