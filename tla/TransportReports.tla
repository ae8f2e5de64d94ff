---------------------------- MODULE TransportReports ----------------------------
(***************************************************************************)
(* reportTransportError: a failed request is told to the app's reporter    *)
(* after a delay, unless React Query's capture of the same error comes     *)
(* first, and at most once per interval for one endpoint.  Timers run on   *)
(* the clock of the host and late at will; keys carry Date.now().          *)
(***************************************************************************)
EXTENDS Integers, Sequences

CONSTANTS
  Errors, Keys, KeyOf, \* errors of requests, and the report key of each
  Delay,       \* TRANSPORT_REPORT_DELAY_MS
  KeyInterval, \* DEDUPLICATION_INTERVAL_MS
  MaxKeys,     \* MAX_RECENT_REPORT_KEYS
  MaxTime, MaxAdjusts \* bounds on the behaviours

VARIABLES
  reporter,   \* transportErrorReporter is set
  delayed,    \* timers of reportTransportError
  failed,     \* errors told to reportTransportError
  suppressed, \* suppressedTransportErrors
  recentKeys, \* recentReportKeys, oldest insertion first
  heard,      \* history: what the reporter was told, of the keys with room
  clock,      \* the time of the host
  skew,       \* Date.now() - clock
  adjusts

vars == <<reporter, delayed, failed, suppressed, recentKeys, heard, clock, skew, adjusts>>

Now == clock + skew

Init ==
  /\ reporter = FALSE /\ delayed = {} /\ failed = {} /\ suppressed = {}
  /\ recentKeys = <<>> /\ heard = {} /\ clock = 0 /\ skew = 0 /\ adjusts = 0

\* setErrorReportTransportErrorReporter.
ChangeReporter ==
  /\ reporter' \in BOOLEAN /\ recentKeys' = <<>> /\ heard' = {}
  /\ UNCHANGED <<delayed, failed, suppressed, clock, skew, adjusts>>

\* reportTransportError: each request fails with an error of its own.
ReportTransportError(e) ==
  /\ e \notin failed
  /\ failed' = failed \cup {e}
  /\ delayed' = delayed \cup {[error |-> e, due |-> clock + Delay]}
  /\ UNCHANGED <<reporter, suppressed, recentKeys, heard, clock, skew, adjusts>>

\* suppressTransportErrorReport, when a query or a mutation captures the error: at
\* any time, before the request has failed for good or long after.
SuppressTransportReport(e) ==
  /\ suppressed' = suppressed \cup {e}
  /\ UNCHANGED <<reporter, delayed, failed, recentKeys, heard, clock, skew, adjusts>>

\* The key that makes room, when there are too many of them.
Evicted == IF Len(recentKeys) > MaxKeys THEN {recentKeys[1].key} ELSE {}

Stays(r) == r.key \notin Evicted /\ Now - r.at <= KeyInterval

\* The keys that stay, in their order, as a function on the beginnings of the sequence.
PrunedKeys ==
  LET kept[i \in 0 .. Len(recentKeys)] ==
        IF i = 0 THEN <<>>
        ELSE IF Stays(recentKeys[i]) THEN Append(kept[i - 1], recentKeys[i]) ELSE kept[i - 1]
  IN  kept[Len(recentKeys)]

WrongRecently(k) ==
  \E i \in DOMAIN PrunedKeys : PrunedKeys[i].key = k /\ Now - PrunedKeys[i].at < KeyInterval - 1

\* shouldSkipByRecentKey.
Recently(k) ==
  \E i \in DOMAIN PrunedKeys : PrunedKeys[i].key = k /\ Now - PrunedKeys[i].at < KeyInterval

\* The keys once key k is recorded: in its place, or as the last one.
Recorded(k) ==
  IF \E i \in DOMAIN PrunedKeys : PrunedKeys[i].key = k
  THEN [i \in DOMAIN PrunedKeys |->
          IF PrunedKeys[i].key = k THEN [key |-> k, at |-> Now] ELSE PrunedKeys[i]]
  ELSE Append(PrunedKeys, [key |-> k, at |-> Now])

\* An error that is captured otherwise, or that nobody wants, is not looked at.
Silent(e) == e \in suppressed \/ ~reporter

LooksUp(e) == ~Silent(e)

\* The timer of reportTransportError.  What the reporter does or throws changes
\* nothing here.
DelayEnds(t) ==
  LET k == KeyOf[t.error] IN
  /\ t.due <= clock
  /\ delayed' = delayed \ {t}
  /\ recentKeys' = IF ~LooksUp(t.error) THEN recentKeys
                   ELSE IF Recently(k) THEN PrunedKeys ELSE Recorded(k)
  /\ heard' = IF Silent(t.error) THEN heard
              ELSE {h \in heard : h.key \notin Evicted}
                     \cup (IF Recently(k) THEN {} ELSE {[key |-> k, at |-> Now, time |-> clock]})
  /\ UNCHANGED <<reporter, failed, suppressed, clock, skew, adjusts>>

Tick ==
  /\ clock < MaxTime /\ clock' = clock + 1
  /\ UNCHANGED <<reporter, delayed, failed, suppressed, recentKeys, heard, skew, adjusts>>

SetBack ==
  /\ adjusts < MaxAdjusts /\ adjusts' = adjusts + 1 /\ skew' = skew - 1
  /\ UNCHANGED <<reporter, delayed, failed, suppressed, recentKeys, heard, clock>>

Next ==
  \/ \E e \in Errors : ReportTransportError(e) \/ SuppressTransportReport(e)
  \/ \E t \in delayed : DelayEnds(t)
  \/ ChangeReporter \/ Tick \/ SetBack

Spec == Init /\ [][Next]_vars

-------------------------------------------------------------------------------
\* A failure is passed over only if it is captured otherwise or nobody listens, or
\* because the reporter did hear of its endpoint within the interval.
SilenceIsJustified ==
  [][\A t \in delayed \ delayed' : ~Silent(t.error) =>
       \E h \in heard' : h.key = KeyOf[t.error] /\ Now - h.at < KeyInterval]_vars

\* A reporter hears of an endpoint once per interval, while there is room for its
\* key: an interval of the host, however often Date.now() is set back.
OneReportPerKey ==
  [][\A h \in heard' \ heard, g \in heard \cap heard' :
       h.key = g.key => h.time - g.time >= KeyInterval]_vars
===============================================================================
