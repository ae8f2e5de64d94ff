------------------------------- MODULE MatchMedia -------------------------------
(***************************************************************************)
(* The singleton store of useMatchMedia: one set of media queries and of   *)
(* observers of the root font size for all subscribers, set up by the      *)
(* first one and released by the last.  Media events and observer          *)
(* callbacks come some time after the change; the rebuild is debounced.    *)
(***************************************************************************)
EXTENDS Integers, FiniteSets

CONSTANTS
  Components,
  Widths, Ems, \* widths of the window, root font sizes
  Threshold,   \* EM_CHANGE_THRESHOLD: smaller changes are ignored
  MaxChanges   \* bound on the behaviours

VARIABLES
  width, em,
  listeners,
  queries,   \* the font size the subscribed queries were built for, or NoQueries
  snapshot,  \* the breakpoint that getSnapshot tells
  observing, \* the observers are connected
  events,    \* callbacks on their way: of the queries and of the observers
  timer,     \* rebuildTimer
  changes

vars == <<width, em, listeners, queries, snapshot, observing, events, timer, changes>>

NoQueries == -1
Breakpoints == {"mobile", "tablet", "laptop"}

TypeOK ==
  /\ width \in Widths /\ em \in Ems
  /\ listeners \subseteq Components /\ queries \in Ems \cup {NoQueries}
  /\ snapshot \in Breakpoints
  /\ events \subseteq {"media", "em"}
  /\ {observing, timer} \subseteq BOOLEAN /\ changes \in 0 .. MaxChanges

\* The active breakpoint of the queries built for font size e.
Matches(w, e) ==
  IF w <= 2 * e THEN "mobile" ELSE IF w <= 3 * e THEN "tablet" ELSE "laptop"

Init ==
  /\ width \in Widths /\ em \in Ems
  /\ listeners = {} /\ queries = NoQueries /\ snapshot = "laptop"
  /\ observing = FALSE /\ events = {} /\ timer = FALSE /\ changes = 0

Differs(a, b) == a - b >= Threshold \/ b - a >= Threshold

\* rebuildIfEmChanged, forced at the start.
Rebuild(force) ==
  IF ~force /\ ~Differs(em, queries)
    THEN UNCHANGED <<queries, snapshot, events>>
    ELSE /\ queries' = em /\ snapshot' = Matches(width, em)
         /\ events' = events \ {"media"}

Subscribe(c) ==
  /\ c \notin listeners
  /\ listeners' = listeners \cup {c}
  /\ observing' = TRUE
  /\ IF observing THEN UNCHANGED <<queries, snapshot, events>> ELSE Rebuild(TRUE)
  /\ UNCHANGED <<width, em, timer, changes>>

Cleaned == FALSE

Unsubscribe(c) ==
  /\ c \in listeners
  /\ listeners' = listeners \ {c}
  /\ IF listeners' # {} THEN UNCHANGED <<queries, observing, events, timer>>
     ELSE /\ queries' = NoQueries /\ observing' = FALSE
          /\ events' = {} /\ timer' = Cleaned
  /\ UNCHANGED <<width, em, snapshot, changes>>

\* recomputeFromMql: a query that changed its answer dispatches to its subscriber.
MediaEvent ==
  /\ "media" \in events
  /\ events' = events \ {"media"}
  /\ snapshot' = Matches(width, queries)
  /\ UNCHANGED <<width, em, listeners, queries, observing, timer, changes>>

\* scheduleRebuild.
EmEvent ==
  /\ "em" \in events
  /\ events' = events \ {"em"} /\ timer' = TRUE
  /\ UNCHANGED <<width, em, listeners, queries, snapshot, observing, changes>>

TimerFires ==
  /\ timer /\ timer' = FALSE
  /\ Rebuild(queries = NoQueries)
  /\ UNCHANGED <<width, em, listeners, observing, changes>>

\* The environment: the user resizes the window or changes the font size.
Change ==
  /\ changes < MaxChanges /\ changes' = changes + 1
  /\ width' \in Widths /\ em' \in Ems
  /\ events' = events
       \cup (IF queries # NoQueries /\ Matches(width', queries) # Matches(width, queries)
               THEN {"media"} ELSE {})
       \cup (IF observing /\ em' # em THEN {"em"} ELSE {})
  /\ UNCHANGED <<listeners, queries, snapshot, observing, timer>>

Next ==
  \/ \E c \in Components : Subscribe(c) \/ Unsubscribe(c)
  \/ MediaEvent \/ EmEvent \/ TimerFires \/ Change

Spec == Init /\ [][Next]_vars

-------------------------------------------------------------------------------
\* Once events and the timer have run, subscribers see the breakpoint of the window
\* for a font size within the threshold, whatever was subscribed and released.
SnapshotIsCurrent ==
  listeners # {} /\ events = {} /\ ~timer =>
    /\ ~Differs(em, queries)
    /\ snapshot = Matches(width, queries)

\* Without subscribers the store holds no query, observer or timer.
StoreIsReleased ==
  listeners = {} => queries = NoQueries /\ ~observing /\ ~timer
===============================================================================
