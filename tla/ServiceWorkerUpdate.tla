--------------------------- MODULE ServiceWorkerUpdate ---------------------------
(***************************************************************************)
(* The client side of the service worker update: the module state and the  *)
(* hook useServiceWorkerUpdate of every tab, against the worker of the     *)
(* application, which activates on SKIP_WAITING, claims its clients and    *)
(* tells them (pwa/README.mdx).  Events of a page arrive in order, and a   *)
(* reload drops what has not arrived.                                      *)
(***************************************************************************)
EXTENDS Integers, Sequences

CONSTANTS
  Tabs,
  MaxReloads, \* MAX_SW_AUTO_UPDATE_RELOADS
  Grace,      \* SW_STARTUP_AUTO_UPDATE_GRACE_MS
  MaxVersion, MaxActs \* bounds on the deployed versions, and on what the user does

VARIABLES
  active,   \* the version of the worker that controls the pages
  waiting,  \* the installed version that waits, or 0
  skipping, \* SKIP_WAITING is on its way to the waiting worker
  page,     \* what lives as long as the document of a tab
  count,    \* the session storage of a tab
  inbox,    \* events of a tab that were not dispatched yet
  autos,    \* history: automatic updates of a tab since its chain was cleared
  acts      \* of the user so far

vars == <<active, waiting, skipping, page, count, inbox, autos, acts>>

Events == {"installed", "controllerchange", "message"}
Page == [version : 1 .. MaxVersion,  \* of the worker it was loaded from
         startup : BOOLEAN,          \* isStartupNavigationForAutoUpdate
         init : {"registers", "checks", "done"},
         age : 0 .. Grace + 1,       \* Date.now() - startupStartedAt
         applied : BOOLEAN,          \* startupUpdateApplied
         resets : BOOLEAN,           \* the timer of scheduleStartupChainReset
         requested : BOOLEAN, refreshing : BOOLEAN,
         banner : BOOLEAN,
         missed : BOOLEAN]           \* history: a message came before the listener

TypeOK ==
  /\ active \in 1 .. MaxVersion /\ waiting \in 0 .. MaxVersion /\ skipping \in BOOLEAN
  /\ page \in [Tabs -> Page]
  /\ count \in [Tabs -> 0 .. MaxReloads]
  /\ inbox \in [Tabs -> Seq(Events)]
  /\ autos \in [Tabs -> Nat] /\ acts \in 0 .. MaxActs

Fresh(startup) ==
  [version |-> active, startup |-> startup, init |-> "registers", age |-> 0,
   applied |-> FALSE, resets |-> FALSE, requested |-> FALSE, refreshing |-> FALSE,
   banner |-> FALSE, missed |-> FALSE]

Init ==
  /\ active = 1 /\ waiting = 0 /\ skipping = FALSE
  /\ page = [t \in Tabs |-> Fresh(TRUE)]
  /\ count = [t \in Tabs |-> 0]
  /\ inbox = [t \in Tabs |-> <<>>]
  /\ autos = [t \in Tabs |-> 0] /\ acts = 0

Listens(t) == page[t].init # "registers"

-------------------------------------------------------------------------------
(* serviceWorker.ts                                                        *)

Recorded(t) == IF count[t] < MaxReloads THEN count[t] + 1 ELSE MaxReloads

WrongCanAutoApply(t) == count[t] <= MaxReloads

CanAutoApply(t) == count[t] < MaxReloads

\* applyServiceWorkerUpdate with a waiting worker.
Apply(t, p) ==
  /\ page' = [page EXCEPT ![t] = [p EXCEPT !.requested = TRUE]]
  /\ count' = [count EXCEPT ![t] = Recorded(t)]
  /\ skipping' = TRUE

Keep(t, p) ==
  page' = [page EXCEPT ![t] = p] /\ UNCHANGED <<count, skipping, autos>>

-------------------------------------------------------------------------------
(* useServiceWorkerUpdate                                                  *)

CanApplyStartup(t) ==
  page[t].startup /\ page[t].age <= Grace /\ CanAutoApply(t) /\ waiting # 0

\* tryApplyStartupUpdate: the update found at startup goes on as q, or the page as p.
TryStartup(t, q, p) ==
  IF page[t].applied THEN Keep(t, q)
  ELSE IF CanApplyStartup(t)
    THEN Apply(t, [q EXCEPT !.applied = TRUE]) /\ autos' = [autos EXCEPT ![t] = @ + 1]
    ELSE Keep(t, p)

\* registerServiceWorker has answered.
Registers(t) ==
  LET p == page[t] IN
  /\ p.init = "registers"
  /\ IF waiting # 0
       THEN TryStartup(t, [p EXCEPT !.init = "done"], [p EXCEPT !.init = "checks"])
       ELSE Keep(t, [p EXCEPT !.init = "checks"])
  /\ UNCHANGED <<active, waiting, inbox, acts>>

\* checkServiceWorkerUpdate has answered.
Checks(t) ==
  LET p == [page[t] EXCEPT !.init = "done"] IN
  /\ page[t].init = "checks"
  /\ IF p.applied THEN Keep(t, p)
     ELSE IF waiting # 0
       THEN TryStartup(t, p, [p EXCEPT !.banner = TRUE, !.resets = TRUE])
       ELSE Keep(t, [p EXCEPT !.resets = TRUE])
  /\ UNCHANGED <<active, waiting, inbox, acts>>

\* The timer of scheduleStartupChainReset.
ChainEnds(t) ==
  /\ page[t].resets /\ page[t].age >= Grace
  /\ page' = [page EXCEPT ![t].resets = FALSE]
  /\ count' = [count EXCEPT ![t] = 0]
  /\ autos' = [autos EXCEPT ![t] = 0]
  /\ UNCHANGED <<active, waiting, skipping, inbox, acts>>

\* The periodic check has answered.
IntervalCheck(t) ==
  /\ page[t].age > Grace /\ waiting # 0
  /\ Keep(t, [page[t] EXCEPT !.banner = TRUE])
  /\ UNCHANGED <<active, waiting, inbox, acts>>

Act == acts < MaxActs /\ acts' = acts + 1

\* applyUpdate of the banner: the fallback reloads at once when another tab has
\* activated the worker.
ApplyUpdate(t) ==
  /\ page[t].banner /\ Act
  /\ IF waiting # 0 THEN Apply(t, page[t])
     ELSE /\ page' = [page EXCEPT ![t].refreshing = TRUE]
          /\ count' = [count EXCEPT ![t] = Recorded(t)]
          /\ skipping' = skipping
  /\ UNCHANGED <<active, waiting, inbox, autos>>

Dismiss(t) ==
  /\ page[t].banner /\ Act
  /\ Keep(t, [page[t] EXCEPT !.banner = FALSE])
  /\ UNCHANGED <<active, waiting, inbox>>

-------------------------------------------------------------------------------
(* The events.                                                             *)

ReloadsOnMessage(t) == ~page[t].refreshing

\* updatefound and statechange: a page that is reloading goes on until it is gone.
Dispatch(t) ==
  LET p == page[t] IN
  /\ inbox[t] # <<>>
  /\ inbox' = [inbox EXCEPT ![t] = Tail(@)]
  /\ \/ /\ Head(inbox[t]) = "installed"
        /\ TryStartup(t, p, [p EXCEPT !.banner = TRUE])
     \/ /\ Head(inbox[t]) = "controllerchange"
        /\ Keep(t, IF p.requested THEN [p EXCEPT !.refreshing = TRUE] ELSE p)
     \/ /\ Head(inbox[t]) = "message"
        /\ IF ReloadsOnMessage(t)
             THEN /\ page' = [page EXCEPT ![t].refreshing = TRUE]
                  /\ count' = [count EXCEPT ![t] = Recorded(t)]
                  /\ UNCHANGED <<skipping, autos>>
             ELSE Keep(t, p)
  /\ UNCHANGED <<active, waiting, acts>>

\* The browser loads the page again: location.reload(), or the user at any time.
Load(t) ==
  /\ IF page[t].refreshing
       THEN page' = [page EXCEPT ![t] = Fresh(TRUE)] /\ acts' = acts
       ELSE /\ Act
            /\ \E startup \in BOOLEAN : page' = [page EXCEPT ![t] = Fresh(startup)]
  /\ inbox' = [inbox EXCEPT ![t] = <<>>]
  /\ UNCHANGED <<active, waiting, skipping, count, autos>>

\* Nobody listens in a page that is being loaded, and to one that is being left.
Sent(events) ==
  [t \in Tabs |-> IF Listens(t) /\ ~page[t].refreshing THEN inbox[t] \o events ELSE inbox[t]]

\* A check finds a newer worker and installs it; the one that waited is discarded.
Install ==
  LET newest == IF waiting > active THEN waiting ELSE active IN
  /\ newest < MaxVersion
  /\ waiting' = newest + 1 /\ skipping' = FALSE
  /\ inbox' = Sent(<<"installed">>)
  /\ UNCHANGED <<active, page, count, autos, acts>>

Activate ==
  /\ skipping /\ waiting # 0
  /\ active' = waiting /\ waiting' = 0 /\ skipping' = FALSE
  /\ inbox' = Sent(<<"controllerchange", "message">>)
  /\ page' = [t \in Tabs |-> [page[t] EXCEPT !.missed = @ \/ ~Listens(t)]]
  /\ UNCHANGED <<count, autos, acts>>

Tick(t) ==
  /\ page[t].age <= Grace /\ ~page[t].refreshing
  /\ page' = [page EXCEPT ![t].age = @ + 1]
  /\ UNCHANGED <<active, waiting, skipping, count, inbox, autos, acts>>

Next ==
  \/ \E t \in Tabs :
       \/ Registers(t) \/ Checks(t) \/ ChainEnds(t) \/ IntervalCheck(t)
       \/ ApplyUpdate(t) \/ Dismiss(t) \/ Dispatch(t) \/ Load(t) \/ Tick(t)
  \/ Install \/ Activate

Spec == Init /\ [][Next]_vars

-------------------------------------------------------------------------------
\* However many versions are deployed and however tabs reload each other, a tab
\* applies at most MaxReloads updates by itself before it stays a whole startup
\* window without one (pwa/README.mdx: no endless chain of reloads).
ChainIsBounded == \A t \in Tabs : autos[t] <= MaxReloads

\* A page that heard everything about an activation runs the version that is
\* active, or is being reloaded, whichever tab asked for it.
TabsFollow ==
  \A t \in Tabs :
    inbox[t] = <<>> /\ ~page[t].missed => page[t].version = active \/ page[t].refreshing
===============================================================================
