------------------------- MODULE NotificationPresenter -------------------------
(***************************************************************************)
(* createBrowserNotificationPresenter: notifications of the system, shown  *)
(* by the service worker where one is active, that callers release, users  *)
(* click or close, and dispose takes away, between any two awaits of their *)
(* delivery.  The clicks and errors of a notification of the page are      *)
(* events, which come while the page goes on.                              *)
(***************************************************************************)
EXTENDS Integers, Sequences, FiniteSets

CONSTANTS
  Publications, \* one for every call of show; all have one tag
  MaxClicks     \* bound on the clicks that wait for their handler

VARIABLES
  granted,   \* Notification.permission
  worker,    \* the registration has an active worker
  disposed,
  delivery,  \* where deliver is, of every publication
  released,  \* the publications whose release ran
  releases,
  handles,   \* the publications whose close is known
  screen,    \* the publications on the screen: one tag, so at most one
  clicks,    \* the click events of a publication that are not handled yet
  unshown,   \* the publications with an error event that is not handled yet
  told,      \* history: the calls of onError and onOpen for a publication
  unlisted   \* history: getNotifications failed, or no longer listed it

vars == <<granted, worker, disposed, delivery, released, releases, handles, screen,
          clicks, unshown, told, unlisted>>
events == <<clicks, unshown>>

Stages == {"idle", "registration", "showing", "listing", "done"}

TypeOK ==
  /\ {granted, worker, disposed} \subseteq BOOLEAN
  /\ delivery \in [Publications -> Stages]
  /\ released \cup releases \cup handles \cup screen \cup unshown \cup unlisted
       \subseteq Publications
  /\ clicks \in [Publications -> 0 .. MaxClicks]
  /\ told \in [Publications -> Seq({"error", "open"})]

Init ==
  /\ granted = TRUE /\ worker \in BOOLEAN /\ disposed = FALSE
  /\ delivery = [p \in Publications |-> "idle"]
  /\ released = {} /\ releases = {} /\ handles = {} /\ screen = {} /\ unlisted = {}
  /\ clicks = [p \in Publications |-> 0] /\ unshown = {}
  /\ told = [p \in Publications |-> <<>>]

Show(p) ==
  /\ delivery[p] = "idle"
  /\ delivery' = [delivery EXCEPT ![p] = IF disposed \/ ~granted THEN "done" ELSE "registration"]
  /\ releases' = IF disposed \/ ~granted THEN releases ELSE releases \cup {p}
  /\ UNCHANGED <<granted, worker, disposed, released, handles, screen, events, told, unlisted>>

\* release of the publications ps, with what is known of how to close them.
Released(ps, known) ==
  /\ released' = released \cup ps
  /\ releases' = releases \ ps
  /\ screen' = screen \ ((ps \ released) \cap known)

Release(p) ==
  /\ delivery[p] # "idle" /\ Released({p}, handles)
  /\ UNCHANGED <<granted, worker, disposed, delivery, handles, events, told, unlisted>>

Dispose ==
  /\ disposed' = TRUE /\ Released(releases, handles)
  /\ UNCHANGED <<granted, worker, delivery, handles, events, told, unlisted>>

Wanted(p) == p \notin released /\ ~disposed
To(p, stage) == delivery' = [delivery EXCEPT ![p] = stage]

WrongTells(p) == ~disposed \* a release is not asked for before its owner is called

\* What the catch and the listeners ask before onError and onOpen.
Tells(p) == Wanted(p)
Tell(p, what) == told' = [told EXCEPT ![p] = Append(@, what)]

\* The catch of deliver.
Failed(p) ==
  /\ To(p, "done")
  /\ IF Tells(p) THEN Tell(p, "error") ELSE told' = told
  /\ Released({p}, handles)

\* getRegistration has answered.  Without a worker the page makes the notification,
\* and the system shows it or answers with an error event.
Registration(p) ==
  /\ delivery[p] = "registration"
  /\ UNCHANGED <<granted, worker, disposed, clicks, unlisted>>
  /\ \/ Failed(p) /\ UNCHANGED <<handles, unshown>>
     \/ /\ ~Wanted(p) \/ ~granted
        /\ To(p, "done") /\ UNCHANGED <<released, releases, handles, screen, unshown, told>>
     \/ /\ Wanted(p) /\ granted
        /\ UNCHANGED <<released, releases, told>>
        /\ \/ worker /\ To(p, "showing") /\ UNCHANGED <<handles, screen, unshown>>
           \/ /\ ~worker /\ To(p, "done") /\ handles' = handles \cup {p}
              /\ \/ screen' = {p} /\ unshown' = unshown
                 \/ screen' = screen /\ unshown' = unshown \cup {p}

\* showNotification has answered; a notification with the same tag is replaced.
Showing(p) ==
  /\ delivery[p] = "showing"
  /\ UNCHANGED <<granted, worker, disposed, handles, events, unlisted>>
  /\ \/ Failed(p)
     \/ To(p, "listing") /\ screen' = {p} /\ UNCHANGED <<released, releases, told>>

ClosesLate(p) == ~Wanted(p)

\* getNotifications has answered.
Listing(p) ==
  /\ delivery[p] = "listing"
  /\ UNCHANGED <<granted, worker, disposed, events>>
  /\ \/ Failed(p) /\ unlisted' = unlisted \cup {p} /\ UNCHANGED handles
     \/ /\ To(p, "done")
        /\ unlisted' = unlisted
        /\ handles' = handles \cup {p}
        /\ screen' = IF ClosesLate(p) THEN screen \ {p} ELSE screen
        /\ UNCHANGED <<released, releases, told>>

\* The user clicks what is on the screen; the page hears of its own only.
Click(p) ==
  /\ p \in screen /\ ~worker /\ clicks[p] < MaxClicks
  /\ clicks' = [clicks EXCEPT ![p] = @ + 1]
  /\ UNCHANGED <<granted, worker, disposed, delivery, released, releases, handles, screen,
                 unshown, told, unlisted>>

\* The listeners of the page's own notification.
Clicked(p) ==
  /\ clicks[p] > 0 /\ clicks' = [clicks EXCEPT ![p] = @ - 1]
  /\ IF Tells(p) THEN Released({p}, handles) /\ Tell(p, "open")
     ELSE UNCHANGED <<released, releases, screen, told>>
  /\ UNCHANGED <<granted, worker, disposed, delivery, handles, unshown, unlisted>>

NotShown(p) ==
  /\ p \in unshown /\ unshown' = unshown \ {p}
  /\ IF Tells(p) THEN Tell(p, "error") ELSE told' = told
  /\ UNCHANGED <<granted, worker, disposed, delivery, released, releases, handles, screen,
                 clicks, unlisted>>

CloseByHand ==
  /\ screen # {} /\ screen' = {}
  /\ UNCHANGED <<granted, worker, disposed, delivery, released, releases, handles, events, told, unlisted>>

\* The user takes the permission back in the settings of the browser.
Revoke ==
  /\ granted /\ granted' = FALSE
  /\ UNCHANGED <<worker, disposed, delivery, released, releases, handles, screen, events, told, unlisted>>

Next ==
  \/ \E p \in Publications :
       Show(p) \/ Release(p) \/ Registration(p) \/ Showing(p) \/ Listing(p)
         \/ Click(p) \/ Clicked(p) \/ NotShown(p)
  \/ Dispose \/ CloseByHand \/ Revoke

Spec == Init /\ [][Next]_vars

-------------------------------------------------------------------------------
\* Once its delivery is over, a notification that was released, or that a disposed
\* presenter showed, is not on the screen, whenever the release came; except that a
\* presenter which could not list its notifications cannot close them either.
ReleasedIsClosed ==
  \A p \in screen \ unlisted : delivery[p] = "done" => Wanted(p)

\* Nobody is told of a notification after its release or the end of the presenter,
\* whatever answer, click or error comes late, nor told of it a second time.
ReleasedIsSilent ==
  [][\A p \in Publications : told'[p] # told[p] => Wanted(p) /\ told[p] = <<>>]_vars
===============================================================================
