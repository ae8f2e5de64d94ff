--------------------------- MODULE DocumentScrollLock ---------------------------
(***************************************************************************)
(* acquireDocumentScrollLock: overlays lease the one lock of a document,   *)
(* which saves the styles of its root and body, fixes the page and guards  *)
(* touch gestures until the last lease is released.  Gestures go on while  *)
(* overlays come and go.                                                   *)
(***************************************************************************)
EXTENDS Integers, Sequences, FiniteSets

CONSTANTS
  Overlays,  \* each acquires at most once
  Paddings,  \* inline values an application gives padding-right
  Scrollbar, \* the width of the scrollbar
  Offsets,   \* positions of scroll
  Paths,     \* the scrollers a touch may begin in, innermost first
  MaxTouches \* bound on the touches

VARIABLES
  lock,     \* the entry of locks, or NoLock
  leases,   \* what overlays hold: their lock and whether they compensate
  style,    \* position and padding-right of the body
  scroll,   \* the scroll position of the view
  guard,    \* observation and bypassGesture of the touch guard, or NoGuard
  fingers,  \* on the screen
  gesture,  \* history: one finger touched an ordinary element under the guard, and the
            \* browser has not made the touch its own
  panned,   \* history: what became of the last move
  touches

vars == <<lock, leases, style, scroll, guard, fingers, gesture, panned, touches>>

NoLock == [epoch |-> 0, saved |-> [position |-> "static", padding |-> 0], at |-> 0]
NoPath == <<>>
NoGuard == [on |-> FALSE, observes |-> FALSE, bypass |-> FALSE, path |-> NoPath]
Idle == [NoGuard EXCEPT !.on = TRUE]
NoMove == [pans |-> FALSE, consumed |-> FALSE, ordinary |-> FALSE, prevented |-> FALSE]
Styles == [position : {"static", "fixed"}, padding : Nat]

TypeOK ==
  /\ lock.epoch \in Nat
  /\ DOMAIN leases \subseteq Overlays
  /\ style \in Styles /\ scroll \in Offsets
  /\ {guard.on, guard.observes, guard.bypass, gesture} \subseteq BOOLEAN
  /\ fingers \in 0 .. 2 /\ touches \in 0 .. MaxTouches

Init ==
  /\ lock = NoLock /\ leases = [o \in {} |-> 0]
  /\ \E p \in Paddings : style = [position |-> "static", padding |-> p]
  /\ scroll \in Offsets
  /\ guard = NoGuard /\ fingers = 0 /\ gesture = FALSE /\ panned = NoMove /\ touches = 0

\* updateCompensation of lock l with these holders.
Padding(l, holders, table) ==
  IF \E o \in holders : table[o].compensates THEN l.saved.padding + Scrollbar ELSE l.saved.padding

\* Epochs of locks: a lease belongs to the lock it was taken from.
NextEpoch == 1 + Cardinality(DOMAIN leases)

Acquire(o, compensates) ==
  /\ o \notin DOMAIN leases
  /\ LET l == IF lock # NoLock THEN lock
              ELSE [epoch |-> NextEpoch, saved |-> style, at |-> scroll]
         table == [x \in DOMAIN leases \cup {o} |->
                     IF x = o THEN [epoch |-> l.epoch, compensates |-> compensates, held |-> TRUE]
                     ELSE leases[x]]
         holders == {x \in DOMAIN table : table[x].epoch = l.epoch /\ table[x].held}
     IN  /\ lock' = l /\ leases' = table
         /\ style' = [position |-> "fixed", padding |-> Padding(l, holders, table)]
         /\ scroll' = scroll
         /\ guard' = IF lock = NoLock THEN Idle ELSE guard
  /\ UNCHANGED <<fingers, gesture, panned, touches>>

IsHeld(o) == leases[o].held

\* The function returned, called in any order and more than once.
Release(o) ==
  /\ o \in DOMAIN leases
  /\ LET rest == {x \in DOMAIN leases \ {o} : leases[x].epoch = leases[o].epoch /\ leases[x].held}
     IN  IF ~IsHeld(o) THEN UNCHANGED <<lock, leases, style, scroll, guard>>
         ELSE /\ leases' = [leases EXCEPT ![o].held = FALSE]
              /\ IF rest # {}
                   THEN /\ style' = [style EXCEPT !.padding = Padding(lock, rest, leases)]
                        /\ UNCHANGED <<lock, scroll, guard>>
                   ELSE /\ lock' = NoLock /\ guard' = NoGuard
                        /\ style' = lock.saved /\ scroll' = lock.at
  /\ gesture' = (gesture /\ guard'.on)
  /\ UNCHANGED <<fingers, panned, touches>>
\* The application styles the page, and the user scrolls it, when it is free.
Page ==
  /\ lock = NoLock
  /\ \E p \in Paddings : style' = [style EXCEPT !.padding = p]
  /\ scroll' \in Offsets
  /\ UNCHANGED <<lock, leases, guard, fingers, gesture, panned, touches>>

-------------------------------------------------------------------------------
(* attachDocumentTouchScrollGuard                                          *)

\* canConsumeVerticalTouchScroll: one pixel of tolerance; a scroller that contains
\* the scroll hides the ones around it.
Room(s, down) == IF down THEN s.maximum - s.top > 1 ELSE s.top > 1

CanConsume(path, down) ==
  \E i \in DOMAIN path :
    /\ path[i].reversed \/ Room(path[i], down)
    /\ \A j \in 1 .. i - 1 : ~path[j].contains

\* onStart; native: two fingers, a zoomed page or a control that handles touches.
TouchStart(native, path) ==
  /\ touches < MaxTouches /\ fingers < 2
  /\ touches' = touches + 1 /\ fingers' = fingers + 1
  /\ gesture' = (guard.on /\ fingers = 0 /\ ~native)
  /\ guard' = IF ~guard.on \/ guard.bypass THEN guard
              ELSE IF fingers' # 1 \/ native
                THEN [guard EXCEPT !.bypass = TRUE, !.observes = FALSE, !.path = NoPath]
                ELSE [guard EXCEPT !.observes = TRUE, !.path = path]
  /\ UNCHANGED <<lock, leases, style, scroll, panned>>

\* How a touch moves: a way of the content that may be stopped, or "free" of it: sideways,
\* in an event that cannot be cancelled, or in one that somebody has cancelled.
Ways == {"down", "up", "free"}

\* What moves: the finger that is observed, on what it began in; "changed", another
\* finger or a zoomed page; "native", what it began in handles touches by now.
Movers == {"observed", "changed", "native"}

WrongMovesAlone(mover) == fingers = 1 \* any finger goes on with the gesture of another

MovesAlone(mover) == fingers = 1 /\ mover # "changed"

\* onMove of all fingers.
TouchMove(way, mover) ==
  LET observed == guard.observes /\ ~guard.bypass
      consumed == CanConsume(guard.path, way = "down")
  IN
  /\ fingers > 0
  /\ guard' = IF ~observed THEN guard
              ELSE IF ~MovesAlone(mover) THEN [guard EXCEPT !.bypass = TRUE, !.observes = FALSE, !.path = NoPath]
              ELSE [guard EXCEPT !.bypass = (mover = "native")]
  /\ gesture' = (gesture /\ fingers = 1 /\ mover = "observed")
  /\ panned' = [pans |-> way # "free", consumed |-> consumed, ordinary |-> gesture' /\ guard.on,
                prevented |-> /\ observed /\ MovesAlone(mover) /\ mover # "native"
                              /\ way # "free" /\ ~consumed]
  /\ UNCHANGED <<lock, leases, style, scroll, fingers, touches>>

\* onEnd, when a finger is lifted.
Lifted == IF fingers' > 0 \/ ~guard.on THEN guard ELSE Idle

TouchEnd ==
  /\ fingers > 0 /\ fingers' = fingers - 1
  /\ gesture' = FALSE
  /\ guard' = Lifted
  /\ UNCHANGED <<lock, leases, style, scroll, panned, touches>>

Next ==
  \/ \E o \in Overlays : Release(o) \/ \E compensates \in BOOLEAN : Acquire(o, compensates)
  \/ Page
  \/ \E native \in BOOLEAN, path \in Paths : TouchStart(native, path)
  \/ \E way \in Ways, mover \in Movers : TouchMove(way, mover)
  \/ TouchEnd

Spec == Init /\ [][Next]_vars

-------------------------------------------------------------------------------
Held == {o \in DOMAIN leases : leases[o].held}

\* The page is fixed exactly while some overlay holds a lease, in whatever order and
\* however often leases are released, and makes up for the scrollbar exactly while
\* a holder asks for it.
FixedWhileHeld ==
  /\ (lock # NoLock) <=> (Held # {})
  /\ style.position = (IF Held = {} THEN "static" ELSE "fixed")
  /\ Held # {} =>
       style.padding = lock.saved.padding
                         + (IF \E o \in Held : leases[o].compensates THEN Scrollbar ELSE 0)

\* A vertical move of an ordinary one finger gesture is stopped if and only if it can be
\* and no scroller takes it; a gesture that became the browser's own, at its start or in
\* one of its moves, is not touched again until all fingers are lifted.
OnlyEdgePansStop ==
  panned.prevented <=> panned.ordinary /\ panned.pans /\ ~panned.consumed
===============================================================================
