------------------------------ MODULE OverlayFocus ------------------------------
(***************************************************************************)
(* useOverlayFocus: overlays that take the focus once their container is   *)
(* in the document, keep Tab inside and give the focus back.  Overlays     *)
(* open and close in any order; a container may appear after its overlay   *)
(* opened and outlive it, for an animation.                                *)
(***************************************************************************)
EXTENDS Integers

CONSTANTS
  Overlays,
  MaxFocusable, \* bound on the focusable elements of a container
  MaxOpenings   \* bound on the behaviours

VARIABLES
  focus,    \* document.activeElement: its container and its place there
  overlay,  \* the effect of every overlay
  openings,
  cause     \* history: who moved the focus last

vars == <<focus, overlay, openings, cause>>

Document == "document"
Body == [in |-> Document, at |-> 0]
Elements == [in : Overlays \cup {Document}, at : 0 .. MaxFocusable]
Overlay == [active : BOOLEAN,
            trap : BOOLEAN, restore : BOOLEAN, \* trapFocus, restoreFocus
            rendered : BOOLEAN,                \* the container is in the document
            attached : BOOLEAN,                \* overlayElement is set
            frame : BOOLEAN,                   \* an animation frame is requested
            previous : Elements,               \* previousActiveElementRef
            size : 0 .. MaxFocusable]          \* focusable elements

TypeOK ==
  /\ focus \in Elements /\ overlay \in [Overlays -> Overlay]
  /\ openings \in 0 .. MaxOpenings

Init ==
  /\ focus = [in |-> Document, at |-> MaxFocusable]
  /\ overlay = [o \in Overlays |->
       [active |-> FALSE, trap |-> FALSE, restore |-> FALSE, rendered |-> FALSE,
        attached |-> FALSE, frame |-> FALSE, previous |-> Body, size |-> 0]]
  /\ openings = 0 /\ cause = "user"

IsConnected(e) ==
  IF e.in = Document THEN TRUE ELSE overlay[e.in].rendered /\ e.at <= overlay[e.in].size

\* attachOverlay once the ref is bound: resolveInitialFocus picks the container, a
\* focusable element or what the caller says.
Attach(o, options) ==
  \E at \in 0 .. options.size :
    /\ overlay' = [overlay EXCEPT ![o] = [options EXCEPT !.attached = TRUE, !.frame = FALSE]]
    /\ focus' = [in |-> o, at |-> at]
    /\ cause' = o

\* The effect of an overlay that becomes active.
Open(o) ==
  /\ ~overlay[o].active /\ openings < MaxOpenings
  /\ openings' = openings + 1
  /\ \E trap, restore, appears \in BOOLEAN, size \in 0 .. MaxFocusable :
       LET options == [active |-> TRUE, trap |-> trap, restore |-> restore,
                       rendered |-> appears \/ overlay[o].rendered, attached |-> FALSE,
                       frame |-> TRUE, previous |-> focus, size |-> size]
       IN  IF options.rendered THEN Attach(o, options)
           ELSE overlay' = [overlay EXCEPT ![o] = options] /\ UNCHANGED <<focus, cause>>

\* The callback of requestAnimationFrame asks for another frame while the ref is empty.
Frame(o) ==
  /\ overlay[o].frame /\ overlay[o].rendered
  /\ Attach(o, overlay[o])
  /\ openings' = openings

Cancelled(o) == FALSE

\* Removing the focused element leaves the focus with the body.
Left(o, removed) == IF removed /\ focus.in = o THEN Body ELSE focus

\* The commit that closes the overlay, and the cleanup of its effect.
Close(o) ==
  /\ overlay[o].active
  /\ \E stays \in BOOLEAN :
       LET closed == [overlay EXCEPT ![o].active = FALSE, ![o].attached = FALSE,
                                     ![o].rendered = @ /\ stays, ![o].frame = Cancelled(o)]
           target == overlay[o].previous
           there == target.in # o /\ IsConnected(target)
       IN  /\ overlay' = closed
           /\ focus' = IF overlay[o].restore /\ there THEN target ELSE Left(o, ~stays)
           /\ cause' = IF overlay[o].restore /\ there THEN "restore" ELSE cause
  /\ openings' = openings

\* React renders the container, or takes it out after an animation.
Render(o) ==
  /\ overlay[o].active = ~overlay[o].rendered
  /\ overlay' = [overlay EXCEPT ![o].rendered = overlay[o].active]
  /\ focus' = Left(o, ~overlay[o].active)
  /\ UNCHANGED <<openings, cause>>

Click(e) ==
  /\ IsConnected(e) /\ focus' = e /\ cause' = "user"
  /\ UNCHANGED <<overlay, openings>>

-------------------------------------------------------------------------------
\* The place handleTabKey moves the focus to, of n focusable elements; 0 is the
\* container itself, NoMove leaves the key to the browser.
NoMove == -1

Trapped(at, n, shift) ==
  IF n = 0 THEN 0
  ELSE IF shift /\ at \in {0, 1} THEN n
  ELSE IF ~shift /\ at = n THEN 1
  ELSE NoMove

\* What the browser does: the next element of the container, or out of it.
Native(at, n, shift) ==
  IF shift THEN (IF at > 1 THEN at - 1 ELSE NoMove)
  ELSE (IF at < n THEN at + 1 ELSE NoMove)

Tab(o, shift) ==
  LET v == overlay[o]
      kept == IF v.trap /\ v.attached THEN Trapped(focus.at, v.size, shift) ELSE NoMove
      to == IF kept # NoMove THEN kept ELSE Native(focus.at, v.size, shift)
  IN
  /\ focus.in = o
  /\ focus' = IF to = NoMove THEN Body ELSE [in |-> o, at |-> to]
  /\ cause' = "tab"
  /\ UNCHANGED <<overlay, openings>>

Next ==
  \/ \E o \in Overlays : Open(o) \/ Frame(o) \/ Close(o) \/ Render(o)
                           \/ \E shift \in BOOLEAN : Tab(o, shift)
  \/ \E e \in Elements : Click(e)

Spec == Init /\ [][Next]_vars

-------------------------------------------------------------------------------
\* An overlay takes the focus while it is active only, however late its container
\* appears; and Tab does not leave one that traps the focus, from its container as
\* from its first and last element.
FocusIsKept ==
  [][\A o \in Overlays :
       /\ cause' = o /\ focus' # focus /\ focus'.in = o => overlay'[o].active
       /\ overlay[o].active /\ overlay[o].trap /\ overlay[o].attached
            /\ focus.in = o /\ cause' = "tab" /\ UNCHANGED overlay
            => focus'.in = o]_vars
===============================================================================
