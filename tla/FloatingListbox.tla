----------------------------- MODULE FloatingListbox -----------------------------
(***************************************************************************)
(* useFloatingListbox: the list of options that opens at a reference, its  *)
(* active option under the keyboard, the focus that moves between the      *)
(* reference and the popup, and the sizes a resolver of the caller gives   *)
(* the popup.  The caller renders other parameters at any time, also while *)
(* the list is open, and may keep `open` itself; Floating UI applies sizes *)
(* when it likes.                                                          *)
(*                                                                         *)
(* The caller mounts the popup while the list is open.  Indexes count from *)
(* 1 and None is the code's -1.                                            *)
(***************************************************************************)
EXTENDS Integers, Sequences, FiniteSets

CONSTANTS
  MaxOptions, \* bound on the options
  Settings,   \* the other parameters a caller may give
  Standard,   \* width, minWidth, maxWidth, maxHeight
  Based,      \* the standard properties the hook sets itself
  Custom      \* custom properties

VARIABLES
  options,  \* whether each option is enabled
  selected, \* selectedIndex, which may have left the options
  open,     \* resolvedOpen
  current,  \* currentActiveIndex
  settings, \* the parameters of the last render
  focused,  \* where the focus is
  frame,    \* a frame is requested that will focus the popup
  chosen,   \* history: the option told to onSelect by the last step, and who asked
  style,    \* properties of the popup: who gave each its value
  applied   \* floatingListboxAppliedSizeState of the popup

listVars == <<options, selected, open, current, settings, focused, frame, chosen>>
sizeVars == <<style, applied>>
vars == <<listVars, sizeVars>>

None == 0
NoState == [custom |-> {}, standard |-> <<>>]
Authors == {"author", "base", "resolver", "unset"}

\* controlled: the caller keeps `open` and may refuse a change it is asked for.
Setting == [disabled : BOOLEAN, closeOnSelect : BOOLEAN, focusFloatingOnOpen : BOOLEAN,
            allowOpenWithoutOptions : BOOLEAN, restoreFocusOnClose : BOOLEAN,
            resolves : BOOLEAN, controlled : BOOLEAN]
OptionLists == UNION {[1 .. n -> BOOLEAN] : n \in 0 .. MaxOptions}

TypeOK ==
  /\ options \in Seq(BOOLEAN) /\ Len(options) <= MaxOptions
  /\ selected \in 0 .. MaxOptions /\ current \in 0 .. MaxOptions
  /\ open \in BOOLEAN /\ frame \in BOOLEAN /\ settings \in Settings
  /\ focused \in {"reference", "popup", "elsewhere"} /\ (focused = "popup" => open)
  /\ style \in [Standard \cup Custom -> Authors]
  /\ applied.custom \subseteq Custom

-------------------------------------------------------------------------------
(* The active option.                                                      *)

Enabled(i) == i \in DOMAIN options /\ options[i]

EnabledAt == {i \in DOMAIN options : options[i]}
FirstEnabled == IF EnabledAt = {} THEN None ELSE CHOOSE i \in EnabledAt : \A j \in EnabledAt : i <= j
LastEnabled == IF EnabledAt = {} THEN None ELSE CHOOSE i \in EnabledAt : \A j \in EnabledAt : j <= i

\* findNextEnabledIndex without wrap.
NextEnabled(i, step) ==
  LET further == {j \in EnabledAt : IF step = 1 THEN j > i ELSE j < i}
  IN  IF further # {}
        THEN CHOOSE j \in further : \A x \in further : IF step = 1 THEN j <= x ELSE x <= j
        ELSE IF i \in DOMAIN options THEN i ELSE None

ResolveActiveIndex(i) ==
  IF Enabled(i) THEN i ELSE IF Enabled(selected) THEN selected ELSE FirstEnabled

ActiveIndex == ResolveActiveIndex(current)
SelectedOr(fallback) == IF selected # None THEN selected ELSE fallback

\* The style attribute of a popup that has just been mounted.
Authored == [p \in Standard \cup Custom |-> IF p \in Standard THEN "author" ELSE "unset"]

NotChosen == [option |-> None, by |-> "none", enabled |-> TRUE, seen |-> None]

Init ==
  /\ options \in OptionLists /\ selected \in 0 .. Len(options)
  /\ settings \in Settings
  /\ open \in IF settings.controlled THEN BOOLEAN ELSE {FALSE}
  /\ current = SelectedOr(FirstEnabled)
  /\ focused = "elsewhere" /\ frame = (open /\ settings.focusFloatingOnOpen)
  /\ chosen = NotChosen
  /\ style = Authored /\ applied = NoState

-------------------------------------------------------------------------------
(* What follows from a change, in the same step.                           *)

\* setResolvedOpen: the state of the hook, or a caller who may refuse.
SetResolvedOpen(o) == open' \in IF settings.controlled THEN {open, o} ELSE {o}

\* The focus goes to a place, and is lost if that is a popup which is unmounted.
Focus(place) == focused' = IF place = "popup" /\ ~open' THEN "elsewhere" ELSE place

\* The effect on a list that has opened, and the new element of its popup.
Effects ==
  /\ frame' = (frame \/ (open' /\ settings'.focusFloatingOnOpen
                           /\ ~(open /\ settings.focusFloatingOnOpen)))
  /\ IF open /\ open' THEN UNCHANGED sizeVars ELSE style' = Authored /\ applied' = NoState

\* close also when the list is closed.
Close ==
  /\ SetResolvedOpen(FALSE)
  /\ Focus(IF settings.restoreFocusOnClose THEN "reference" ELSE focused)

Stay == open' = open /\ focused' = focused

OpenWithIndex(i) ==
  IF settings.disabled \/ ~(settings.allowOpenWithoutOptions \/ options # <<>>)
    THEN Stay /\ current' = current
    ELSE /\ SetResolvedOpen(TRUE) /\ Focus(focused)
         /\ current' = IF options # <<>> THEN ResolveActiveIndex(i) ELSE current

OpenList == OpenWithIndex(SelectedOr(FirstEnabled))

ToggleOpen == IF open THEN Close /\ current' = current ELSE OpenList

\* selectOption, of a caller or of the active option.
SelectOption(i, by) ==
  /\ current' = current
  /\ IF Enabled(i)
       THEN /\ chosen' = [option |-> i, by |-> by, enabled |-> options[i], seen |-> ActiveIndex]
            /\ IF settings.closeOnSelect THEN Close ELSE Stay
       ELSE chosen' = NotChosen /\ Stay

SelectActiveOption ==
  IF ActiveIndex = None THEN chosen' = NotChosen /\ Stay /\ current' = current
  ELSE SelectOption(ActiveIndex, "keyboard")

-------------------------------------------------------------------------------
(* The handlers.                                                           *)

Moves == {"Down", "Up", "Home", "End"}

\* Where a key of the open list moves the active option.
MoveActive(key) ==
  /\ Stay
  /\ current' = CASE key = "Down" -> NextEnabled(ActiveIndex, 1)
                  [] key = "Up"   -> NextEnabled(ActiveIndex, -1)
                  [] key = "Home" -> FirstEnabled
                  [] key = "End"  -> LastEnabled

\* useDismiss: Escape closes an open list wherever it is pressed.
Dismiss == IF open THEN SetResolvedOpen(FALSE) /\ Focus(focused) ELSE Stay

\* After close the browser takes the focus further.
CloseByTab == SetResolvedOpen(FALSE) /\ focused' = "elsewhere" /\ current' = current

HandleReferenceKeyDown(key) ==
  /\ focused = "reference" /\ chosen' = NotChosen
  /\ \/ key = "Escape" /\ settings.disabled /\ Dismiss /\ current' = current
     \/ ~settings.disabled /\
          \/ key = "Down" /\ ~open /\ OpenList
          \/ key = "Up" /\ ~open /\ OpenWithIndex(SelectedOr(LastEnabled))
          \/ key \in Moves /\ open /\ MoveActive(key)
          \/ key = "Escape" /\ open /\ Close /\ current' = current
          \/ key = "Tab" /\ open /\ CloseByTab

\* The popup has the focus, or an element inside it for which only Escape counts;
\* also when the control has been disabled meanwhile.
HandleFloatingKeyDown(key) ==
  /\ focused = "popup"
  /\ \/ key = "Activate" /\ SelectActiveOption
     \/ chosen' = NotChosen /\
          \/ key \in Moves /\ MoveActive(key)
          \/ key = "Escape" /\ Close /\ current' = current
          \/ key = "Tab" /\ CloseByTab

Press ==
  /\ UNCHANGED <<options, selected, settings>>
  /\ \E key \in Moves \cup {"Escape", "Tab", "Activate"} :
       HandleReferenceKeyDown(key) \/ HandleFloatingKeyDown(key)
  /\ Effects

\* Escape elsewhere, or a press outside the reference and the popup.
DismissList ==
  /\ open /\ chosen' = NotChosen
  /\ \/ focused = "elsewhere" /\ Dismiss
     \/ SetResolvedOpen(FALSE) /\ focused' = "elsewhere"
  /\ UNCHANGED <<options, selected, settings, current>> /\ Effects

\* What the hook returns to its caller to be called at any time.
Call ==
  /\ UNCHANGED <<options, selected, settings>>
  /\ \/ /\ chosen' = NotChosen
        /\ \/ Close /\ current' = current
           \/ ToggleOpen
           \/ OpenList
           \/ \E i \in 0 .. MaxOptions : OpenWithIndex(i)
           \/ \E o \in BOOLEAN : SetResolvedOpen(o) /\ Focus(focused) /\ current' = current
     \/ \E i \in DOMAIN options : SelectOption(i, "pointer")
     \/ SelectActiveOption
  /\ Effects

\* The frame of the effect; the popup may be gone by then.
FrameRuns ==
  /\ frame /\ frame' = FALSE
  /\ focused' = IF open THEN "popup" ELSE focused
  /\ chosen' = NotChosen
  /\ UNCHANGED <<options, selected, open, current, settings, sizeVars>>

MoveFocus ==
  /\ focused' \in {"reference", "elsewhere"} \cup (IF open THEN {"popup"} ELSE {})
  /\ chosen' = NotChosen
  /\ UNCHANGED <<options, selected, open, current, settings, frame, sizeVars>>

\* The caller renders with any parameters.
Rerender ==
  /\ chosen' = NotChosen /\ current' = current
  /\ options' \in OptionLists /\ selected' \in 0 .. MaxOptions
  /\ settings' \in {s \in Settings : s.controlled = settings.controlled}
  /\ open' \in IF settings.controlled THEN BOOLEAN ELSE {open}
  /\ Focus(focused) /\ Effects

-------------------------------------------------------------------------------
(* The sizes.                                                              *)

WrongSaved(given) == [p \in given \cap Standard |-> style[p]] \* before the reset

\* What the properties were before the resolver, after the hook has set its own.
Saved(given) ==
  [p \in given \cap Standard |->
     IF p \in Based THEN "base"
     ELSE IF p \in DOMAIN applied.standard THEN applied.standard[p] ELSE style[p]]

\* What the resolver stored by the layout effect of the last render may give a value,
\* for some geometry.
Resolved == IF settings.resolves THEN SUBSET (Standard \cup Custom) ELSE {{}}

\* size.apply: reset what the last resolver did, then the base, then the resolver.
Apply ==
  /\ open /\ UNCHANGED <<options, selected, open, current, settings, focused, frame>>
  /\ chosen' = NotChosen
  /\ \E given \in Resolved :
       /\ style' = [p \in Standard \cup Custom |->
            IF p \in given THEN "resolver"
            ELSE IF p \in Based THEN "base"
            ELSE IF p \in applied.custom THEN "unset"
            ELSE IF p \in DOMAIN applied.standard THEN applied.standard[p]
            ELSE style[p]]
       /\ applied' = [custom |-> given \cap Custom, standard |-> Saved(given)]

Next == Press \/ DismissList \/ Call \/ FrameRuns \/ MoveFocus \/ Rerender \/ Apply

Spec == Init /\ [][Next]_vars

-------------------------------------------------------------------------------
\* However options come, go and are disabled, the active option of the list is one
\* that can be chosen, if there is any, and the keyboard chooses what was shown.
ActiveIsUsable ==
  /\ IF EnabledAt = {} THEN ActiveIndex = None ELSE ActiveIndex \in EnabledAt
  /\ chosen.by = "keyboard" => chosen.option = chosen.seen /\ chosen.enabled

\* After any sequence of resolvers and applications the popup has the sizes of the
\* last resolver that was applied, the hook's own, and otherwise the author's; what
\* is kept to undo the resolver is never the value of an earlier resolver.
SizesAreRestored ==
  /\ \A p \in DOMAIN applied.standard : applied.standard[p] # "resolver"
  /\ \A p \in Standard \cup Custom :
       style[p] \in IF p \in applied.custom \cup DOMAIN applied.standard THEN {"resolver"}
                    ELSE IF p \in Custom THEN {"unset"}
                    ELSE IF p \in Based THEN {"author", "base"}
                    ELSE {"author"}
===============================================================================
