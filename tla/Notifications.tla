----------------------------- MODULE Notifications -----------------------------
(***************************************************************************)
(* createNotificationsStore and the progress facade of notify: the stack   *)
(* of visible toasts, its history, and one timer per toast that closes     *)
(* itself.  Every action of the store is synchronous; timers of the        *)
(* browser run at any moment from their due time on.                       *)
(***************************************************************************)
EXTENDS Integers, Sequences, FiniteSets

CONSTANTS
  Ids,
  Absent,      \* an optional field that is not given
  NoTtl,       \* ttlMs that is not given, or undefined
  MaxVisible,  \* MAX_VISIBLE_ITEMS
  DefaultTtl,  \* DEFAULT_NOTIFICATION_TTL_MS
  Ttls,        \* lifetimes callers ask for; <= 0 keeps the toast open
  MaxCalls, MaxTime \* bounds on the behaviours

VARIABLES
  items,   \* the visible toasts, newest first
  history,
  timers,  \* the due time of the armed timers
  now,
  calls,   \* texts given so far: every call has a text of its own
  running, \* caller's view: long operations whose toast nobody closed
  erased   \* caller's view: texts clearHistory took out of the history

vars == <<items, history, timers, now, calls, running, erased>>

Retains == {Absent, TRUE, FALSE}
Notification == [id : Ids, text : Nat, ttl : Ttls \cup {NoTtl, DefaultTtl}, retain : Retains]

Distinct(s) == \A i, j \in DOMAIN s : s[i].id = s[j].id => i = j

TypeOK ==
  /\ items \in Seq(Notification) /\ Len(items) <= MaxVisible /\ Distinct(items)
  /\ history \in Seq(Notification) /\ Distinct(history)
  /\ DOMAIN timers \subseteq Ids /\ \A id \in DOMAIN timers : timers[id] \in Nat
  /\ now \in 0 .. MaxTime /\ calls \in 0 .. MaxCalls
  /\ running \subseteq Ids /\ erased \subseteq Ids

Init ==
  /\ items = <<>> /\ history = <<>>
  /\ timers = [id \in {} |-> 0]
  /\ now = 0 /\ calls = 0 /\ running = {} /\ erased = {}

IdsOf(s) == {s[i].id : i \in DOMAIN s}
\* filter of the sequence, as a function on its beginnings.
Drop(s, id) ==
  LET kept[i \in 0 .. Len(s)] ==
        IF i = 0 THEN <<>> ELSE IF s[i].id # id THEN Append(kept[i - 1], s[i]) ELSE kept[i - 1]
  IN  kept[Len(s)]
Replace(s, n) == [i \in DOMAIN s |-> IF s[i].id = n.id THEN n ELSE s[i]]

-------------------------------------------------------------------------------
(* The timers.                                                             *)

Cleared(ids) == [id \in DOMAIN timers \ ids |-> timers[id]]

Lifetime(ttl) == IF ttl = NoTtl THEN DefaultTtl ELSE ttl

\* armTimer, after the timers of the toasts in gone were cleared.
Armed(gone, id, ttl) ==
  [x \in (DOMAIN timers \ (gone \cup {id})) \cup (IF Lifetime(ttl) > 0 THEN {id} ELSE {})
     |-> IF x = id THEN now + Lifetime(ttl) ELSE timers[x]]

-------------------------------------------------------------------------------
(* The actions of the store.                                               *)

WrongPushedOut(kept) == {} \* timers of toasts pushed out of the stack stay

PushedOut(kept) == IdsOf(items) \ IdsOf(kept)

PushedHistory(n) ==
  IF n.retain # FALSE THEN <<n>> \o Drop(history, n.id) ELSE Drop(history, n.id)

DoPush(id, ttl, retain) ==
  LET n == [id |-> id, text |-> calls', ttl |-> ttl, retain |-> retain]
      stack == <<n>> \o Drop(items, id)
      kept == SubSeq(stack, 1, IF Len(stack) > MaxVisible THEN MaxVisible ELSE Len(stack))
  IN  /\ items' = kept
      /\ history' = PushedHistory(n)
      /\ timers' = Armed(PushedOut(kept), id, ttl)
      /\ erased' = erased \ {id}

UpdatedHistory(n, retain) ==
  IF n.retain = FALSE THEN Drop(history, n.id)
  ELSE IF n.id \in IdsOf(history) THEN Replace(history, n)
  ELSE IF retain = TRUE THEN <<n>> \o history
  ELSE history

Rearmed(id, hasTtl, ttl) == IF hasTtl THEN Armed({}, id, ttl) ELSE timers

\* update with a patch that has a key ttlMs or not.
DoUpdate(id, hasTtl, ttl, retain) ==
  LET previous == items[CHOOSE i \in DOMAIN items : items[i].id = id]
      n == [id |-> id, text |-> calls',
            ttl |-> IF hasTtl THEN ttl ELSE previous.ttl,
            retain |-> IF retain # Absent THEN retain ELSE previous.retain]
  IN  /\ items' = Replace(items, n)
      /\ history' = UpdatedHistory(n, retain)
      /\ timers' = Rearmed(id, hasTtl, ttl)
      /\ erased' = IF retain = TRUE THEN erased \ {id} ELSE erased

DoUpsert(id, ttl, retain) ==
  IF id \in IdsOf(items) THEN DoUpdate(id, TRUE, ttl, retain) ELSE DoPush(id, ttl, retain)

Call == calls < MaxCalls /\ calls' = calls + 1 /\ now' = now

Push(id, ttl, retain) ==
  Call /\ DoPush(id, ttl, retain) /\ running' = running \ {id}

\* An update of a toast that is gone changes nothing.
Update(id, hasTtl, ttl, retain) ==
  /\ id \in IdsOf(items)
  /\ Call /\ DoUpdate(id, hasTtl, ttl, retain) /\ UNCHANGED running

Upsert(id, ttl, retain) ==
  Call /\ DoUpsert(id, ttl, retain) /\ UNCHANGED running

Dismissed(id) ==
  items' = Drop(items, id) /\ timers' = Cleared({id})

Dismiss(id) ==
  /\ Dismissed(id)
  /\ running' = running \ {id}
  /\ UNCHANGED <<history, now, calls, erased>>

Clear ==
  /\ items' = <<>> /\ timers' = [id \in {} |-> 0] /\ running' = {}
  /\ UNCHANGED <<history, now, calls, erased>>

ClearHistory ==
  /\ history' = <<>>
  /\ erased' = IdsOf(items)
  /\ UNCHANGED <<items, timers, now, calls, running>>

-------------------------------------------------------------------------------
(* notify.progress                                                         *)

Progress(id) ==
  /\ Call
  /\ DoUpsert(id, NoTtl, Absent)
  /\ running' = running \cup {id}

\* success and error of the operation: an update of its toast, if it is there.
Finish(id, ttl) ==
  /\ id \in running
  /\ running' = running \ {id}
  /\ IF id \in IdsOf(items)
       THEN Call /\ DoUpdate(id, TRUE, ttl, Absent)
       ELSE UNCHANGED <<items, history, timers, now, calls, erased>>

-------------------------------------------------------------------------------
TimerFires(id) ==
  /\ id \in DOMAIN timers /\ timers[id] <= now
  /\ Dismissed(id)
  /\ UNCHANGED <<history, now, calls, running, erased>>

Tick == now < MaxTime /\ now' = now + 1 /\ UNCHANGED <<items, history, timers, calls, running, erased>>

Next ==
  \/ \E id \in Ids :
       \/ \E ttl \in Ttls \cup {NoTtl}, retain \in Retains :
            \/ Push(id, ttl, retain)
            \/ Upsert(id, ttl, retain)
            \/ \E hasTtl \in BOOLEAN : Update(id, hasTtl, ttl, retain)
       \/ Dismiss(id)
       \/ Progress(id)
       \/ \E ttl \in Ttls : Finish(id, ttl)
       \/ TimerFires(id)
  \/ Clear
  \/ ClearHistory
  \/ Tick

Spec == Init /\ [][Next]_vars

-------------------------------------------------------------------------------
Toasts == {items[i] : i \in DOMAIN items}
Records == {history[i] : i \in DOMAIN history}

\* A timer runs for exactly the visible toasts that close themselves: none is
\* stranded on the screen, a sticky one is never closed, and no timer outlives
\* its toast to close a later one with the same id.
TimerPerToast ==
  DOMAIN timers = {n.id : n \in {m \in Toasts : Lifetime(m.ttl) > 0}}

\* The history of a visible toast is what the toast says now.
HistoryAgrees == \A n \in Toasts, h \in Records : n.id = h.id => n = h

\* What clearHistory erased comes back only when a caller asks for it anew.
ErasedStaysOut == erased \cap IdsOf(history) = {}
===============================================================================
