-------------------------- MODULE RuntimeDeduplication --------------------------
(***************************************************************************)
(* coalesceRuntimeErrorReportCapture: equal errors share the promise of    *)
(* one capture for a window of time.  The state is a Map, one timer per    *)
(* entry, and the promises still pending, whose rejection arrives when the *)
(* entry may be gone or replaced.  An entry is set when its capture begins *)
(* and never again, so the insertion order of the Map is the order of the  *)
(* numbers of the captures, and the Map is a set of records.               *)
(*                                                                         *)
(* Timers run on the clock of the host and late at will; capturedAt is     *)
(* read from Date.now(), which may be set back.                            *)
(***************************************************************************)
EXTENDS Integers, FiniteSets

CONSTANTS
  Fingerprints,
  Window,    \* RUNTIME_ERROR_REPORT_DEDUPLICATION_WINDOW_MS
  MaxRecent, \* MAX_RECENT_RUNTIME_ERROR_REPORTS
  MaxCaptures, MaxTime, MaxAdjusts \* bounds on the behaviours

ASSUME DeduplicationAssumption ==
  {Window, MaxRecent} \subseteq Nat \ {0} /\ {MaxCaptures, MaxTime, MaxAdjusts} \subseteq Nat

VARIABLES
  recent,   \* recentRuntimeErrorReports
  timers,   \* timers of the host: the capture they expire and when
  pending,  \* captures whose promise is not settled, with their fingerprints
  captures, \* captures begun; a capture is named by its number
  clock,    \* the time of the host
  skew,     \* Date.now() - clock
  adjusts,
  answers   \* caller's view: the last capture and time of every fingerprint

vars == <<recent, timers, pending, captures, clock, skew, adjusts, answers>>

Captures == 1 .. MaxCaptures
Record == [fingerprint : Fingerprints, capture : Captures, capturedAt : Int]
Timer == [fingerprint : Fingerprints, capture : Captures, due : Nat]
Now == clock + skew
NoAnswer == 0 \* nobody asked, or what was answered may be forgotten

TypeOK ==
  /\ recent \in SUBSET Record /\ Cardinality(recent) <= MaxRecent
  /\ \A r, s \in recent : r.fingerprint = s.fingerprint \/ r.capture = s.capture => r = s
  /\ timers \in SUBSET Timer /\ pending \in SUBSET (Fingerprints \X Captures)
  /\ captures \in 0 .. MaxCaptures /\ clock \in 0 .. MaxTime
  /\ adjusts \in 0 .. MaxAdjusts
  /\ answers \in [Fingerprints -> Captures \cup {NoAnswer}]

Init ==
  /\ recent = {} /\ timers = {} /\ pending = {}
  /\ captures = 0 /\ clock = 0 /\ skew = 0 /\ adjusts = 0
  /\ answers = [f \in Fingerprints |-> NoAnswer]

\* The timers of the entries that stay; those of the others are cleared.
TimersOf(records) == {t \in timers : \E r \in records : r.capture = t.capture}

WrongFresh(r) == Now - r.capturedAt < Window - 1

Fresh(r) == Now - r.capturedAt < Window

\* The entries left when the oldest were removed to make room for one.
Room(records) ==
  {r \in records : Cardinality({q \in records : q.capture >= r.capture}) < MaxRecent}

Find(f) == {r \in recent : r.fingerprint = f}

Forget(f, kept) == IF \E r \in kept : r.fingerprint = f THEN answers[f] ELSE NoAnswer

\* The call finds a fresh entry: it is answered with its promise.
Coalesce(f) ==
  /\ \E r \in Find(f) :
       Fresh(r) /\ answers' = [answers EXCEPT ![f] = r.capture]
  /\ UNCHANGED <<recent, timers, pending, captures, clock, skew, adjusts>>

\* The call begins a capture of its own.
Capture(f) ==
  /\ captures < MaxCaptures
  /\ ~\E r \in Find(f) : Fresh(r)
  /\ LET kept == Room({r \in recent : Fresh(r)})
         c == captures + 1
     IN  /\ recent' = kept \cup {[fingerprint |-> f, capture |-> c, capturedAt |-> Now]}
         /\ timers' = TimersOf(kept) \cup
                        {[fingerprint |-> f, capture |-> c, due |-> clock + Window]}
         /\ captures' = c /\ pending' = pending \cup {<<f, c>>}
         /\ answers' = [g \in Fingerprints |-> IF g = f THEN c ELSE Forget(g, kept)]
  /\ UNCHANGED <<clock, skew, adjusts>>

WrongIsExpected(r, f, c) == r.fingerprint = f \* the promise is not compared

\* Whether removeRuntimeErrorReport(f, c) takes the record out.
IsExpected(r, f, c) == r.fingerprint = f /\ r.capture = c

RemoveEntry(f, c, others) ==
  LET kept == {r \in recent : ~IsExpected(r, f, c)} IN
  /\ recent' = kept
  /\ timers' = others \cap TimersOf(kept)
  /\ answers' = [g \in Fingerprints |-> IF answers[g] = c THEN NoAnswer ELSE answers[g]]

TimerFires(t) ==
  /\ t.due <= clock
  /\ RemoveEntry(t.fingerprint, t.capture, timers \ {t})
  /\ UNCHANGED <<pending, captures, clock, skew, adjusts>>

\* The promise p is kept, or it is rejected and its catch runs.
Fulfilled(p) ==
  /\ pending' = pending \ {p}
  /\ UNCHANGED <<recent, timers, captures, clock, skew, adjusts, answers>>

Rejected(p) ==
  /\ pending' = pending \ {p}
  /\ RemoveEntry(p[1], p[2], timers)
  /\ UNCHANGED <<captures, clock, skew, adjusts>>

Cleared == {}

\* clearRuntimeErrorReportDeduplication, when the app changes its reporter.
Clear ==
  /\ recent' = {} /\ timers' = Cleared
  /\ answers' = [f \in Fingerprints |-> NoAnswer]
  /\ UNCHANGED <<pending, captures, clock, skew, adjusts>>

Tick == clock < MaxTime /\ clock' = clock + 1
        /\ UNCHANGED <<recent, timers, pending, captures, skew, adjusts, answers>>

SetBack ==
  /\ adjusts < MaxAdjusts /\ adjusts' = adjusts + 1 /\ skew' = skew - 1
  /\ UNCHANGED <<recent, timers, pending, captures, clock, answers>>

Next ==
  \/ \E f \in Fingerprints : Coalesce(f) \/ Capture(f)
  \/ \E t \in timers : TimerFires(t)
  \/ \E p \in pending : Fulfilled(p) \/ Rejected(p)
  \/ Clear \/ Tick \/ SetBack

Spec == Init /\ [][Next]_vars

-------------------------------------------------------------------------------
\* Every entry has one timer that will take it out, and no timer of an entry that
\* is gone comes to take out a later one.
TimerPerEntry ==
  /\ Cardinality(timers) = Cardinality(recent)
  /\ \A r \in recent : \E t \in timers :
       t.fingerprint = r.fingerprint /\ t.capture = r.capture

\* What a caller was answered is what the next caller of an equal error gets: only
\* expiry, its own rejection, a full map or a clear ends the sharing.
SharingLasts ==
  \A f \in Fingerprints : answers[f] # NoAnswer =>
    \E r \in Find(f) : r.capture = answers[f]

\* An entry lasts as long as its timer, and its sharing as long as the entry.
EntriesLast == TimerPerEntry /\ SharingLasts

\* Equal errors are captured again only when the window of the last capture is
\* over, that capture was rejected, the map was full, or it was cleared.
OneCapturePerWindow ==
  [][\A f \in Fingerprints :
       answers[f] # NoAnswer /\ answers'[f] \notin {NoAnswer, answers[f]} =>
         \E r \in Find(f) : Now - r.capturedAt >= Window]_vars
===============================================================================
