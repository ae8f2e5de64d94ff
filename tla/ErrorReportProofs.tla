--------------------------- MODULE ErrorReportProofs ---------------------------
(***************************************************************************)
(* Error reports, proved from capture to delivery: the deduplication of    *)
(* runtime errors, the drafts its sharers find and the opt-out of the      *)
(* browser storage, for every number of captures, drafts and errors and    *)
(* every window; and the durable queue, for every set of tabs, every       *)
(* finite set of reports, every capacity and every lifetime of records and *)
(* leases that is longer than a transaction is delayed.  The two           *)
(* components share no state: the host passes the payload of a draft on.   *)
(***************************************************************************)
EXTENDS ErrorReporting, ErrorReportQueue, FiniteSetTheorems, SequenceTheorems, TLAPS

(***************************************************************************)
(* The entries of the deduplication.                                       *)
(***************************************************************************)

DedupType ==
  /\ recent \subseteq Record /\ timers \subseteq Timer
  /\ captures \in 0 .. MaxCaptures /\ clock \in Nat /\ skew \in Int
  /\ pending \subseteq Fingerprints \X Captures
  /\ answers \in [Fingerprints -> Captures \cup {NoAnswer}]

\* A fingerprint and a capture have one entry, and a capture yet to begin none.
EntriesApart ==
  /\ IsFiniteSet(recent)
  /\ \A r, s \in recent : r.fingerprint = s.fingerprint \/ r.capture = s.capture => r = s
  /\ \A r \in recent : r.capture <= captures
  /\ \A p \in pending : p[2] <= captures
  /\ \A p \in pending, r \in recent : r.capture = p[2] => r.fingerprint = p[1]

\* Whether the timer will take out the entry.
TimerOf(t, r) == t.fingerprint = r.fingerprint /\ t.capture = r.capture

TimersMatch ==
  /\ \A t, u \in timers : t.capture = u.capture => t = u
  /\ \A t \in timers : \E r \in recent : TimerOf(t, r)
  /\ \A r \in recent : \E t \in timers : TimerOf(t, r)

Sharing == DedupType /\ EntriesApart /\ TimersMatch /\ SharingLasts

\* The step that takes out entries and their timers, and nothing of what is shared
\* by those that stay.
Leaves(kept) ==
  /\ recent' = kept
  /\ timers' = TimersOf(kept)
  /\ \A f \in Fingerprints : answers'[f] # NoAnswer =>
       answers'[f] = answers[f] /\ \E r \in kept : r.fingerprint = f

\* Entries may be taken out with their timers.
LEMMA LeavesKeepsSharing ==
  ASSUME Sharing, NEW kept \in SUBSET recent, Leaves(kept),
         captures' = captures, clock' \in Nat, skew' \in Int, pending' \subseteq pending,
         answers' \in [Fingerprints -> Captures \cup {NoAnswer}]
  PROVE  Sharing'
<1>1. DedupType'
  BY DEF Sharing, DedupType, Leaves, TimersOf
<1>2. EntriesApart'
  BY FS_Subset DEF Sharing, EntriesApart, Leaves
<1>3. TimersMatch'
  <2>1. \A t \in timers' : t \in timers /\ \E r \in kept : r.capture = t.capture
    BY DEF Leaves, TimersOf
  <2>2. ASSUME NEW t \in timers' PROVE \E r \in recent' : TimerOf(t, r)
    <3>1. PICK r \in recent : TimerOf(t, r)
      BY <2>1 DEF Sharing, TimersMatch
    <3>2. PICK k \in kept : k.capture = t.capture
      BY <2>1
    <3>3. k = r
      BY <3>1, <3>2 DEF Sharing, EntriesApart, TimerOf
    <3> QED
      BY <3>1, <3>3 DEF Leaves
  <2>3. ASSUME NEW r \in recent' PROVE \E t \in timers' : TimerOf(t, r)
    <3>1. PICK t \in timers : TimerOf(t, r)
      BY DEF Leaves, Sharing, TimersMatch
    <3> QED
      BY <3>1 DEF Leaves, TimersOf, TimerOf
  <2> QED
    BY <2>1, <2>2, <2>3 DEF Sharing, TimersMatch
<1>4. SharingLasts'
  <2> SUFFICES ASSUME NEW f \in Fingerprints, answers'[f] # NoAnswer
               PROVE  \E r \in recent' : r.fingerprint = f /\ r.capture = answers'[f]
    BY DEF SharingLasts, Find
  <2>1. PICK r \in recent : r.fingerprint = f /\ r.capture = answers[f]
    BY DEF Leaves, Sharing, SharingLasts, Find
  <2>2. PICK k \in kept : k.fingerprint = f
    BY DEF Leaves
  <2>3. k = r
    BY <2>1, <2>2 DEF Sharing, EntriesApart
  <2> QED
    BY <2>1, <2>2, <2>3 DEF Leaves
<1> QED
  BY <1>1, <1>2, <1>3, <1>4 DEF Sharing

LEMMA CoalesceKeepsSharing ==
  ASSUME Sharing, NEW f \in Fingerprints, Coalesce(f)
  PROVE  Sharing'
<1>1. PICK r \in recent : r.fingerprint = f /\ answers' = [answers EXCEPT ![f] = r.capture]
  BY DEF Coalesce, Find
<1>2. r.capture \in Captures
  BY DEF Sharing, DedupType, Record
<1>3. DedupType'
  BY <1>1, <1>2 DEF Coalesce, Sharing, DedupType
<1>4. EntriesApart' /\ TimersMatch'
  BY DEF Coalesce, Sharing, EntriesApart, TimersMatch
<1>5. SharingLasts'
  BY <1>1 DEF Coalesce, Sharing, DedupType, SharingLasts, Find
<1> QED
  BY <1>3, <1>4, <1>5 DEF Sharing

LEMMA CaptureKeepsSharing ==
  ASSUME Sharing, NEW f \in Fingerprints, Capture(f)
  PROVE  Sharing'
<1> DEFINE kept == Room({r \in recent : Fresh(r)})
           c == captures + 1
           entry == [fingerprint |-> f, capture |-> c, capturedAt |-> Now]
           timer == [fingerprint |-> f, capture |-> c, due |-> clock + Window]
<1>1. kept \subseteq recent /\ \A r \in kept : r.fingerprint # f
  BY DEF Capture, Room, Find
<1>2. c \in Captures /\ c \in 0 .. MaxCaptures /\ Now \in Int /\ clock + Window \in Nat
  BY DeduplicationAssumption DEF Capture, Sharing, DedupType, Captures, Now
<1>3. \A r \in recent : r.capture # c /\ r.capture <= c
  BY <1>2 DEF Sharing, EntriesApart, DedupType, Record, Captures
<1>4. \A t \in timers : t.capture # c
  BY <1>3 DEF Sharing, TimersMatch, TimerOf
<1>5. /\ recent' = kept \cup {entry} /\ timers' = TimersOf(kept) \cup {timer}
      /\ captures' = c /\ pending' = pending \cup {<<f, c>>}
      /\ answers' = [g \in Fingerprints |-> IF g = f THEN c ELSE Forget(g, kept)]
      /\ UNCHANGED <<clock, skew>>
  BY DEF Capture
<1> HIDE DEF kept, c
<1>6. DedupType'
  <2>1. entry \in Record /\ timer \in Timer
    BY <1>2 DEF Record, Timer
  <2>2. \A g \in Fingerprints : Forget(g, kept) \in Captures \cup {NoAnswer}
    BY DEF Forget, Sharing, DedupType
  <2>3. recent' \subseteq Record /\ timers' \subseteq Timer
    BY <1>1, <1>5, <2>1 DEF Sharing, DedupType, TimersOf
  <2>4. answers' \in [Fingerprints -> Captures \cup {NoAnswer}]
    BY <1>2, <1>5, <2>2
  <2> QED
    BY <1>2, <1>5, <2>3, <2>4 DEF Sharing, DedupType
<1>7. EntriesApart'
  <2>1. IsFiniteSet(kept) /\ IsFiniteSet(recent')
    BY <1>1, <1>5, FS_Subset, FS_AddElement DEF Sharing, EntriesApart
  <2>2. \A p \in pending : p[2] \in Captures /\ p[2] # c /\ p[2] <= c
    BY <1>2 DEF Sharing, DedupType, EntriesApart, Captures, c
  <2>3. \A r \in recent' : r \in recent \/ r = entry
    BY <1>1, <1>5
  <2>4. \A r, s \in recent' : r.fingerprint = s.fingerprint \/ r.capture = s.capture => r = s
    BY <1>1, <1>3, <1>5 DEF Sharing, EntriesApart
  <2>5. \A r \in recent' : r.capture <= captures'
    BY <1>2, <1>3, <1>5, <2>3
  <2>6. \A p \in pending' : p \in pending \/ p = <<f, c>>
    BY <1>5
  <2>7. \A p \in pending' : p[2] <= captures'
    BY <1>2, <1>5, <2>2, <2>6
  <2>8. \A p \in pending', r \in recent' : r.capture = p[2] => r.fingerprint = p[1]
    BY <1>3, <2>2, <2>3, <2>6 DEF Sharing, EntriesApart
  <2> QED
    BY <2>1, <2>4, <2>5, <2>7, <2>8 DEF EntriesApart
<1>8. TimersMatch'
  <2>1. \A t \in TimersOf(kept) : t \in timers /\ \E r \in kept : r.capture = t.capture
    BY DEF TimersOf
  <2>2. ASSUME NEW t \in TimersOf(kept) PROVE \E r \in kept : TimerOf(t, r)
    <3>1. PICK r \in recent : TimerOf(t, r)
      BY <2>1 DEF Sharing, TimersMatch
    <3>2. PICK k \in kept : k.capture = t.capture
      BY <2>1
    <3>3. k = r
      BY <1>1, <3>1, <3>2 DEF Sharing, EntriesApart, TimerOf
    <3> QED
      BY <3>1, <3>3
  <2>3. ASSUME NEW r \in kept PROVE \E t \in TimersOf(kept) : TimerOf(t, r)
    BY <1>1 DEF Sharing, TimersMatch, TimersOf, TimerOf
  <2>4. TimerOf(timer, entry) /\ timer.capture = c
    BY DEF TimerOf
  <2>5. \A t, u \in timers' : t.capture = u.capture => t = u
    BY <1>4, <1>5, <2>1, <2>4 DEF Sharing, TimersMatch
  <2> QED
    BY <1>5, <2>2, <2>3, <2>4, <2>5 DEF TimersMatch
<1>9. SharingLasts'
  <2> SUFFICES ASSUME NEW g \in Fingerprints, answers'[g] # NoAnswer
               PROVE  \E r \in recent' : r.fingerprint = g /\ r.capture = answers'[g]
    BY DEF SharingLasts, Find
  <2>1. CASE g = f
    <3>1. entry \in recent' /\ entry.fingerprint = f /\ entry.capture = c /\ answers'[f] = c
      BY <1>5
    <3> QED
      BY <2>1, <3>1
  <2>2. CASE g # f
    <3>1. answers'[g] = answers[g] /\ \E k \in kept : k.fingerprint = g
      BY <1>5, <2>2 DEF Forget
    <3>2. PICK k \in kept : k.fingerprint = g
      BY <3>1
    <3>3. PICK r \in recent : r.fingerprint = g /\ r.capture = answers[g]
      BY <3>1 DEF Sharing, SharingLasts, Find
    <3>4. k = r
      BY <1>1, <3>2, <3>3 DEF Sharing, EntriesApart
    <3> QED
      BY <1>5, <3>1, <3>2, <3>3, <3>4
  <2> QED
    BY <2>1, <2>2
<1> QED
  BY <1>6, <1>7, <1>8, <1>9 DEF Sharing

\* A timer or a rejection takes out the entry of its capture and nothing else.
LEMMA RemoveEntryKeepsSharing ==
  ASSUME Sharing, NEW f, NEW c \in Captures, NEW others,
         others = timers \/ \E t \in timers : t.capture = c /\ t.fingerprint = f /\ others = timers \ {t},
         RemoveEntry(f, c, others),
         \A r \in recent : r.capture = c => r.fingerprint = f,
         captures' = captures, clock' = clock, skew' = skew, pending' \subseteq pending
  PROVE  Sharing'
<1> DEFINE kept == {r \in recent : ~IsExpected(r, f, c)}
<1>1. \A r \in kept : r.capture # c
  BY DEF IsExpected
<1>2. TimersOf(kept) \subseteq others
  BY <1>1 DEF TimersOf
<1>3. recent' = kept /\ timers' = TimersOf(kept)
  BY <1>2 DEF RemoveEntry, TimersOf
<1>4. answers' = [g \in Fingerprints |-> IF answers[g] = c THEN NoAnswer ELSE answers[g]]
  BY DEF RemoveEntry
<1>5. ASSUME NEW g \in Fingerprints, answers'[g] # NoAnswer
      PROVE  answers'[g] = answers[g] /\ \E r \in kept : r.fingerprint = g
  <2>1. answers'[g] = answers[g] /\ answers[g] # c /\ answers[g] # NoAnswer
    BY <1>4, <1>5
  <2>2. PICK r \in recent : r.fingerprint = g /\ r.capture = answers[g]
    BY <2>1 DEF Sharing, SharingLasts, Find
  <2> QED
    BY <2>1, <2>2 DEF IsExpected
<1>6. answers' \in [Fingerprints -> Captures \cup {NoAnswer}]
  BY <1>4 DEF Sharing, DedupType
<1>7. Leaves(kept)
  BY <1>3, <1>5 DEF Leaves
<1>8. clock' \in Nat /\ skew' \in Int
  BY DEF Sharing, DedupType
<1>9. kept \in SUBSET recent
  OBVIOUS
<1> HIDE DEF kept
<1> QED
  BY <1>6, <1>7, <1>8, <1>9, LeavesKeepsSharing

\* What a step of the document may do to the deduplication: one of its own actions, or
\* a number taken for the capture of a query.
TakesNumber ==
  /\ captures < MaxCaptures /\ captures' = captures + 1
  /\ UNCHANGED <<recent, timers, pending, clock, skew, adjusts, answers>>

LEMMA StepsOfDeduplication == [ReportingNext]_allVars => [Next]_vars \/ TakesNumber
<1> SUFFICES ASSUME [ReportingNext]_allVars PROVE [Next]_vars \/ TakesNumber
  OBVIOUS
<1>1. ASSUME NEW f \in Fingerprints, CaptureRuntime(f) PROVE Next
  BY <1>1 DEF CaptureRuntime, Next
<1>2. ASSUME NEW t \in timers, TimerFires(t) PROVE Next
  BY <1>2 DEF Next
<1>3. ASSUME NEW p \in pending, Settles(p) PROVE Next
  BY <1>3 DEF Settles, Next
<1>4. ASSUME NEW c \in Captures, ReadEnds(c) \/ CaptureResumes(c) PROVE UNCHANGED vars
  BY <1>4 DEF ReadEnds, CaptureResumes
<1>5. CaptureQuery => TakesNumber
  BY DEF CaptureQuery, TakesNumber
<1>6. UpdateDraft \/ ReadDrafts => UNCHANGED vars
  BY DEF UpdateDraft, ReadDrafts
<1>7. Disable \/ ChangeRuntimeReporter => Next
  BY DEF Disable, Forgets, ChangeRuntimeReporter, Next
<1>8. Time => Next
  BY DEF Time, Next
<1>9. UNCHANGED allVars => UNCHANGED vars
  BY DEF allVars
<1> QED
  BY <1>1, <1>2, <1>3, <1>4, <1>5, <1>6, <1>7, <1>8, <1>9 DEF ReportingNext

LEMMA SharingInit == ReportingInit => Sharing
<1> SUFFICES ASSUME ReportingInit PROVE Sharing
  OBVIOUS
<1>1. DedupType
  BY DeduplicationAssumption DEF ReportingInit, Init, DedupType
<1>2. EntriesApart /\ TimersMatch /\ SharingLasts
  BY FS_EmptySet DEF ReportingInit, Init, EntriesApart, TimersMatch, SharingLasts
<1> QED
  BY <1>1, <1>2 DEF Sharing

LEMMA SharingStep == Sharing /\ [ReportingNext]_allVars => Sharing'
<1> SUFFICES ASSUME Sharing, [Next]_vars \/ TakesNumber PROVE Sharing'
  BY StepsOfDeduplication
<1>1. ASSUME NEW f \in Fingerprints, Coalesce(f) PROVE Sharing'
  BY <1>1, CoalesceKeepsSharing
<1>2. ASSUME NEW f \in Fingerprints, Capture(f) PROVE Sharing'
  BY <1>2, CaptureKeepsSharing
<1>3. ASSUME NEW t \in timers, TimerFires(t) PROVE Sharing'
  <2>1. t.capture \in Captures
    BY DEF Sharing, DedupType, Timer
  <2>2. \A r \in recent : r.capture = t.capture => r.fingerprint = t.fingerprint
    BY DEF Sharing, TimersMatch, EntriesApart, TimerOf
  <2>3. RemoveEntry(t.fingerprint, t.capture, timers \ {t})
    BY <1>3 DEF TimerFires
  <2>4. captures' = captures /\ clock' = clock /\ skew' = skew /\ pending' \subseteq pending
    BY <1>3 DEF TimerFires
  <2> QED
    BY <2>1, <2>2, <2>3, <2>4, RemoveEntryKeepsSharing
<1>4. ASSUME NEW p \in pending, Fulfilled(p) PROVE Sharing'
  BY <1>4 DEF Fulfilled, Sharing, DedupType, EntriesApart, TimersMatch, SharingLasts, Find
<1>5. ASSUME NEW p \in pending, Rejected(p) PROVE Sharing'
  <2>1. p[2] \in Captures
    BY DEF Sharing, DedupType
  <2>2. \A r \in recent : r.capture = p[2] => r.fingerprint = p[1]
    BY DEF Sharing, EntriesApart
  <2>3. RemoveEntry(p[1], p[2], timers)
    BY <1>5 DEF Rejected
  <2>4. captures' = captures /\ clock' = clock /\ skew' = skew /\ pending' \subseteq pending
    BY <1>5 DEF Rejected
  <2> QED
    BY <2>1, <2>2, <2>3, <2>4, RemoveEntryKeepsSharing
<1>6. CASE Clear
  <2>1. Leaves({})
    BY <1>6 DEF Clear, Cleared, Leaves, TimersOf
  <2>2. answers' \in [Fingerprints -> Captures \cup {NoAnswer}]
    BY <1>6 DEF Clear
  <2>3. clock' \in Nat /\ skew' \in Int /\ captures' = captures /\ pending' \subseteq pending
    BY <1>6 DEF Clear, Sharing, DedupType
  <2> QED
    BY <2>1, <2>2, <2>3, LeavesKeepsSharing
<1>7. CASE Tick \/ SetBack
  BY <1>7 DEF Tick, SetBack, Sharing, DedupType, EntriesApart, TimersMatch, SharingLasts, Find
<1>8. CASE TakesNumber
  <2>1. captures' \in 0 .. MaxCaptures /\ captures <= captures'
    BY <1>8, DeduplicationAssumption DEF TakesNumber, Sharing, DedupType
  <2>2. \A x \in Captures : x <= captures => x <= captures'
    BY <1>8 DEF TakesNumber, Sharing, DedupType, Captures
  <2>3. DedupType' /\ TimersMatch' /\ SharingLasts'
    BY <1>8, <2>1 DEF TakesNumber, Sharing, DedupType, TimersMatch, SharingLasts, Find
  <2>4. EntriesApart'
    BY <1>8, <2>2 DEF TakesNumber, Sharing, DedupType, EntriesApart, Record
  <2> QED
    BY <2>3, <2>4 DEF Sharing
<1>9. CASE UNCHANGED vars
  BY <1>9 DEF vars, Sharing, DedupType, EntriesApart, TimersMatch, SharingLasts, Find
<1> QED
  BY <1>1, <1>2, <1>3, <1>4, <1>5, <1>6, <1>7, <1>8, <1>9 DEF Next

\* There are as many timers as entries.
LEMMA AsManyTimers == Sharing => Cardinality(timers) = Cardinality(recent)
<1> SUFFICES ASSUME Sharing PROVE Cardinality(timers) = Cardinality(recent)
  OBVIOUS
<1> DEFINE g == [r \in recent |-> CHOOSE t \in timers : TimerOf(t, r)]
<1>1. \A r \in recent : g[r] \in timers /\ TimerOf(g[r], r)
  BY DEF Sharing, TimersMatch
<1>2. g \in [recent -> timers]
  BY <1>1
<1> HIDE DEF g
<1>3. \A r, s \in recent : g[r] = g[s] => r = s
  BY <1>1 DEF Sharing, EntriesApart, TimerOf
<1>4. ASSUME NEW t \in timers PROVE \E r \in recent : g[r] = t
  <2>1. PICK r \in recent : TimerOf(t, r)
    BY DEF Sharing, TimersMatch
  <2>2. g[r] = t
    BY <1>1, <2>1 DEF Sharing, TimersMatch, TimerOf
  <2> QED
    BY <2>2
<1>5. g \in Bijection(recent, timers)
  BY <1>2, <1>3, <1>4 DEF Bijection, Injection, Surjection, IsInjective
<1>6. IsFiniteSet(recent)
  BY DEF Sharing, EntriesApart
<1> QED
  BY <1>5, <1>6, FS_Bijection DEF ExistsBijection

\* Every entry has one timer that will take it out, and what callers were answered is
\* what the next caller gets, for every number of errors and captures and every window.
THEOREM EntriesLastHolds == ReportingSpec => []EntriesLast
<1>1. Sharing => EntriesLast
  <2> SUFFICES ASSUME Sharing PROVE TimerPerEntry /\ SharingLasts
    BY DEF EntriesLast
  <2>1. \A r \in recent : \E t \in timers :
          t.fingerprint = r.fingerprint /\ t.capture = r.capture
    BY DEF Sharing, TimersMatch, TimerOf
  <2> QED
    BY <2>1, AsManyTimers DEF TimerPerEntry, Sharing
<1> QED
  BY <1>1, SharingInit, SharingStep, PTL DEF ReportingSpec

\* An equal error is captured again only when the window of its last capture is over
\* or its sharing has ended otherwise.
THEOREM OneCaptureHolds == ReportingSpec => OneCapturePerWindow
<1> DEFINE A == \A f \in Fingerprints :
       answers[f] # NoAnswer /\ answers'[f] \notin {NoAnswer, answers[f]} =>
         \E r \in Find(f) : Now - r.capturedAt >= Window
<1>1. Sharing /\ [ReportingNext]_allVars => [A]_vars
  <2> SUFFICES ASSUME Sharing, Next \/ TakesNumber, NEW f \in Fingerprints,
                      answers[f] # NoAnswer, answers'[f] \notin {NoAnswer, answers[f]}
               PROVE  \E r \in Find(f) : Now - r.capturedAt >= Window
    BY StepsOfDeduplication
  <2>0. PICK last \in recent : last.fingerprint = f /\ last.capture = answers[f]
    BY DEF Sharing, SharingLasts, Find
  <2>1. ASSUME NEW g \in Fingerprints, Coalesce(g) PROVE FALSE
    <3>1. PICK r \in recent : r.fingerprint = g /\ answers' = [answers EXCEPT ![g] = r.capture]
      BY <2>1 DEF Coalesce, Find
    <3>2. g = f => r = last
      BY <2>0, <3>1 DEF Sharing, EntriesApart
    <3> QED
      BY <2>0, <3>1, <3>2 DEF Sharing, DedupType
  <2>2. ASSUME NEW g \in Fingerprints, Capture(g)
        PROVE  \E r \in Find(f) : Now - r.capturedAt >= Window
    <3>1. g = f
      BY <2>2 DEF Capture, Forget
    <3>2. last \in Find(f) /\ ~Fresh(last)
      BY <2>0, <2>2, <3>1 DEF Capture, Find
    <3>3. Now \in Int /\ last.capturedAt \in Int /\ Window \in Int
      BY DeduplicationAssumption DEF Sharing, DedupType, Record, Now
    <3>4. Now - last.capturedAt >= Window
      BY <3>2, <3>3 DEF Fresh
    <3> QED
      BY <3>2, <3>4
  <2>3. ASSUME NEW t \in timers, TimerFires(t) PROVE FALSE
    BY <2>3 DEF TimerFires, RemoveEntry
  <2>4. ASSUME NEW p \in pending, Fulfilled(p) \/ Rejected(p) PROVE FALSE
    BY <2>4 DEF Fulfilled, Rejected, RemoveEntry
  <2>5. CASE Clear \/ Tick \/ SetBack \/ TakesNumber
    BY <2>5 DEF Clear, Tick, SetBack, TakesNumber
  <2> QED
    BY <2>1, <2>2, <2>3, <2>4, <2>5 DEF Next
<1> QED
  BY <1>1, SharingInit, SharingStep, PTL DEF ReportingSpec, OneCapturePerWindow

(***************************************************************************)
(* The drafts of shared captures.                                          *)
(***************************************************************************)

AnyDraft == [capture : Nat, data : BOOLEAN, session : {"browser", "memory"}]
Phases == {"idle", "reading", "read", "plain", "thrown", "refused", "saved"}

DraftsType ==
  /\ phase \in [Captures -> Phases] /\ disabled \in BOOLEAN /\ loaded \in BOOLEAN
  /\ browserDrafts \in Seq(AnyDraft) /\ memoryDrafts \in Seq(AnyDraft)
  /\ stored \in Seq(AnyDraft) /\ made \in Seq(Captures)

\* The latest drafts are those of the latest captures of the list.
Aligned(drafts, list) ==
  \A k \in 0 .. MaxDrafts - 1 : k < Len(list) =>
    k < Len(drafts) /\ drafts[Len(drafts) - k].capture = list[Len(list) - k]

DraftsAligned ==
  /\ made # <<>> => disabled \/ loaded
  /\ Aligned(IF disabled THEN memoryDrafts ELSE browserDrafts, made)

\* An entry shares a capture of the present mode.
SavedIsMade == \A r \in recent : phase[r.capture] = "saved" => r.capture \in ToSet(made)

Findable == DraftsType /\ DraftsAligned /\ SavedIsMade

LEMMA EmptyLists == <<>> \in Seq(AnyDraft) /\ <<>> \in Seq(Captures)
OBVIOUS

\* Cutting a list to the limit keeps its latest drafts.
LEMMA BoundedKeepsLatest ==
  ASSUME NEW s \in Seq(AnyDraft), NEW list \in Seq(Captures), Aligned(s, list)
  PROVE  Bounded(s) \in Seq(AnyDraft) /\ Aligned(Bounded(s), list)
<1>1. Len(s) \in Nat /\ MaxDrafts \in Nat \ {0} /\ Len(list) \in Nat
  BY ErrorReportingAssumption
<1>2. CASE Len(s) < MaxDrafts
  BY <1>2 DEF Bounded
<1>3. CASE ~(Len(s) < MaxDrafts)
  <2> DEFINE b == SubSeq(s, Len(s) - MaxDrafts + 1, Len(s))
  <2>1. Bounded(s) = b /\ Len(s) - MaxDrafts + 1 \in 1 .. Len(s)
    BY <1>1, <1>3 DEF Bounded
  <2>2. b \in Seq(AnyDraft) /\ Len(b) = MaxDrafts
        /\ \A i \in 1 .. MaxDrafts : b[i] = s[Len(s) - MaxDrafts + i]
    BY <1>1, <1>3, <2>1
  <2>3. ASSUME NEW k \in 0 .. MaxDrafts - 1, k < Len(list)
        PROVE  k < Len(b) /\ b[Len(b) - k].capture = list[Len(list) - k]
    <3>1. MaxDrafts - k \in 1 .. MaxDrafts
      BY <1>1
    <3>2. b[MaxDrafts - k] = s[Len(s) - k]
      BY <1>1, <2>2, <3>1
    <3>3. k < MaxDrafts /\ Len(b) = MaxDrafts
      BY <1>1, <2>2
    <3>4. s[Len(s) - k].capture = list[Len(list) - k]
      BY <2>3 DEF Aligned
    <3> HIDE DEF b
    <3> QED
      BY <3>2, <3>3, <3>4
  <2> QED
    BY <2>1, <2>2, <2>3 DEF Aligned
<1> QED
  BY <1>2, <1>3

\* A new draft is the latest one.
LEMMA AppendKeepsLatest ==
  ASSUME NEW s \in Seq(AnyDraft), NEW list \in Seq(Captures), Aligned(s, list),
         NEW d \in AnyDraft, NEW c \in Captures, d.capture = c
  PROVE  Append(s, d) \in Seq(AnyDraft) /\ Append(list, c) \in Seq(Captures)
         /\ Aligned(Append(s, d), Append(list, c))
<1>1. Len(s) \in Nat /\ MaxDrafts \in Nat \ {0} /\ Len(list) \in Nat
  BY ErrorReportingAssumption
<1>2. Append(s, d) \in Seq(AnyDraft) /\ Len(Append(s, d)) = Len(s) + 1
      /\ Append(s, d)[Len(s) + 1] = d /\ \A i \in 1 .. Len(s) : Append(s, d)[i] = s[i]
  OBVIOUS
<1>3. Append(list, c) \in Seq(Captures) /\ Len(Append(list, c)) = Len(list) + 1
      /\ Append(list, c)[Len(list) + 1] = c
      /\ \A i \in 1 .. Len(list) : Append(list, c)[i] = list[i]
  OBVIOUS
<1>4. ASSUME NEW k \in 0 .. MaxDrafts - 1, k < Len(list) + 1
      PROVE  k < Len(s) + 1
             /\ Append(s, d)[Len(s) + 1 - k].capture = Append(list, c)[Len(list) + 1 - k]
  <2>1. CASE k = 0
    BY <1>1, <1>2, <1>3, <2>1
  <2>2. CASE k # 0
    <3>1. k - 1 \in 0 .. MaxDrafts - 1 /\ k - 1 < Len(list)
      BY <1>1, <1>4, <2>2
    <3>2. k - 1 < Len(s) /\ s[Len(s) - (k - 1)].capture = list[Len(list) - (k - 1)]
      BY <3>1 DEF Aligned
    <3>3. Len(s) + 1 - k \in 1 .. Len(s) /\ Len(list) + 1 - k \in 1 .. Len(list)
      BY <1>1, <2>2, <3>1, <3>2
    <3>4. Len(s) + 1 - k = Len(s) - (k - 1) /\ Len(list) + 1 - k = Len(list) - (k - 1)
      BY <1>1
    <3> QED
      BY <1>1, <1>2, <1>3, <3>2, <3>3, <3>4
  <2> QED
    BY <2>1, <2>2
<1> QED
  BY <1>2, <1>3, <1>4 DEF Aligned

LEMMA ReadableIsAligned ==
  ASSUME Findable, NEW drafts \in Readable
  PROVE  drafts \in Seq(AnyDraft) /\ Aligned(drafts, made)
<1>1. drafts \in Seq(AnyDraft)
  BY EmptyLists DEF Readable, Findable, DraftsType
<1>2. CASE made = <<>>
  BY <1>1, <1>2, ErrorReportingAssumption DEF Aligned
<1>3. CASE made # <<>>
  <2>1. drafts = IF disabled THEN memoryDrafts ELSE browserDrafts
    BY <1>3 DEF Readable, Findable, DraftsAligned
  <2> QED
    BY <1>1, <2>1 DEF Findable, DraftsAligned
<1> QED
  BY <1>1, <1>2, <1>3

\* Saving a list that is aligned keeps the lists aligned, in either mode.
LEMMA SaveKeepsAligned ==
  ASSUME Findable, NEW drafts \in Seq(AnyDraft), Aligned(drafts, made'),
         made' \in Seq(Captures), phase' \in [Captures -> Phases],
         disabled' = disabled, SaveDrafts(drafts)
  PROVE  DraftsType' /\ DraftsAligned'
<1>1. Bounded(drafts) \in Seq(AnyDraft) /\ Aligned(Bounded(drafts), made')
  BY BoundedKeepsLatest
<1>2. CASE disabled
  <2>1. memoryDrafts' = Bounded(drafts) /\ UNCHANGED <<loaded, browserDrafts, stored>>
    BY <1>2 DEF SaveDrafts
  <2> QED
    BY <1>1, <1>2, <2>1 DEF Findable, DraftsType, DraftsAligned
<1>3. CASE ~disabled
  <2>1. /\ loaded' = TRUE /\ browserDrafts' = Bounded(drafts)
        /\ stored' \in {stored, Bounded(drafts)} /\ memoryDrafts' = memoryDrafts
    BY <1>3 DEF SaveDrafts
  <2> QED
    BY <1>1, <1>3, <2>1 DEF Findable, DraftsType, DraftsAligned
<1> QED
  BY <1>2, <1>3

\* A draft that is made is the latest of the lists and of the history.
LEMMA MakeKeepsFindable ==
  ASSUME Findable, NEW c \in Captures, NEW data \in BOOLEAN, MakeDraft(c, data),
         disabled' = disabled,
         \A r \in recent' : (r \in recent /\ r.capture \in Captures) \/ r.capture = c
  PROVE  Findable'
<1>1. CASE /\ \/ phase' = [phase EXCEPT ![c] = "thrown"]
              \/ phase' = [phase EXCEPT ![c] = "refused"]
           /\ UNCHANGED <<loaded, browserDrafts, memoryDrafts, stored, made>>
  <2>1. phase' \in [Captures -> Phases]
    BY <1>1 DEF Findable, DraftsType, Phases
  <2>2. DraftsType' /\ DraftsAligned'
    BY <1>1, <2>1 DEF Findable, DraftsType, DraftsAligned
  <2>3. phase'[c] # "saved" /\ \A b \in Captures : b # c => phase'[b] = phase[b]
    BY <1>1 DEF Findable, DraftsType
  <2>4. SavedIsMade'
    BY <1>1, <2>3 DEF Findable, SavedIsMade
  <2> QED
    BY <2>2, <2>4 DEF Findable
<1>2. CASE /\ phase' = [phase EXCEPT ![c] = "saved"] /\ made' = Append(made, c)
           /\ \E drafts \in Readable :
                SaveDrafts(Append(drafts,
                  Draft(c, Holds(data), IF disabled THEN "memory" ELSE "browser")))
  <2>1. PICK drafts \in Readable :
          SaveDrafts(Append(drafts,
            Draft(c, Holds(data), IF disabled THEN "memory" ELSE "browser")))
    BY <1>2
  <2> DEFINE d == Draft(c, Holds(data), IF disabled THEN "memory" ELSE "browser")
  <2>2. drafts \in Seq(AnyDraft) /\ Aligned(drafts, made) /\ made \in Seq(Captures)
    BY ReadableIsAligned DEF Findable, DraftsType
  <2>3. d \in AnyDraft /\ d.capture = c
    BY DeduplicationAssumption DEF Draft, Holds, AnyDraft, Captures, Findable, DraftsType
  <2> HIDE DEF d
  <2>4. /\ Append(drafts, d) \in Seq(AnyDraft) /\ made' \in Seq(Captures)
        /\ Aligned(Append(drafts, d), made')
    BY <1>2, <2>2, <2>3, AppendKeepsLatest
  <2>5. phase' \in [Captures -> Phases] /\ \A b \in Captures : b # c => phase'[b] = phase[b]
    BY <1>2 DEF Findable, DraftsType, Phases
  <2>6. DraftsType' /\ DraftsAligned'
    BY <2>1, <2>4, <2>5, SaveKeepsAligned DEF d
  <2>7. c \in ToSet(made') /\ ToSet(made) \subseteq ToSet(made')
    <3>1. Len(made') = Len(made) + 1 /\ made'[Len(made) + 1] = c
          /\ \A i \in 1 .. Len(made) : made'[i] = made[i]
      BY <1>2, <2>2
    <3>2. DOMAIN made' = 1 .. Len(made) + 1 /\ DOMAIN made = 1 .. Len(made) /\ Len(made) \in Nat
      BY <2>2, <2>4, <3>1
    <3> QED
      BY <3>1, <3>2 DEF ToSet
  <2>8. SavedIsMade'
    BY <2>5, <2>7 DEF Findable, SavedIsMade
  <2> QED
    BY <2>6, <2>8 DEF Findable
<1> QED
  BY <1>1, <1>2 DEF MakeDraft

\* The capture of a query client reads first, and is not saved yet.
LEMMA DiagnoseKeepsFindable ==
  ASSUME Findable, NEW c \in Captures, Diagnose(c), disabled' = disabled,
         \A r \in recent' : (r \in recent /\ r.capture \in Captures) \/ r.capture = c
  PROVE  Findable'
<1>1. /\ phase' = [phase EXCEPT ![c] = IF disabled THEN "plain" ELSE "reading"]
      /\ UNCHANGED <<loaded, browserDrafts, memoryDrafts, stored, made>>
  BY DEF Diagnose
<1>2. phase' \in [Captures -> Phases] /\ phase'[c] # "saved"
      /\ \A b \in Captures : b # c => phase'[b] = phase[b]
  BY <1>1 DEF Findable, DraftsType, Phases
<1>3. DraftsType' /\ DraftsAligned'
  BY <1>1, <1>2 DEF Findable, DraftsType, DraftsAligned
<1>4. SavedIsMade'
  BY <1>1, <1>2 DEF Findable, SavedIsMade
<1> QED
  BY <1>3, <1>4 DEF Findable

LEMMA FindableInit == ReportingInit => Findable
<1> SUFFICES ASSUME ReportingInit PROVE Findable
  OBVIOUS
<1>1. Earlier \in AnyDraft
  BY DEF Earlier, Draft, AnyDraft
<1>2. stored \in Seq(AnyDraft)
  <2>1. <<Earlier>> \in Seq(AnyDraft)
    BY <1>1
  <2> QED
    BY <2>1, EmptyLists DEF ReportingInit
<1>3. DraftsType
  <2>1. phase \in [Captures -> Phases]
    BY DEF ReportingInit, Phases
  <2> QED
    BY <1>2, <2>1, EmptyLists DEF ReportingInit, DraftsType
<1>4. DraftsAligned /\ SavedIsMade
  BY ErrorReportingAssumption DEF ReportingInit, Init, DraftsAligned, Aligned, SavedIsMade
<1> QED
  BY <1>3, <1>4 DEF Findable

LEMMA FindableStep == Sharing /\ Findable /\ [ReportingNext]_allVars => Findable'
<1> SUFFICES ASSUME Sharing, Findable, [ReportingNext]_allVars PROVE Findable'
  OBVIOUS
<1>0. \A r \in recent : r.capture \in Captures
  BY DEF Sharing, DedupType, Record
<1>a. ASSUME recent' \subseteq recent, UNCHANGED draftVars PROVE Findable'
  BY <1>a DEF draftVars, Findable, DraftsType, DraftsAligned, SavedIsMade
<1>1. ASSUME NEW f \in Fingerprints, CaptureRuntime(f) PROVE Findable'
  <2>1. CASE Coalesce(f) /\ UNCHANGED draftVars
    BY <1>a, <2>1 DEF Coalesce
  <2>2. CASE /\ Capture(f) /\ disabled' = disabled
             /\ Diagnose(captures + 1) \/ MakeDraft(captures + 1, FALSE)
    <3>1. captures + 1 \in Captures
      BY <2>2, DeduplicationAssumption DEF Capture, Sharing, DedupType, Captures
    <3>2. \A r \in recent' : (r \in recent /\ r.capture \in Captures) \/ r.capture = captures + 1
      BY <1>0, <2>2 DEF Capture, Room
    <3> QED
      BY <2>2, <3>1, <3>2, DiagnoseKeepsFindable, MakeKeepsFindable
  <2> QED
    BY <1>1, <2>1, <2>2 DEF CaptureRuntime
<1>2. ASSUME NEW t \in timers, TimerFires(t), UNCHANGED draftVars PROVE Findable'
  BY <1>a, <1>2 DEF TimerFires, RemoveEntry
<1>3. ASSUME NEW p \in pending, Settles(p) PROVE Findable'
  BY <1>a, <1>3 DEF Settles, Fulfilled, Rejected, RemoveEntry
<1>4. ASSUME NEW c \in Captures, ReadEnds(c) PROVE Findable'
  <2>1. PICK result \in {"plain", "read"} : phase' = [phase EXCEPT ![c] = result]
    BY <1>4 DEF ReadEnds
  <2>2. UNCHANGED <<vars, disabled, loaded, browserDrafts, memoryDrafts, stored, made>>
    BY <1>4 DEF ReadEnds
  <2>3. phase' \in [Captures -> Phases] /\ phase'[c] # "saved"
        /\ \A b \in Captures : b # c => phase'[b] = phase[b]
    BY <2>1 DEF Findable, DraftsType, Phases
  <2>4. DraftsType' /\ DraftsAligned'
    BY <2>2, <2>3 DEF Findable, DraftsType, DraftsAligned
  <2>5. SavedIsMade'
    BY <1>0, <2>2, <2>3 DEF vars, Findable, SavedIsMade
  <2> QED
    BY <2>4, <2>5 DEF Findable
<1>5. ASSUME NEW c \in Captures, CaptureResumes(c) PROVE Findable'
  <2>1. MakeDraft(c, phase[c] = "read") /\ disabled' = disabled /\ recent' = recent
    BY <1>5 DEF CaptureResumes, vars
  <2>2. (phase[c] = "read") \in BOOLEAN
    OBVIOUS
  <2> QED
    BY <1>0, <2>1, <2>2, MakeKeepsFindable
<1>6. CASE CaptureQuery
  <2>1. captures + 1 \in Captures
    BY <1>6, DeduplicationAssumption DEF CaptureQuery, Sharing, DedupType, Captures
  <2> QED
    BY <1>0, <1>6, <2>1, DiagnoseKeepsFindable DEF CaptureQuery
<1>7. CASE UpdateDraft
  <2>1. PICK drafts \in Readable : SaveDrafts(drafts)
    BY <1>7 DEF UpdateDraft
  <2>2. UNCHANGED <<recent, phase, disabled, made>>
    BY <1>7 DEF UpdateDraft, vars
  <2>3. drafts \in Seq(AnyDraft) /\ Aligned(drafts, made)
    BY ReadableIsAligned
  <2>4. made' \in Seq(Captures) /\ phase' \in [Captures -> Phases]
    BY <2>2 DEF Findable, DraftsType
  <2>5. DraftsType' /\ DraftsAligned'
    BY <2>1, <2>2, <2>3, <2>4, SaveKeepsAligned
  <2> QED
    BY <2>2, <2>5 DEF Findable, SavedIsMade
<1>8. CASE ReadDrafts
  <2>1. PICK drafts \in Readable : browserDrafts' = IF disabled THEN browserDrafts ELSE drafts
    BY <1>8 DEF ReadDrafts
  <2>2. /\ loaded' = (loaded \/ ~disabled)
        /\ UNCHANGED <<recent, phase, disabled, memoryDrafts, stored, made>>
    BY <1>8 DEF ReadDrafts, vars
  <2>3. drafts \in Seq(AnyDraft) /\ Aligned(drafts, made)
    BY ReadableIsAligned
  <2> QED
    BY <2>1, <2>2, <2>3 DEF Findable, DraftsType, DraftsAligned, SavedIsMade
<1>9. CASE Disable
  <2>1. /\ disabled' = TRUE /\ loaded' = FALSE /\ browserDrafts' = <<>> /\ made' = <<>>
        /\ recent' = {} /\ UNCHANGED <<phase, memoryDrafts, stored>>
    BY <1>9 DEF Disable, Forgets, Clear
  <2>2. DraftsType'
    BY <2>1, EmptyLists DEF Findable, DraftsType
  <2>3. DraftsAligned' /\ SavedIsMade'
    BY <2>1, ErrorReportingAssumption DEF DraftsAligned, Aligned, SavedIsMade
  <2> QED
    BY <2>2, <2>3 DEF Findable
<1>10. CASE ChangeRuntimeReporter
  BY <1>a, <1>10 DEF ChangeRuntimeReporter, Clear
<1>11. CASE Time
  BY <1>a, <1>11 DEF Time, Tick, SetBack
<1>12. CASE UNCHANGED allVars
  BY <1>a, <1>12 DEF allVars, vars
<1> QED
  BY <1>1, <1>2, <1>3, <1>4, <1>5, <1>6, <1>7, <1>8, <1>9, <1>10, <1>11, <1>12
  DEF ReportingNext

\* Whoever was answered with a shared capture finds its draft, unless a full list of
\* newer ones pushed it out, for every limit of the drafts.
THEOREM SharedDraftsHold == ReportingSpec => []SharedDraftIsFindable
<1>1. Sharing /\ Findable => SharedDraftIsFindable
  <2> SUFFICES ASSUME Sharing, Findable, NEW f \in Fingerprints,
                      answers[f] # NoAnswer, phase[answers[f]] = "saved"
               PROVE  /\ answers[f] \in ToSet(made)
                      /\ \/ \E drafts \in Readable : \E i \in DOMAIN drafts :
                              drafts[i].capture = answers[f]
                         \/ \E i \in DOMAIN made :
                              made[i] = answers[f] /\ Len(made) - i >= MaxDrafts
    BY DEF SharedDraftIsFindable
  <2>1. PICK r \in recent : r.capture = answers[f]
    BY DEF Sharing, SharingLasts, Find
  <2>2. answers[f] \in ToSet(made)
    BY <2>1 DEF Findable, SavedIsMade
  <2>3. PICK i \in DOMAIN made : made[i] = answers[f]
    BY <2>2 DEF ToSet
  <2>4. made \in Seq(Captures) /\ Len(made) \in Nat /\ DOMAIN made = 1 .. Len(made) /\ made # <<>>
    BY <2>3 DEF Findable, DraftsType
  <2> DEFINE drafts == IF disabled THEN memoryDrafts ELSE browserDrafts
             k == Len(made) - i
  <2>5. drafts \in Readable /\ drafts \in Seq(AnyDraft) /\ Aligned(drafts, made)
    BY <2>4 DEF Readable, Findable, DraftsAligned, DraftsType
  <2>6. CASE k < MaxDrafts
    <3>1. k \in 0 .. MaxDrafts - 1 /\ k < Len(made) /\ Len(made) - k = i
      BY <2>4, <2>6, ErrorReportingAssumption
    <3> HIDE DEF k, drafts
    <3>2. k < Len(drafts) /\ drafts[Len(drafts) - k].capture = made[i]
      BY <2>5, <3>1 DEF Aligned
    <3>3. Len(drafts) - k \in DOMAIN drafts
      BY <2>5, <3>1, <3>2, ErrorReportingAssumption
    <3> QED
      BY <2>2, <2>3, <2>5, <3>2, <3>3
  <2>7. CASE ~(k < MaxDrafts)
    BY <2>2, <2>3, <2>4, <2>7, ErrorReportingAssumption
  <2> QED
    BY <2>6, <2>7
<1>2. ReportingInit => Sharing /\ Findable
  BY SharingInit, FindableInit
<1>3. Sharing /\ Findable /\ [ReportingNext]_allVars => (Sharing /\ Findable)'
  BY SharingStep, FindableStep
<1> QED
  BY <1>1, <1>2, <1>3, PTL DEF ReportingSpec

(***************************************************************************)
(* The opt-out of the browser storage.                                     *)
(***************************************************************************)

\* What memory may hold: drafts without persisted queries, with its own session id.
MemoryDraft == [capture : Nat, data : {FALSE}, session : {"memory"}]

OptOut ==
  /\ disabled \in BOOLEAN /\ captures \in Nat
  /\ memoryDrafts \in Seq(MemoryDraft)
  /\ disabled => browserDrafts = <<>> /\ ~loaded

\* A list that is cut to the limit holds nothing it did not hold before.
LEMMA BoundedType ==
  ASSUME NEW S, NEW s \in Seq(S)
  PROVE  Bounded(s) \in Seq(S)
<1>1. CASE Len(s) < MaxDrafts
  BY <1>1 DEF Bounded
<1>2. CASE ~(Len(s) < MaxDrafts)
  <2>1. Len(s) \in Nat /\ MaxDrafts \in Nat \ {0}
    BY ErrorReportingAssumption
  <2>2. Len(s) - MaxDrafts + 1 \in 1 .. Len(s) + 1
    BY <1>2, <2>1
  <2> QED
    BY <1>2, <2>1, <2>2 DEF Bounded
<1> QED
  BY <1>1, <1>2

\* Saving keeps the invariant when, in memory, the saved list is one of memory.
LEMMA SaveKeepsOptOut ==
  ASSUME OptOut, disabled' = disabled, captures' \in Nat,
         NEW drafts, SaveDrafts(drafts),
         disabled => drafts \in Seq(MemoryDraft)
  PROVE  OptOut'
<1>1. CASE disabled
  <2>1. memoryDrafts' \in Seq(MemoryDraft)
    BY <1>1, BoundedType DEF SaveDrafts
  <2> QED
    BY <1>1, <2>1 DEF SaveDrafts, OptOut
<1>2. CASE ~disabled
  BY <1>2 DEF SaveDrafts, OptOut
<1> QED
  BY <1>1, <1>2

\* A draft made after the opt-out is one of memory, whatever was read before.
LEMMA MakeKeepsOptOut ==
  ASSUME OptOut, disabled' = disabled, captures' \in Nat,
         NEW c \in Nat, NEW data \in BOOLEAN, MakeDraft(c, data)
  PROVE  OptOut'
<1>1. CASE UNCHANGED <<loaded, browserDrafts, memoryDrafts, stored, made>>
  BY <1>1 DEF OptOut
<1>2. CASE \E drafts \in Readable :
             SaveDrafts(Append(drafts,
               Draft(c, Holds(data), IF disabled THEN "memory" ELSE "browser")))
  <2>1. PICK drafts \in Readable :
             SaveDrafts(Append(drafts,
               Draft(c, Holds(data), IF disabled THEN "memory" ELSE "browser")))
    BY <1>2
  <2>2. ASSUME disabled
        PROVE  Append(drafts, Draft(c, Holds(data), IF disabled THEN "memory" ELSE "browser"))
                 \in Seq(MemoryDraft)
    <3>1. drafts \in Seq(MemoryDraft)
      BY <2>1, <2>2 DEF Readable, OptOut
    <3>2. Draft(c, Holds(data), "memory") \in MemoryDraft
      BY <2>2 DEF Draft, Holds, MemoryDraft
    <3> QED
      BY <2>2, <3>1, <3>2
  <2> QED
    BY <2>1, <2>2, SaveKeepsOptOut
<1> QED
  BY <1>1, <1>2 DEF MakeDraft

LEMMA OptOutInit == ReportingInit => OptOut
<1> SUFFICES ASSUME ReportingInit PROVE OptOut
  OBVIOUS
<1>1. <<>> \in Seq(MemoryDraft)
  OBVIOUS
<1>2. memoryDrafts \in Seq(MemoryDraft)
  BY <1>1 DEF ReportingInit
<1>3. captures \in Nat
  BY DEF ReportingInit, Init
<1>4. disabled \in BOOLEAN /\ ~disabled
  BY DEF ReportingInit
<1> QED
  BY <1>2, <1>3, <1>4 DEF OptOut

LEMMA OptOutStep == OptOut /\ [ReportingNext]_allVars => OptOut'
<1> SUFFICES ASSUME OptOut, [ReportingNext]_allVars PROVE OptOut'
  OBVIOUS
<1>0. captures \in Nat /\ captures + 1 \in Nat
  BY DEF OptOut
<1>1. ASSUME NEW f \in Fingerprints, CaptureRuntime(f) PROVE OptOut'
  <2>1. CASE Coalesce(f) /\ UNCHANGED draftVars
    BY <2>1 DEF Coalesce, draftVars, OptOut
  <2>2. CASE Capture(f) /\ UNCHANGED disabled /\ Diagnose(captures + 1)
    BY <2>2, <1>0 DEF Capture, Diagnose, OptOut
  <2>3. CASE Capture(f) /\ UNCHANGED disabled /\ MakeDraft(captures + 1, FALSE)
    <3>1. captures' \in Nat
      BY <2>3, <1>0 DEF Capture
    <3> QED
      BY <2>3, <3>1, <1>0, MakeKeepsOptOut
  <2> QED
    BY <1>1, <2>1, <2>2, <2>3 DEF CaptureRuntime
<1>2. ASSUME NEW t \in timers, TimerFires(t), UNCHANGED draftVars PROVE OptOut'
  BY <1>2 DEF TimerFires, draftVars, OptOut
<1>3. ASSUME NEW p \in pending, Settles(p) PROVE OptOut'
  BY <1>3 DEF Settles, Fulfilled, Rejected, draftVars, OptOut
<1>4. ASSUME NEW c \in Captures, ReadEnds(c) PROVE OptOut'
  BY <1>4 DEF ReadEnds, vars, OptOut
<1>5. ASSUME NEW c \in Captures, CaptureResumes(c) PROVE OptOut'
  <2>1. c \in Nat /\ (phase[c] = "read") \in BOOLEAN
    BY DeduplicationAssumption DEF Captures
  <2>2. captures' \in Nat /\ disabled' = disabled /\ MakeDraft(c, phase[c] = "read")
    BY <1>5, <1>0 DEF CaptureResumes, vars
  <2> QED
    BY <2>1, <2>2, MakeKeepsOptOut
<1>6. CASE CaptureQuery
  BY <1>6, <1>0 DEF CaptureQuery, Diagnose, OptOut
<1>7. CASE UpdateDraft
  <2>1. PICK drafts \in Readable : SaveDrafts(drafts)
    BY <1>7 DEF UpdateDraft
  <2>2. disabled => drafts \in Seq(MemoryDraft)
    BY <2>1 DEF Readable, OptOut
  <2>3. captures' \in Nat /\ disabled' = disabled
    BY <1>7, <1>0 DEF UpdateDraft, vars
  <2> QED
    BY <2>1, <2>2, <2>3, SaveKeepsOptOut
<1>8. CASE ReadDrafts
  BY <1>8 DEF ReadDrafts, vars, OptOut
<1>9. CASE Disable
  BY <1>9 DEF Disable, Forgets, Clear, OptOut
<1>10. CASE ChangeRuntimeReporter
  BY <1>10 DEF ChangeRuntimeReporter, Clear, draftVars, OptOut
<1>11. CASE Time
  BY <1>11 DEF Time, Tick, SetBack, draftVars, OptOut
<1>12. CASE UNCHANGED allVars
  BY <1>12 DEF allVars, draftVars, vars, OptOut
<1> QED
  BY <1>1, <1>2, <1>3, <1>4, <1>5, <1>6, <1>7, <1>8, <1>9, <1>10, <1>11, <1>12
  DEF ReportingNext

\* A document that has opted out of the browser storage keeps no draft, session id
\* or persisted query of it: captureErrorReportDraft asks again after every await
\* of a capture.
THEOREM OptOutAlwaysHolds == ReportingSpec => []OptOutHolds
<1>1. OptOut => OptOutHolds
  <2> SUFFICES ASSUME OptOut, NEW i \in DOMAIN memoryDrafts
               PROVE  ~memoryDrafts[i].data /\ memoryDrafts[i].session = "memory"
    BY DEF OptOutHolds, OptOut
  <2>1. memoryDrafts[i] \in MemoryDraft
    BY DEF OptOut
  <2> QED
    BY <2>1 DEF MemoryDraft
<1> QED
  BY <1>1, OptOutInit, OptOutStep, PTL DEF ReportingSpec

(***************************************************************************)
(* The durable queue.                                                      *)
(***************************************************************************)

\* The types of the variables, without the capacity.
QueueTypes ==
  /\ now \in 0 .. MaxQueueTime
  /\ queue \in [Reports -> QueueRecord \cup {Empty}]
  /\ held \in [Owners -> Grant \cup {Idle}]

\* No record comes from the future.
PastRecords == \A r \in Reports : queue[r].enqueued <= now

\* The record of r is the one tab o leased, and the lease is still its own.
Current(o, r) ==
  /\ queue[r] # Empty
  /\ queue[r].enqueued = held[o].enqueued
  /\ queue[r].owner = o /\ queue[r].until = held[o].until

\* The record tab o leased of r expired and was dropped for good.
Dropped(o, r) ==
  /\ held[o].enqueued + Ttl <= now
  /\ queue[r] # Empty => queue[r].enqueued # held[o].enqueued

\* A tab has the lease in the queue until it runs out or the record is dropped.
Grants ==
  \A o \in Owners :
    held[o] # Idle =>
      \/ held[o].until <= now
      \/ Current(o, held[o].report)
      \/ Dropped(o, held[o].report)

\* The inductive invariant.
QueueInv == QueueTypes /\ PastRecords /\ Grants /\ ExclusiveDelivery

LEMMA Distinct ==
  /\ Empty \notin QueueRecord /\ Idle \notin Grant
  /\ Empty.enqueued = Never /\ Empty.owner = NoOwner
  /\ \A g \in Grant : g.report \in Reports /\ g.enqueued \in Nat /\ g.until \in Nat
  /\ \A x \in QueueRecord : /\ x.enqueued \in Nat /\ x.next \in Nat /\ x.until \in Nat
                       /\ x.owner \in Owners \cup {NoOwner}
  /\ \A t \in Nat : NewRecord(t) \in QueueRecord /\ NewRecord(t) # Empty
BY QueueAssumption DEF Empty, Never, QueueRecord, Idle, Grant, NewRecord

LEMMA RecordUpdate ==
  ASSUME NEW x \in QueueRecord, NEW o \in Owners \cup {NoOwner}, NEW n \in Nat,
         NEW u \in Nat
  PROVE  /\ [x EXCEPT !.owner = o, !.until = u] \in QueueRecord
         /\ [x EXCEPT !.next = n, !.owner = o, !.until = u] \in QueueRecord
         /\ [x EXCEPT !.owner = o, !.until = u].enqueued = x.enqueued
         /\ [x EXCEPT !.owner = o, !.until = u].owner = o
         /\ [x EXCEPT !.owner = o, !.until = u].until = u
         /\ [x EXCEPT !.next = n, !.owner = o, !.until = u].enqueued = x.enqueued
BY DEF QueueRecord

LEMMA NormalizedType ==
  ASSUME QueueTypes, NEW t \in Nat
  PROVE  /\ Normalized(t) \in [Reports -> QueueRecord \cup {Empty}]
         /\ \A r \in Reports :
              \/ Normalized(t)[r] = queue[r]
              \/ Normalized(t)[r] = Empty /\ queue[r].enqueued + Ttl <= t
         /\ \A r \in Live(t) :
              /\ r \in Reports /\ queue[r] \in QueueRecord
              /\ Normalized(t)[r] = queue[r]
BY QueueAssumption, Distinct DEF QueueTypes, Normalized, Live, Stored, Empty, Never, QueueRecord

-------------------------------------------------------------------------------
\* What a transaction of a call made at t does to a record it is not about.
Kept(r, t) ==
  \/ queue'[r] = queue[r]
  \/ queue'[r] = Empty /\ queue[r].enqueued + Ttl <= t

NewTypes == queue' \in [Reports -> QueueRecord \cup {Empty}]

LEMMA RecentTimes ==
  ASSUME QueueTypes, NEW t \in Recent
  PROVE  t \in Nat /\ t <= now /\ now - MaxLag <= t /\ now \in Nat
BY QueueAssumption DEF QueueTypes, Recent

\* enqueue() writes a new record of r, if none of r lives, and gives up at most
\* records that have no lease.
LEMMA EnqueueEffect ==
  ASSUME QueueTypes, NEW t \in Recent, NEW r \in Reports, Enqueue(r, t)
  PROVE  /\ NewTypes /\ UNCHANGED <<now, held>>
         /\ \A s \in Reports :
              \/ Kept(s, t)
              \/ /\ queue[s] # Empty /\ queue[s].owner = NoOwner
                 /\ queue'[s] = Empty
                 /\ queue[r] = Empty \/ queue[r].enqueued + Ttl <= t
                 /\ queue'[r] = NewRecord(t)
              \/ /\ s = r /\ queue'[s] = NewRecord(t)
                 /\ queue[s] = Empty \/ queue[s].enqueued + Ttl <= t
<1>. USE RecentTimes, NormalizedType, Distinct DEF NewTypes, Kept
<1>1. r \notin Live(t) => queue[r] = Empty \/ queue[r].enqueued + Ttl <= t
  <2>1. CASE queue[r] = Empty
    BY <2>1
  <2>2. CASE queue[r] # Empty
    <3>1. queue[r] \in QueueRecord /\ queue[r].enqueued \in Nat /\ t \in Nat
      BY <2>2 DEF QueueTypes
    <3>. QED BY <2>2, <3>1, QueueAssumption DEF Live, Stored
  <2>. QED BY <2>1, <2>2
<1>2. CASE queue' = Normalized(t)
  BY <1>2 DEF Enqueue
<1>3. CASE r \notin Live(t) /\ queue' = [Normalized(t) EXCEPT ![r] = NewRecord(t)]
  BY <1>1, <1>3 DEF Enqueue
<1>4. ASSUME NEW e \in Evictable(t), r \notin Live(t),
             queue' = [Normalized(t) EXCEPT ![e] = Empty, ![r] = NewRecord(t)]
      PROVE  /\ NewTypes /\ UNCHANGED <<now, held>>
             /\ \A s \in Reports :
                  \/ Kept(s, t)
                  \/ /\ queue[s] # Empty /\ queue[s].owner = NoOwner
                     /\ queue'[s] = Empty
                     /\ queue[r] = Empty \/ queue[r].enqueued + Ttl <= t
                     /\ queue'[r] = NewRecord(t)
                  \/ /\ s = r /\ queue'[s] = NewRecord(t)
                     /\ queue[s] = Empty \/ queue[s].enqueued + Ttl <= t
  <2>1. e \in Live(t) /\ queue[e].owner = NoOwner /\ queue[e] # Empty /\ e # r
    BY <1>4 DEF Evictable, Unleased, Live, Stored
  <2>. QED BY <1>1, <1>4, <2>1 DEF Enqueue
<1>. QED BY <1>2, <1>3, <1>4 DEF Enqueue

\* leaseNext() grants a record that no other tab has a lease of.
LEMMA LeaseEffect ==
  ASSUME QueueTypes, NEW t \in Recent, NEW o \in Owners, LeaseNext(o, t)
  PROVE  /\ NewTypes /\ now' = now
         /\ \/ /\ held' = held
               /\ \A s \in Reports : Kept(s, t)
            \/ \E r \in Reports :
                 /\ held[o] = Idle
                 /\ queue[r] \in QueueRecord
                 /\ queue[r].owner = NoOwner \/ queue[r].until <= t
                 /\ queue'[r] = [queue[r] EXCEPT !.owner = o, !.until = t + Lease]
                 /\ \A s \in Reports \ {r} : Kept(s, t)
                 /\ held' = [held EXCEPT ![o] =
                               [report |-> r, enqueued |-> queue[r].enqueued,
                                until |-> t + Lease]]
<1>. USE QueueAssumption, RecentTimes, NormalizedType DEF NewTypes, Kept
<1>1. CASE queue' = Normalized(t) /\ held' = held
  BY <1>1 DEF LeaseNext
<1>2. ASSUME NEW r \in Due(t),
             queue' = [Normalized(t) EXCEPT ![r].owner = o, ![r].until = t + Lease]
      PROVE  /\ NewTypes
             /\ queue[r] \in QueueRecord /\ r \in Reports
             /\ queue[r].owner = NoOwner \/ queue[r].until <= t
             /\ queue'[r] = [queue[r] EXCEPT !.owner = o, !.until = t + Lease]
             /\ \A s \in Reports \ {r} : Kept(s, t)
  <2>1. /\ r \in Live(t) /\ queue[r] \in QueueRecord /\ Normalized(t)[r] = queue[r]
        /\ queue[r].owner = NoOwner \/ queue[r].until <= t
    BY DEF Due, IsFree
  <2>2. [queue[r] EXCEPT !.owner = o, !.until = t + Lease] \in QueueRecord
    <3>1. t + Lease \in Nat
      OBVIOUS
    <3>. QED BY <2>1, <3>1, RecordUpdate
  <2>3. queue'[r] = [queue[r] EXCEPT !.owner = o, !.until = t + Lease]
    BY <1>2, <2>1
  <2>4. queue' = [Normalized(t) EXCEPT ![r] =
                    [queue[r] EXCEPT !.owner = o, !.until = t + Lease]]
    BY <1>2, <2>1
  <2>5. r \in Reports /\ t \in Nat
    BY <2>1
  <2>. QED BY <2>1, <2>2, <2>3, <2>4, <2>5
<1>. QED BY <1>1, <1>2 DEF LeaseNext

\* A tab that settles its report touches that report's record only, and only
\* while the record is leased to it.
LEMMA SettleEffect ==
  ASSUME QueueTypes, NEW t \in Recent, NEW o \in Owners,
         \/ RemoveReport(o, t)
         \/ \E attempt \in t .. MaxQueueTime : Reschedule(o, t, attempt)
  PROVE  /\ NewTypes /\ now' = now
         /\ held[o] # Idle /\ held' = [held EXCEPT ![o] = Idle]
         /\ \A s \in Reports :
              \/ Kept(s, t)
              \/ /\ s = held[o].report /\ queue[s] \in QueueRecord /\ queue[s].owner = o
                 /\ queue'[s] # Empty => queue'[s].enqueued = queue[s].enqueued
<1>. DEFINE r == held[o].report
<1>. USE QueueAssumption, RecentTimes, NormalizedType DEF NewTypes, Kept
<1>1. /\ now' = now /\ held[o] # Idle /\ held' = [held EXCEPT ![o] = Idle]
      /\ r \in Reports
  BY Distinct DEF RemoveReport, Reschedule, QueueTypes
<1>2. CASE ~OwnsLease(o, r, t)
  BY <1>1, <1>2 DEF RemoveReport, Reschedule
<1>3. CASE OwnsLease(o, r, t)
  <2>1. r \in Live(t) /\ queue[r] \in QueueRecord /\ queue[r].owner = o
        /\ Normalized(t)[r] = queue[r]
    BY <1>3 DEF OwnsLease
  <2>2. CASE RemoveReport(o, t)
    BY <1>1, <1>3, <2>1, <2>2 DEF RemoveReport
  <2>3. ASSUME NEW a \in t .. MaxQueueTime, Reschedule(o, t, a)
        PROVE  /\ NewTypes
               /\ queue'[r].enqueued = queue[r].enqueued
               /\ \A s \in Reports \ {r} : Kept(s, t)
    <3>1. queue' = [Normalized(t) EXCEPT ![r] =
                      [queue[r] EXCEPT !.next = a, !.owner = NoOwner, !.until = 0]]
      BY <1>1, <1>3, <2>1, <2>3 DEF Reschedule
    <3>2. [queue[r] EXCEPT !.next = a, !.owner = NoOwner, !.until = 0] \in QueueRecord
      <4>1. a \in Nat
        OBVIOUS
      <4>. QED BY <2>1, <4>1, RecordUpdate
    <3>3. [queue[r] EXCEPT !.next = a, !.owner = NoOwner, !.until = 0].enqueued
            = queue[r].enqueued
      BY <2>1 DEF QueueRecord
    <3>. QED BY <1>1, <3>1, <3>2, <3>3
  <2>. QED BY <1>1, <2>1, <2>2, <2>3
<1>. QED BY <1>2, <1>3

-------------------------------------------------------------------------------
LEMMA QueueInvInit == QueueInit => QueueInv
<1>. SUFFICES ASSUME QueueInit PROVE QueueInv
  OBVIOUS
<1>1. QueueTypes
  BY QueueAssumption DEF QueueInit, QueueTypes
<1>. QED
  BY <1>1, QueueAssumption, Distinct
     DEF QueueInit, QueueInv, PastRecords, Grants, ExclusiveDelivery, Never

\* A grant survives a transaction that does not touch its record, whatever the
\* time the transaction goes by.
LEMMA GrantKept ==
  ASSUME QueueInv, NEW t \in Recent, NEW o \in Owners, held[o] # Idle,
         now' = now, held'[o] = held[o],
         \/ Kept(held[o].report, t)
         \/ ~Current(o, held[o].report)
              /\ \/ queue'[held[o].report] = Empty
                 \/ queue'[held[o].report].enqueued = queue[held[o].report].enqueued
         \/ queue'[held[o].report] = NewRecord(t)
              /\ queue[held[o].report].enqueued + Ttl <= t
         \/ queue'[held[o].report] = NewRecord(t)
              /\ queue[held[o].report] = Empty
  PROVE  \/ held'[o].until <= now'
         \/ Current(o, held[o].report)'
         \/ Dropped(o, held[o].report)'
<1>. DEFINE r == held[o].report
<1>. USE RecentTimes, QueueAssumption DEF QueueInv
<1>1. /\ r \in Reports /\ held[o].enqueued \in Nat /\ held[o].until \in Nat
      /\ t \in Nat /\ t <= now /\ now - MaxLag <= t /\ now \in Nat
  BY Distinct DEF QueueTypes
<1>2. CASE held[o].until <= now
  BY <1>2
<1>3. CASE Current(o, r) /\ Kept(r, t)
  BY <1>1, <1>3 DEF Current, Kept, Dropped
<1>4. CASE Current(o, r) /\ queue[r].enqueued + Ttl <= t /\ queue'[r] = NewRecord(t)
  BY <1>1, <1>4 DEF Current, Dropped, NewRecord
<1>5. CASE Dropped(o, r)
  <2>1. CASE queue'[r] = NewRecord(t)
    <3>1. queue'[r].enqueued = t /\ t # held[o].enqueued
      BY <1>1, <1>5, <2>1 DEF Dropped, NewRecord
    <3>. QED BY <1>5, <3>1 DEF Dropped
  <2>2. CASE queue'[r] = Empty
    BY <1>5, <2>2 DEF Dropped
  <2>3. CASE queue'[r].enqueued = queue[r].enqueued /\ queue'[r] # Empty
    BY <1>1, <1>5, <2>3, Distinct DEF Dropped, Never
  <2>. QED BY <2>1, <2>2, <2>3, <1>5 DEF Dropped, Kept
<1>. QED BY <1>2, <1>3, <1>4, <1>5 DEF Grants, Current, Dropped
LEMMA StillPast ==
  ASSUME QueueInv, now' = now,
         \A s \in Reports :
           \/ queue'[s].enqueued = queue[s].enqueued
           \/ queue'[s] = Empty
           \/ queue'[s].enqueued <= now
  PROVE  PastRecords'
BY Distinct, QueueAssumption DEF QueueInv, PastRecords, QueueTypes, Never

LEMMA QueueInvNext == QueueInv /\ [QueueNext]_queueVars => QueueInv'
<1>. SUFFICES ASSUME QueueInv, [QueueNext]_queueVars PROVE QueueInv'
  OBVIOUS
<1>. USE QueueAssumption DEF QueueInv
<1>0. now \in Nat /\ now <= MaxQueueTime
  BY DEF QueueTypes
<1>1. CASE QueueTick
  <2>1. QueueTypes' /\ PastRecords'
    BY <1>0, <1>1 DEF QueueTick, QueueTypes, PastRecords, QueueRecord, Empty, Never
  <2>2. Grants'
    <3>. SUFFICES ASSUME NEW o \in Owners, held[o] # Idle
                  PROVE  \/ held[o].until <= now + 1
                         \/ Current(o, held[o].report)
                         \/ /\ held[o].enqueued + Ttl <= now + 1
                            /\ queue[held[o].report] # Empty =>
                                 queue[held[o].report].enqueued # held[o].enqueued
      BY <1>1 DEF QueueTick, Grants, Current, Dropped
    <3>1. held[o].enqueued \in Nat /\ held[o].until \in Nat
      BY Distinct DEF QueueTypes
    <3>. QED BY <1>0, <3>1 DEF Grants, Dropped
  <2>3. ExclusiveDelivery'
    <3>1. \A o \in Owners : held[o] # Idle => held[o].until \in Nat
      BY Distinct DEF QueueTypes
    <3>. QED BY <1>0, <1>1, <3>1 DEF QueueTick, ExclusiveDelivery
  <2>. QED BY <2>1, <2>2, <2>3
<1>2. ASSUME NEW t \in Recent, NEW r \in Reports, Enqueue(r, t) PROVE QueueInv'
  <2>1. QueueTypes'
    BY <1>2, EnqueueEffect DEF NewTypes, QueueTypes
  <2>2. PastRecords'
    <3>1. NewRecord(t).enqueued <= now
      BY RecentTimes DEF NewRecord
    <3>. QED BY <1>2, <3>1, EnqueueEffect, StillPast DEF Kept
  <2>3. Grants'
    <3>1. ASSUME NEW o \in Owners, held[o] # Idle
          PROVE  \/ held'[o].until <= now'
                 \/ Current(o, held[o].report)'
                 \/ Dropped(o, held[o].report)'
      <4>1. held[o].report \in Reports /\ held'[o] = held[o] /\ now' = now
        BY <1>2, <3>1, Distinct, EnqueueEffect DEF QueueTypes
      <4>2. Current(o, held[o].report) => queue[held[o].report].owner # NoOwner
        BY DEF Current
      <4>. QED BY <1>2, <3>1, <4>1, <4>2, EnqueueEffect, GrantKept, Distinct
    <3>. QED BY <1>2, <3>1, EnqueueEffect DEF Grants
  <2>4. ExclusiveDelivery'
    BY <1>2, EnqueueEffect DEF ExclusiveDelivery
  <2>. QED BY <2>1, <2>2, <2>3, <2>4
<1>3. ASSUME NEW t \in Recent, NEW o \in Owners, LeaseNext(o, t) PROVE QueueInv'
  <2>0. t \in Nat /\ t <= now /\ t + Lease \in Nat
    BY RecentTimes
  <2>1. CASE held' = held /\ \A s \in Reports : Kept(s, t)
    <3>a. now' = now /\ NewTypes
      BY <1>3, LeaseEffect
    <3>1. QueueTypes'
      BY <2>1, <3>a DEF NewTypes, QueueTypes
    <3>2. PastRecords'
      BY <2>1, <3>a, StillPast DEF Kept
    <3>3. Grants'
      BY <2>1, <3>a, GrantKept, Distinct DEF Grants, QueueTypes
    <3>4. ExclusiveDelivery'
      BY <2>1, <3>a DEF ExclusiveDelivery
    <3>. QED BY <3>1, <3>2, <3>3, <3>4
  <2>2. ASSUME NEW r \in Reports,
               held[o] = Idle, queue[r] \in QueueRecord,
               queue[r].owner = NoOwner \/ queue[r].until <= t,
               queue'[r] = [queue[r] EXCEPT !.owner = o, !.until = t + Lease],
               \A s \in Reports \ {r} : Kept(s, t),
               held' = [held EXCEPT ![o] =
                          [report |-> r, enqueued |-> queue[r].enqueued,
                           until |-> t + Lease]]
        PROVE QueueInv'
    <3>a. now' = now /\ NewTypes
      BY <1>3, LeaseEffect
    <3>0. /\ now' = now /\ NewTypes
          /\ queue[r].enqueued \in Nat /\ queue[r].until \in Nat
          /\ queue'[r].enqueued = queue[r].enqueued
          /\ queue'[r].owner = o /\ queue'[r].until = t + Lease
          /\ queue'[r] \in QueueRecord /\ queue'[r] # Empty
      <4>1. /\ queue'[r] \in QueueRecord /\ queue'[r].enqueued = queue[r].enqueued
            /\ queue'[r].owner = o /\ queue'[r].until = t + Lease
        BY <2>0, <2>2 DEF QueueRecord
      <4>. QED BY <2>2, <3>a, <4>1, Distinct
    <3>1. held'[o] = [report |-> r, enqueued |-> queue[r].enqueued,
                      until |-> t + Lease]
      BY <2>2 DEF QueueTypes
    <3>2. held'[o] \in Grant /\ held'[o] # Idle
      BY <2>0, <2>2, <3>0, <3>1, Distinct DEF Grant
    <3>3. \A p \in Owners \ {o} : held'[p] = held[p]
      BY <2>2 DEF QueueTypes
    <3>4. QueueTypes'
      BY <2>2, <3>0, <3>1, <3>2 DEF NewTypes, QueueTypes
    <3>5. PastRecords'
      BY <2>2, <3>0, StillPast DEF Kept
    <3>6. ASSUME NEW p \in Owners \ {o}, held[p] # Idle
          PROVE  \/ held'[p].until <= now'
                 \/ Current(p, held[p].report)'
                 \/ Dropped(p, held[p].report)'
      <4>1. held[p].report \in Reports /\ held[p].until \in Nat
        BY <3>6, Distinct DEF QueueTypes
      <4>2. CASE held[p].report = r
        <5>1. Current(p, r) => held[p].until <= now
          BY <2>0, <2>2, <4>1, <1>0 DEF Current
        <5>. QED BY <3>0, <3>3, <3>6, <4>2, <5>1, GrantKept DEF Grants
      <4>. QED BY <2>2, <3>0, <3>3, <3>6, <4>1, <4>2, GrantKept
    <3>7. Current(o, r)'
      BY <3>0, <3>1 DEF Current
    <3>8. Grants'
      BY <3>1, <3>3, <3>6, <3>7 DEF Grants
    <3>9. ASSUME NEW p \in Owners \ {o}, held[p] # Idle, held[p].report = r,
                 held[p].enqueued = queue[r].enqueued
          PROVE  held[p].until <= now
      <4>1. ~Dropped(p, r)
        BY <2>2, <3>9, Distinct DEF Dropped
      <4>2. Current(p, r) => held[p].until <= now
        BY <1>0, <2>0, <2>2, <3>0 DEF Current
      <4>. QED BY <3>9, <4>1, <4>2 DEF Grants
    <3>10. ExclusiveDelivery'
      BY <3>0, <3>1, <3>3, <3>9 DEF ExclusiveDelivery
    <3>. QED BY <3>4, <3>5, <3>8, <3>10
  <2>. QED BY <1>3, <2>1, <2>2, LeaseEffect
<1>4. ASSUME NEW t \in Recent, NEW o \in Owners,
             \/ RemoveReport(o, t)
             \/ \E attempt \in t .. MaxQueueTime : Reschedule(o, t, attempt)
      PROVE QueueInv'
  <2>0. /\ now' = now /\ NewTypes /\ held[o] # Idle
        /\ held' = [held EXCEPT ![o] = Idle]
        /\ \A s \in Reports :
             \/ Kept(s, t)
             \/ /\ s = held[o].report /\ queue[s] \in QueueRecord /\ queue[s].owner = o
                /\ queue'[s] # Empty => queue'[s].enqueued = queue[s].enqueued
    BY <1>4, SettleEffect
  <2>1. held'[o] = Idle /\ \A p \in Owners \ {o} : held'[p] = held[p]
    BY <2>0 DEF QueueTypes
  <2>2. QueueTypes'
    BY <2>0, <2>1 DEF NewTypes, QueueTypes
  <2>3. PastRecords'
    BY <2>0, StillPast, Distinct DEF Kept
  <2>4. ASSUME NEW p \in Owners \ {o}, held[p] # Idle
        PROVE  \/ held'[p].until <= now'
               \/ Current(p, held[p].report)'
               \/ Dropped(p, held[p].report)'
    <3>1. held[p].report \in Reports
      BY <2>4, Distinct DEF QueueTypes
    <3>2. queue[held[p].report].owner = o => ~Current(p, held[p].report)
      BY DEF Current
    <3>. QED BY <2>0, <2>1, <2>4, <3>1, <3>2, GrantKept
  <2>5. Grants'
    BY <2>1, <2>4 DEF Grants
  <2>6. ExclusiveDelivery'
    BY <2>0, <2>1 DEF ExclusiveDelivery
  <2>. QED BY <2>2, <2>3, <2>5, <2>6
<1>5. ASSUME NEW o \in Owners, Crash(o) PROVE QueueInv'
  <2>1. /\ now' = now /\ queue' = queue /\ held'[o] = Idle
        /\ \A p \in Owners \ {o} : held'[p] = held[p]
        /\ held' \in [Owners -> Grant \cup {Idle}]
    BY <1>5 DEF Crash, QueueTypes
  <2>. QED BY <2>1
       DEF QueueTypes, PastRecords, Grants, Current, Dropped, ExclusiveDelivery
<1>6. CASE UNCHANGED queueVars
  BY <1>6 DEF queueVars, QueueTypes, PastRecords, Grants, Current, Dropped,
     ExclusiveDelivery
<1>. QED BY <1>1, <1>2, <1>3, <1>4, <1>5, <1>6 DEF QueueNext

LEMMA QueueInvariant == QueueSpec => []QueueInv
BY QueueInvInit, QueueInvNext, PTL DEF QueueSpec

\* Two tabs never hold unexpired leases of one enqueued report.
THEOREM ExclusiveDeliveryHolds == QueueSpec => []ExclusiveDelivery
BY QueueInvariant, PTL DEF QueueInv
-------------------------------------------------------------------------------
\* No lease that has not run out is ended by anyone but its owner.
THEOREM LeaseEndsByOwnerHolds == QueueSpec => LeaseEndsByOwner
<1>. DEFINE A ==
       \A r \in Reports :
         LET o == queue[r].owner IN
         /\ r \in Live(now) /\ o # NoOwner /\ queue[r].until > now
         /\ queue'[r] # queue[r]
         => held[o].report = r /\ held'[o] = Idle
<1>1. ASSUME QueueInv, [QueueNext]_queueVars PROVE A
  <2>. USE <1>1 DEF QueueInv
  <2>. SUFFICES ASSUME NEW r \in Reports, r \in Live(now),
                       queue[r].owner # NoOwner, queue[r].until > now,
                       queue'[r] # queue[r]
                PROVE  /\ held[queue[r].owner].report = r
                       /\ held'[queue[r].owner] = Idle
    OBVIOUS
  <2>0. /\ queue[r] \in QueueRecord /\ queue[r] # Empty
        /\ queue[r].enqueued + Ttl > now /\ queue[r].enqueued \in Nat
        /\ queue[r].until \in Nat /\ now \in Nat
    BY QueueAssumption, Distinct DEF Live, Stored, QueueTypes
  <2>1. ASSUME NEW t \in Recent PROVE ~Kept(r, t)
    BY <2>0, RecentTimes, QueueAssumption DEF Kept
  <2>2. ASSUME NEW t \in Recent, NEW s \in Reports, Enqueue(s, t) PROVE FALSE
    <3>1. t \in Nat /\ t <= now
      BY RecentTimes
    <3>. QED BY <2>0, <2>1, <2>2, <3>1, EnqueueEffect, QueueAssumption
  <2>3. ASSUME NEW t \in Recent, NEW o \in Owners, LeaseNext(o, t) PROVE FALSE
    <3>1. t \in Nat /\ t <= now /\ ~Kept(r, t)
      BY <2>1, RecentTimes
    <3>2. PICK s \in Reports :
            /\ queue[s].owner = NoOwner \/ queue[s].until <= t
            /\ \A q \in Reports \ {s} : Kept(q, t)
      BY <2>3, <3>1, LeaseEffect
    <3>. QED BY <2>0, <3>1, <3>2
  <2>4. ASSUME NEW t \in Recent, NEW o \in Owners,
               \/ RemoveReport(o, t)
               \/ \E attempt \in t .. MaxQueueTime : Reschedule(o, t, attempt)
        PROVE  /\ held[queue[r].owner].report = r
               /\ held'[queue[r].owner] = Idle
    <3>1. held' = [held EXCEPT ![o] = Idle] /\ held[o].report = r
          /\ queue[r].owner = o
      BY <2>1, <2>4, SettleEffect
    <3>. QED BY <3>1 DEF QueueTypes
  <2>. QED BY <2>2, <2>3, <2>4 DEF QueueNext, QueueTick, Crash, queueVars
<1>2. QueueInv /\ [QueueNext]_queueVars => [A]_queueVars
  BY <1>1
<1>. QED BY <1>2, QueueInvariant, PTL DEF QueueSpec, LeaseEndsByOwner

\* A report leaves the queue by expiry, by the tab it is leased to, or unleased
\* to a newcomer.
THEOREM NoSilentLossHolds == QueueSpec => NoSilentLoss
<1>. DEFINE Lost(r) ==
       \/ queue[r].enqueued + Ttl <= now
       \/ \E o \in Owners : queue[r].owner = o /\ held[o].report = r
                              /\ held'[o] = Idle
       \/ /\ queue[r].owner = NoOwner
          /\ \E s \in Reports : queue'[s].enqueued > queue[s].enqueued
<1>. DEFINE A == \A r \in Stored : queue'[r] = Empty => Lost(r)
<1>1. ASSUME QueueInv, [QueueNext]_queueVars PROVE A
  <2>. USE <1>1 DEF QueueInv
  <2>. SUFFICES ASSUME NEW r \in Stored, queue'[r] = Empty PROVE Lost(r)
    OBVIOUS
  <2>0. /\ r \in Reports /\ queue[r] # Empty /\ queue'[r] # queue[r]
        /\ queue[r].enqueued \in Nat /\ now \in Nat
    BY Distinct DEF Stored, QueueTypes
  <2>1. ASSUME NEW t \in Recent, Kept(r, t) PROVE Lost(r)
    <3>1. t \in Nat /\ t <= now
      BY RecentTimes
    <3>. QED BY <2>0, <2>1, <3>1, QueueAssumption DEF Kept
  <2>2. ASSUME NEW t \in Recent, NEW s \in Reports, Enqueue(s, t) PROVE Lost(r)
    <3>1. t \in Nat /\ NewRecord(t) # Empty /\ NewRecord(t).enqueued = t
      BY RecentTimes, Distinct DEF NewRecord
    <3>2. CASE /\ ~Kept(r, t)
               /\ queue[s] = Empty \/ queue[s].enqueued + Ttl <= t
               /\ queue'[s] = NewRecord(t)
               /\ queue[r].owner = NoOwner
      <4>1. queue[s] # Empty => queue[s].enqueued \in Nat
        BY Distinct DEF QueueTypes
      <4>2. queue'[s].enqueued > queue[s].enqueued
        BY <3>1, <3>2, <4>1, Distinct, QueueAssumption DEF Never
      <4>. QED BY <3>2, <4>2
    <3>. QED BY <2>0, <2>1, <2>2, <3>1, <3>2, EnqueueEffect
  <2>3. ASSUME NEW t \in Recent, NEW o \in Owners, LeaseNext(o, t) PROVE Lost(r)
    <3>1. CASE ~Kept(r, t)
      <4>1. t + Lease \in Nat
        BY RecentTimes, QueueAssumption
      <4>2. PICK s \in Reports :
              /\ queue[s] \in QueueRecord
              /\ queue'[s] = [queue[s] EXCEPT !.owner = o, !.until = t + Lease]
              /\ \A q \in Reports \ {s} : Kept(q, t)
        BY <2>0, <2>3, <3>1, LeaseEffect
      <4>3. queue'[s] \in QueueRecord
        BY <4>1, <4>2 DEF QueueRecord
      <4>. QED BY <2>0, <3>1, <4>2, <4>3, Distinct
    <3>. QED BY <2>1, <3>1
  <2>4. ASSUME NEW t \in Recent, NEW o \in Owners,
               \/ RemoveReport(o, t)
               \/ \E attempt \in t .. MaxQueueTime : Reschedule(o, t, attempt)
        PROVE  Lost(r)
    <3>1. CASE ~Kept(r, t)
      <4>1. held' = [held EXCEPT ![o] = Idle] /\ held[o].report = r
            /\ queue[r].owner = o
        BY <2>0, <2>4, <3>1, SettleEffect
      <4>. QED BY <4>1 DEF QueueTypes
    <3>. QED BY <2>1, <3>1
  <2>. QED BY <2>0, <2>2, <2>3, <2>4 DEF QueueNext, QueueTick, Crash, queueVars
<1>2. QueueInv /\ [QueueNext]_queueVars => [A]_queueVars
  BY <1>1
<1>. QED BY <1>2, QueueInvariant, PTL DEF QueueSpec, NoSilentLoss

\* The wake-up that getNextWakeUtc() computes is neither early nor late.
THEOREM WakeIsExactHolds == QueueSpec => []WakeIsExact
<1>1. QueueInv => WakeIsExact
  <2>. SUFFICES ASSUME QueueInv, NEW t \in now .. now + Ttl, Live(t) = Live(now)
                PROVE  Due(t) # {} <=> WakesBy(t)
    BY DEF WakeIsExact
  <2>1. t \in Nat
    BY QueueAssumption DEF QueueInv, QueueTypes
  <2>2. ASSUME NEW r \in Live(t)
        PROVE  r \in Due(t) <=> WakeOf(r) <= t
    <3>1. queue[r].next \in Nat /\ queue[r].until \in Nat
      BY <2>1, NormalizedType, Distinct DEF QueueInv
    <3>. QED BY <2>1, <3>1 DEF Due, IsFree, WakeOf
  <2>. QED BY <2>2 DEF WakesBy, Due
<1>. QED BY <1>1, QueueInvariant, PTL
-------------------------------------------------------------------------------
Fits == Cardinality(Stored) <= Capacity

\* A transaction leaves what was alive, plus a newcomer that fits.
LEMMA CapacityNext ==
  ASSUME QueueInv, Fits, [QueueNext]_queueVars
  PROVE  Fits'
<1>. USE QueueAssumption DEF QueueInv, Fits
<1>0. IsFiniteSet(Stored) /\ Cardinality(Stored) \in Nat
  BY FS_Subset, FS_CardinalityType DEF Stored
<1>a. ASSUME NEW t \in Recent
      PROVE  IsFiniteSet(Live(t)) /\ Cardinality(Live(t)) <= Capacity
             /\ Cardinality(Live(t)) \in Nat
  BY <1>0, FS_Subset, FS_CardinalityType DEF Live
<1>b. ASSUME NEW t \in Recent, Stored' \subseteq Live(t)
      PROVE  Cardinality(Stored') <= Capacity
  BY <1>a, <1>b, FS_Subset, FS_CardinalityType
<1>c. ASSUME NEW t \in Recent PROVE {s \in Reports : Normalized(t)[s] # Empty} = Live(t)
  BY DEF Normalized, Live, Stored
<1>1. ASSUME NEW t \in Recent, NEW r \in Reports, Enqueue(r, t)
      PROVE  Cardinality(Stored') <= Capacity
  <2>1. CASE queue' = Normalized(t)
    BY <1>b, <1>c, <2>1 DEF Stored
  <2>2. CASE r \notin Live(t) /\ ~IsFull(t)
             /\ queue' = [Normalized(t) EXCEPT ![r] = NewRecord(t)]
    <3>1. Stored' \subseteq Live(t) \cup {r}
      BY <1>c, <2>2 DEF Stored, Normalized
    <3>2. Cardinality(Live(t) \cup {r}) = Cardinality(Live(t)) + 1
      BY <1>a, <2>2, FS_AddElement
    <3>3. Cardinality(Live(t) \cup {r}) <= Capacity
      BY <1>a, <2>2, <3>2 DEF IsFull
    <3>4. IsFiniteSet(Live(t) \cup {r})
      BY <1>a, FS_AddElement
    <3>. QED BY <3>1, <3>3, <3>4, FS_Subset, FS_CardinalityType
  <2>3. ASSUME NEW e \in Evictable(t), r \notin Live(t),
               queue' = [Normalized(t) EXCEPT ![e] = Empty, ![r] = NewRecord(t)]
        PROVE  Cardinality(Stored') <= Capacity
    <3>0. e \in Live(t) /\ e # r /\ e \in Reports
      BY <2>3 DEF Evictable, Unleased, Live, Stored
    <3>1. Stored' \subseteq (Live(t) \ {e}) \cup {r}
      BY <1>c, <2>3, <3>0 DEF Stored, Normalized
    <3>2. /\ IsFiniteSet(Live(t) \ {e})
          /\ Cardinality(Live(t) \ {e}) = Cardinality(Live(t)) - 1
      BY <1>a, <3>0, FS_RemoveElement
    <3>3. /\ IsFiniteSet((Live(t) \ {e}) \cup {r})
          /\ Cardinality((Live(t) \ {e}) \cup {r}) = Cardinality(Live(t))
      <4>1. r \notin Live(t) \ {e}
        BY <2>3
      <4>2. /\ IsFiniteSet((Live(t) \ {e}) \cup {r})
            /\ Cardinality((Live(t) \ {e}) \cup {r})
                 = Cardinality(Live(t) \ {e}) + 1
        BY <3>2, <4>1, FS_AddElement
      <4>. QED BY <1>a, <3>2, <4>2
    <3>. QED BY <1>a, <3>1, <3>3, FS_Subset, FS_CardinalityType
  <2>. QED BY <1>1, <2>1, <2>2, <2>3 DEF Enqueue
<1>2. ASSUME NEW t \in Recent, NEW o \in Owners,
             \/ LeaseNext(o, t) \/ RemoveReport(o, t)
             \/ \E attempt \in t .. MaxQueueTime : Reschedule(o, t, attempt)
      PROVE  Cardinality(Stored') <= Capacity
  <2>1. Stored' \subseteq Live(t)
    BY <1>2, <1>c DEF LeaseNext, RemoveReport, Reschedule, OwnsLease, Due, Stored,
       Normalized, Live
  <2>. QED BY <1>b, <2>1
<1>3. CASE UNCHANGED queue
  BY <1>3 DEF Stored
<1>. QED BY <1>1, <1>2, <1>3 DEF QueueNext, QueueTick, Crash, queueVars

\* The queue never holds more than its capacity, and what it holds are records.
THEOREM QueueTypeCorrect == QueueSpec => []QueueTypeOK
<1>1. QueueInit => Fits
  <2>1. QueueInit => Stored = {}
    BY DEF QueueInit, Stored
  <2>. QED BY <2>1, FS_EmptySet, QueueAssumption DEF Fits
<1>2. QueueInv /\ Fits => QueueTypeOK
  BY DEF QueueInv, QueueTypes, Fits, QueueTypeOK
<1>3. QueueInv /\ Fits /\ [QueueNext]_queueVars => Fits'
  BY CapacityNext
<1>. QED BY <1>1, <1>2, <1>3, QueueInvariant, PTL DEF QueueSpec
===============================================================================
