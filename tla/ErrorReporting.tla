----------------------------- MODULE ErrorReporting -----------------------------
(***************************************************************************)
(* How an error of a document becomes a draft of a report.  A capture      *)
(* reads the persisted queries, then makes a draft, and drafts live in     *)
(* sessionStorage or, after the one-way opt-out, in memory.  Captures of   *)
(* runtime errors are shared through RuntimeDeduplication.                 *)
(*                                                                         *)
(* A behaviour is one browser document in production mode, which may find  *)
(* a draft of an earlier document in its sessionStorage.                   *)
(***************************************************************************)
EXTENDS RuntimeDeduplication, SequencesExt

CONSTANT MaxDrafts \* MAX_DRAFTS

ASSUME ErrorReportingAssumption == MaxDrafts \in Nat \ {0}

VARIABLES
  phase,        \* how far each capture has come
  disabled,     \* browserStorageDisabled
  loaded,       \* browserDrafts # undefined
  browserDrafts, memoryDrafts,
  stored,       \* the drafts in sessionStorage
  made          \* history: captures whose drafts were made in the present mode

draftVars == <<phase, disabled, loaded, browserDrafts, memoryDrafts, stored, made>>
allVars == <<vars, draftVars>>

\* A draft names its capture, says whether it holds persisted queries, and whose
\* session id it carries; its status and the rest of the payload are left out.
Draft(c, data, session) == [capture |-> c, data |-> data, session |-> session]

Earlier == Draft(0, TRUE, "browser") \* left by an earlier document

ReportingInit ==
  /\ Init
  /\ phase = [c \in Captures |-> "idle"]
  /\ disabled = FALSE /\ loaded = FALSE /\ browserDrafts = <<>> /\ memoryDrafts = <<>>
  /\ stored \in {<<>>, <<Earlier>>} /\ made = <<>>

-------------------------------------------------------------------------------
\* What readErrorReportDrafts may return: the first read of a browser document
\* loads sessionStorage, or nothing when that throws.
Readable ==
  IF disabled THEN {memoryDrafts}
  ELSE IF loaded THEN {browserDrafts} ELSE {stored, <<>>}

Bounded(s) == IF Len(s) < MaxDrafts THEN s ELSE SubSeq(s, Len(s) - MaxDrafts + 1, Len(s))

\* saveErrorReportDrafts: sessionStorage may refuse, the module's copy does not.
SaveDrafts(drafts) ==
  IF disabled
  THEN /\ memoryDrafts' = Bounded(drafts)
       /\ UNCHANGED <<loaded, browserDrafts, stored>>
  ELSE /\ loaded' = TRUE /\ browserDrafts' = Bounded(drafts)
       /\ stored' \in {stored, Bounded(drafts)}
       /\ UNCHANGED memoryDrafts

WrongHolds(data) == data \* the opt-out after the diagnostics is not noticed

\* Persisted queries go into a draft only if they may still be used.
Holds(data) == data /\ ~disabled

\* captureErrorReportDraft: something throws, the schema refuses the draft, or
\* it is saved.
MakeDraft(c, data) ==
  \/ /\ phase' = [phase EXCEPT ![c] = "thrown"]
     /\ UNCHANGED <<loaded, browserDrafts, memoryDrafts, stored, made>>
  \/ /\ phase' = [phase EXCEPT ![c] = "refused"]
     /\ UNCHANGED <<loaded, browserDrafts, memoryDrafts, stored, made>>
  \/ /\ phase' = [phase EXCEPT ![c] = "saved"] /\ made' = Append(made, c)
     /\ \E drafts \in Readable :
          SaveDrafts(Append(drafts,
            Draft(c, Holds(data), IF disabled THEN "memory" ELSE "browser")))

\* The diagnostics of capture c begin: collectPersistedQueryDiagnostics has no
\* storage to read, or a read is under way.
Diagnose(c) ==
  /\ phase' = [phase EXCEPT ![c] = IF disabled THEN "plain" ELSE "reading"]
  /\ UNCHANGED <<loaded, browserDrafts, memoryDrafts, stored, made>>

\* captureRuntimeErrorReport, with a query client or without.
CaptureRuntime(f) ==
  \/ Coalesce(f) /\ UNCHANGED draftVars
  \/ /\ Capture(f) /\ UNCHANGED disabled
     /\ Diagnose(captures + 1) \/ MakeDraft(captures + 1, FALSE)

\* captureQueryErrorReport and captureMutationErrorReport; they also suppress the
\* report of TransportReports.
CaptureQuery ==
  /\ captures < MaxCaptures /\ captures' = captures + 1 /\ Diagnose(captures + 1)
  /\ UNCHANGED <<disabled, recent, timers, pending, clock, skew, adjusts, answers>>

\* The read of the persisted queries ends; it may find none, or fail.
ReadEnds(c) ==
  /\ phase[c] = "reading"
  /\ \E result \in {"plain"} \cup (IF disabled THEN {} ELSE {"read"}) :
       phase' = [phase EXCEPT ![c] = result]
  /\ UNCHANGED <<vars, disabled, loaded, browserDrafts, memoryDrafts, stored, made>>

CaptureResumes(c) ==
  /\ phase[c] \in {"plain", "read"}
  /\ MakeDraft(c, phase[c] = "read")
  /\ UNCHANGED <<vars, disabled>>

\* The promise of a runtime capture settles.
Settles(p) ==
  /\ \/ phase[p[2]] \in {"saved", "refused"} /\ Fulfilled(p)
     \/ phase[p[2]] = "thrown" /\ Rejected(p)
  /\ UNCHANGED draftVars

\* getErrorReportDrafts and getErrorReportDraft.
ReadDrafts ==
  /\ \E drafts \in Readable : browserDrafts' = IF disabled THEN browserDrafts ELSE drafts
  /\ loaded' = (loaded \/ ~disabled)
  /\ UNCHANGED <<vars, phase, disabled, memoryDrafts, stored, made>>

\* updateErrorReportDraft, of a draft that is there and with a patch that parses:
\* the list is saved with the new status.
UpdateDraft ==
  /\ \E drafts \in Readable : drafts # <<>> /\ SaveDrafts(drafts)
  /\ UNCHANGED <<vars, phase, disabled, made>>

WrongForgets == UNCHANGED vars \* shared captures live on

Forgets == Clear

\* disableErrorReportBrowserStorage.
Disable ==
  /\ ~disabled /\ disabled' = TRUE
  /\ loaded' = FALSE /\ browserDrafts' = <<>> /\ made' = <<>>
  /\ Forgets /\ UNCHANGED <<phase, memoryDrafts, stored>>

\* setErrorReportRuntimeErrorReporter.
ChangeRuntimeReporter == Clear /\ UNCHANGED draftVars

-------------------------------------------------------------------------------
Time == (Tick \/ SetBack) /\ UNCHANGED draftVars

ReportingNext ==
  \/ \E f \in Fingerprints : CaptureRuntime(f)
  \/ \E t \in timers : TimerFires(t) /\ UNCHANGED draftVars
  \/ \E p \in pending : Settles(p)
  \/ \E c \in Captures : ReadEnds(c) \/ CaptureResumes(c)
  \/ CaptureQuery \/ UpdateDraft \/ ReadDrafts \/ Disable \/ ChangeRuntimeReporter \/ Time

ReportingSpec == ReportingInit /\ [][ReportingNext]_allVars

-------------------------------------------------------------------------------
\* After the opt-out the document keeps nothing that came from its browser storage:
\* no draft of sessionStorage, no session id of it, no persisted query that a
\* capture had begun to read before.
OptOutHolds ==
  /\ \A i \in DOMAIN memoryDrafts :
       ~memoryDrafts[i].data /\ memoryDrafts[i].session = "memory"
  /\ disabled => browserDrafts = <<>> /\ ~loaded

\* Whoever was answered with a shared capture finds its draft, unless a full list
\* of newer ones pushed it out: also after the opt-out and in every refusal of
\* the storage, and whatever was captured meanwhile.
SharedDraftIsFindable ==
  \A f \in Fingerprints : LET c == answers[f] IN
    c # NoAnswer /\ phase[c] = "saved" =>
      /\ c \in ToSet(made)
      /\ \/ \E drafts \in Readable : \E i \in DOMAIN drafts : drafts[i].capture = c
         \/ \E i \in DOMAIN made : made[i] = c /\ Len(made) - i >= MaxDrafts
===============================================================================
