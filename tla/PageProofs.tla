------------------------------- MODULE PageProofs -------------------------------
(***************************************************************************)
(* The components of a page proved for every value of their constants:     *)
(* every interval, lifetime, threshold and limit, and any number of        *)
(* toasts, listeners, files, publications, overlays, options and tabs.     *)
(***************************************************************************)
EXTENDS MCPage, FiniteSetTheorems, SequenceTheorems, WellFoundedInduction, TLAPS

-------------------------------------------------------------------------------
(* Rate limited callbacks.                                                 *)

\* The inductive invariant.
RateInv == TypeOK /\ ValueHasTimer /\ LastWriteWins /\ TimerAtTheEnd

\* What a step does to the waiting value, its timer and the last invocation.
Kept == UNCHANGED <<last, timer, invoked>>
Dropped == last' = NoValue /\ timer' = NoTimer /\ invoked' = invoked
Delivered(value, by) == last' = NoValue /\ timer' = NoTimer /\ Invoke(value, by)

\* A step that only keeps, drops or delivers the waiting value, at one moment.
Settles ==
  /\ UNCHANGED <<throttled, now, calls, calledAt>>
  /\ mounted' \in BOOLEAN /\ flushOnUnmount' \in BOOLEAN
  /\ renders' \in 0 .. MaxRenders
  /\ \/ Kept
     \/ Dropped
     \/ \E by \in Causes : last # NoValue /\ Delivered(last, by)

LEMMA InvInit == Init => RateInv
<1> SUFFICES ASSUME Init PROVE RateInv
  OBVIOUS
<1> USE RateLimitedAssumption
    DEF Init, RateInv, NoValue, NoTimer, Causes
<1>1. TypeOK
  BY DEF TypeOK
<1>2. ValueHasTimer /\ LastWriteWins /\ TimerAtTheEnd
  BY DEF ValueHasTimer, LastWriteWins, TimerAtTheEnd
<1>. QED BY <1>1, <1>2

LEMMA FlushSettles ==
  ASSUME NEW by \in Causes, DoFlush(by)
  PROVE  Kept \/ (last # NoValue /\ Delivered(last, by))
BY DEF DoFlush, FlushedTimer, Kept, Delivered

LEMMA SettlesKeepsInv ==
  ASSUME RateInv, Settles
  PROVE  RateInv'
<1> USE RateLimitedAssumption DEF RateInv, NoValue, NoTimer
<1>1. CASE Kept
  BY <1>1 DEF Settles, Kept, TypeOK, ValueHasTimer, LastWriteWins, TimerAtTheEnd
<1>2. CASE Dropped
  BY <1>2 DEF Settles, Dropped, TypeOK, ValueHasTimer, LastWriteWins, TimerAtTheEnd
<1>3. ASSUME NEW by \in Causes, last # NoValue, Delivered(last, by)
      PROVE  RateInv'
  <2>1. invoked' \in [value : 0 .. calls, at : (-Interval) .. now, by : Causes,
                      mounted : BOOLEAN]
    BY <1>3 DEF Settles, Delivered, Invoke, TypeOK
  <2>2. TypeOK'
    BY <1>3, <2>1 DEF Settles, Delivered, TypeOK
  <2>3. (ValueHasTimer /\ LastWriteWins /\ TimerAtTheEnd)'
    BY <1>3 DEF Delivered, ValueHasTimer, LastWriteWins, TimerAtTheEnd
  <2>. QED BY <2>2, <2>3
<1>. QED BY <1>1, <1>2, <1>3 DEF Settles

LEMMA CallKeepsInv ==
  ASSUME RateInv, Call
  PROVE  RateInv'
<1> USE RateLimitedAssumption DEF RateInv, NoValue, NoTimer
<1>1. /\ calls' = calls + 1 /\ calls' \in 1 .. MaxCalls
      /\ UNCHANGED <<throttled, now, mounted, flushOnUnmount, renders>>
      /\ now' \in Nat /\ calledAt' = now
  BY DEF Call, TypeOK
<1>2. CASE ~throttled
  <2>1. last' = calls' /\ timer' = now + Interval /\ invoked' = invoked
    BY <1>1, <1>2 DEF Call, DebouncedCall, Pending, DebouncedTimer
  <2>2. TypeOK'
    BY <1>1, <2>1 DEF TypeOK
  <2>3. (ValueHasTimer /\ LastWriteWins /\ TimerAtTheEnd)'
    BY <1>1, <1>2, <2>1
       DEF TypeOK, ValueHasTimer, LastWriteWins, TimerAtTheEnd
  <2>. QED BY <2>2, <2>3
<1>3. CASE throttled /\ Passed
  <2>1. Delivered(calls', "leading")
    BY <1>3 DEF Call, ThrottledCall, Delivered
  <2>2. invoked' \in [value : 0 .. calls', at : (-Interval) .. now, by : Causes,
                      mounted : BOOLEAN]
    BY <1>1, <2>1 DEF Delivered, Invoke, TypeOK, Causes
  <2>3. TypeOK'
    BY <1>1, <2>1, <2>2 DEF Delivered, TypeOK
  <2>4. (ValueHasTimer /\ LastWriteWins /\ TimerAtTheEnd)'
    BY <2>1 DEF Delivered, ValueHasTimer, LastWriteWins, TimerAtTheEnd
  <2>. QED BY <2>3, <2>4
<1>4. CASE throttled /\ ~Passed
  <2>1. last' = calls' /\ invoked' = invoked
    BY <1>4 DEF Call, ThrottledCall, Pending
  <2>2. timer' = invoked.at + Interval
    BY <1>4 DEF Call, ThrottledCall, TrailingTimer, TimerAtTheEnd, TypeOK
  <2>3. timer' \in 0 .. MaxTime + Interval
    BY <2>2 DEF TypeOK
  <2>4. TypeOK'
    BY <1>1, <2>1, <2>3 DEF TypeOK
  <2>5. (ValueHasTimer /\ LastWriteWins /\ TimerAtTheEnd)'
    BY <1>1, <1>4, <2>1, <2>2, <2>3
       DEF TypeOK, ValueHasTimer, LastWriteWins, TimerAtTheEnd
  <2>. QED BY <2>4, <2>5
<1>. QED BY <1>2, <1>3, <1>4 DEF TypeOK

\* Every step but Call and Tick settles what waits.
LEMMA StepSettles ==
  ASSUME RateInv, Flush \/ Cancel \/ TimerFires \/ Unmount \/ ChangeOption
  PROVE  Settles
<1> USE DEF RateInv
<1>0. {"timer", "flush"} \subseteq Causes
  BY DEF Causes
<1>1. CASE Flush
  BY <1>0, <1>1, FlushSettles DEF Flush, Settles, TypeOK
<1>2. CASE Cancel
  BY <1>2 DEF Cancel, DoCancel, Dropped, Settles, TypeOK
<1>3. CASE TimerFires
  BY <1>0, <1>3 DEF TimerFires, Dropped, Delivered, Settles, TypeOK
<1>4. CASE Unmount
  BY <1>0, <1>4, FlushSettles
     DEF Unmount, Cleanup, DoCancel, Dropped, Settles, TypeOK
<1>5. CASE ChangeOption
  <2>1. mounted' \in BOOLEAN /\ flushOnUnmount' \in BOOLEAN
    BY <1>5 DEF ChangeOption, TypeOK
  <2>2. renders' \in 0 .. MaxRenders
    BY <1>5, RateLimitedAssumption DEF ChangeOption, TypeOK
  <2>. QED
    BY <1>0, <1>5, <2>1, <2>2, FlushSettles
       DEF ChangeOption, Cleanup, DoCancel, Dropped, Settles
<1>. QED BY <1>1, <1>2, <1>3, <1>4, <1>5

LEMMA InvNext == RateInv /\ [Next]_vars => RateInv'
<1> SUFFICES ASSUME RateInv, [Next]_vars PROVE RateInv'
  OBVIOUS
<1>1. CASE Call
  BY <1>1, CallKeepsInv
<1>2. CASE Flush \/ Cancel \/ TimerFires \/ Unmount \/ ChangeOption
  BY <1>2, StepSettles, SettlesKeepsInv
<1>3. CASE Tick
  BY <1>3, RateLimitedAssumption
     DEF Tick, RateInv, TypeOK, ValueHasTimer, LastWriteWins, TimerAtTheEnd
<1>4. CASE UNCHANGED vars
  BY <1>4 DEF vars, RateInv, TypeOK, ValueHasTimer, LastWriteWins, TimerAtTheEnd
<1>. QED BY <1>1, <1>2, <1>3, <1>4 DEF Next

LEMMA Invariant == Spec => []RateInv
BY InvInit, InvNext, PTL DEF Spec

-------------------------------------------------------------------------------
\* The last invocation is never in the future and its value is one that was given.
THEOREM TypeCorrect == Spec => []TypeOK
BY Invariant, PTL DEF RateInv

\* No value of the two hooks waits without the timer that will deliver it.
THEOREM ValueHasTimerHolds == Spec => []ValueHasTimer
BY Invariant, PTL DEF RateInv

\* cb never receives a value older than one it has received.
THEOREM LastWriteWinsHolds == Spec => []LastWriteWins
BY Invariant, PTL DEF RateInv

\* The timer is that of the last call (debounce) or of the last window (throttle).
THEOREM TimerAtTheEndHolds == Spec => []TimerAtTheEnd
BY Invariant, PTL DEF RateInv

\* Whatever is flushed or cancelled between, calls and timers invoke a throttled
\* callback no sooner than Interval after the invocation before.
THEOREM SpacedHolds == Spec => Spaced
<1>. DEFINE A == throttled /\ invoked'.by \in {"leading", "timer"} /\ invoked' # invoked
                   => invoked'.at - invoked.at >= Interval
<1>1. ASSUME RateInv, [Next]_vars PROVE A
  <2> USE <1>1, RateLimitedAssumption DEF RateInv
  <2>1. CASE Call
    BY <2>1 DEF Call, ThrottledCall, DebouncedCall, Passed, Invoke
  <2>2. CASE TimerFires
    <3>1. CASE last = NoValue
      BY <2>2, <3>1 DEF TimerFires
    <3>2. CASE last # NoValue
      <4>1. invoked'.at = now /\ timer # NoTimer /\ timer <= now
        BY <2>2, <3>2 DEF TimerFires, Invoke
      <4>. QED BY <4>1 DEF TimerAtTheEnd, TypeOK, NoTimer
    <3>. QED BY <3>1, <3>2
  <2>3. CASE Flush \/ Unmount \/ ChangeOption
    <3>1. invoked' = invoked \/ invoked'.by = "flush"
      BY <2>3 DEF Flush, Unmount, ChangeOption, Cleanup, DoFlush, DoCancel, Invoke
    <3>. QED BY <3>1
  <2>4. CASE Cancel \/ Tick \/ UNCHANGED vars
    BY <2>4 DEF Cancel, DoCancel, Tick, vars
  <2>. QED BY <2>1, <2>2, <2>3, <2>4 DEF Next
<1>2. RateInv /\ [Next]_vars => [A]_invoked
  BY <1>1
<1>. QED BY <1>2, Invariant, PTL DEF Spec, Spaced

-------------------------------------------------------------------------------
(* A page: every component starts in one of its initial states, and takes  *)
(* only steps of its own.                                                  *)

LEMMA PageStarts ==
  PageInit => /\ Init /\ N!Init /\ T!Init /\ S!Init /\ D!Init /\ F!Init
              /\ L!Init /\ M!Init /\ R!Init /\ P!Init /\ G!Init
BY DEF PageInit

LEMMA PageMoves ==
  [PageNext]_allVars =>
    /\ [Next]_vars /\ [N!Next]_nvars /\ [T!Next]_tvars /\ [S!Next]_svars /\ [D!Next]_dvars
    /\ [F!Next]_fvars /\ [L!Next]_lvars /\ [M!Next]_mvars /\ [R!Next]_rvars /\ [P!Next]_pvars
    /\ [G!Next]_gvars
<1>1. CASE UNCHANGED allVars
  BY <1>1 DEF allVars
<1>2. CASE PageNext
  BY <1>2 DEF PageNext, Rest
<1> QED
  BY <1>1, <1>2

\* On every page the newest value waits and the throttled callback keeps its interval,
\* whatever the other components do.
THEOREM RateLimitsHold == PageSpec => []LastWriteWins /\ Spaced
<1>1. PageSpec => Spec
  BY PageStarts, PageMoves, PTL DEF PageSpec, Spec
<1> QED
  BY <1>1, LastWriteWinsHolds, SpacedHolds, PTL

-------------------------------------------------------------------------------
(* Virtualized lists.                                                      *)

\* A request is counted while it is under way; until something new permits a retry,
\* the failure is that of the items that are shown.
FetchInv ==
  /\ requests = IF request = "begun" THEN 1 ELSE 0
  /\ fetching \in BOOLEAN /\ (fetching <=> request # "none")
  /\ permit \in BOOLEAN /\ (~permit => failedAt = rows)

LEMMA FetchStep == FetchInv /\ [G!Next]_gvars => FetchInv'
<1> SUFFICES ASSUME FetchInv, [G!Next]_gvars PROVE FetchInv'
  OBVIOUS
<1> USE DEF FetchInv
<1>1. CASE G!Render
  <2> DEFINE failure == IF G!Forgets THEN G!NoFailure ELSE failedAt
             begins == rows' > 0 /\ more' /\ ~fetching /\ failure # rows' /\ atEnd'
  <2>1. /\ failedAt' = failure /\ fetching' = (fetching \/ begins)
        /\ IF begins THEN request' = "begun" /\ requests' = requests + 1
           ELSE UNCHANGED <<request, requests>>
        /\ permit' = (permit \/ ~more' \/ rows' # rows)
    BY <1>1 DEF G!Render
  <2>2. ~permit' => failure = rows'
    BY <2>1 DEF G!Forgets
  <2> HIDE DEF failure
  <2>3. begins => ~fetching /\ failure # rows'
    OBVIOUS
  <2> HIDE DEF begins
  <2>4. requests' = IF request' = "begun" THEN 1 ELSE 0
    BY <2>1, <2>3
  <2>5. fetching' \in BOOLEAN /\ (fetching' <=> request' # "none")
    BY <2>1, <2>3 DEF begins
  <2> QED
    BY <2>1, <2>2, <2>4, <2>5
<1>2. CASE G!Fails
  <2>1. request = "begun" /\ request' = "reporting" /\ requests' = requests - 1 /\ fetching' = fetching
    BY <1>2 DEF G!Fails
  <2>2. permit' \in BOOLEAN /\ (~permit' => failedAt' = rows')
    BY <1>2 DEF G!Fails
  <2> QED
    BY <2>1, <2>2
<1>4. CASE G!Succeeds
  <2>1. request = "begun" /\ request' = "none" /\ requests' = requests - 1
        /\ fetching' = FALSE /\ permit' = TRUE
    BY <1>4 DEF G!Succeeds
  <2>2. requests' = 0
    BY <2>1
  <2>3. fetching' \in BOOLEAN /\ ~fetching' /\ permit' \in BOOLEAN /\ permit'
    BY <2>1, Zenon
  <2> QED
    BY <2>1, <2>2, <2>3
<1>5. CASE G!ReporterSettles
  BY <1>5 DEF G!ReporterSettles
<1>6. CASE G!Unmount
  BY <1>6 DEF G!Unmount
<1>3. CASE UNCHANGED gvars
  BY <1>3 DEF gvars
<1> QED
  BY <1>1, <1>2, <1>3, <1>4, <1>5, <1>6 DEF G!Next

\* One request at a time, and none after a failure before the data or hasNextPage has
\* changed, however often the list is scrolled and rendered.
THEOREM NoRetryByScrollHolds == PageSpec => NoRetryByScroll
<1>1. PageInit => FetchInv
  BY PageStarts DEF G!Init, FetchInv
<1>2. FetchInv /\ [PageNext]_allVars => FetchInv'
  BY PageMoves, FetchStep
<1> DEFINE A == request' = "begun" /\ request # "begun" => requests = 0 /\ permit'
<1>3. FetchInv /\ [PageNext]_allVars => [A]_gvars
  <2> SUFFICES ASSUME FetchInv, G!Next, request' = "begun", request # "begun"
               PROVE  requests = 0 /\ permit'
    BY PageMoves
  <2>1. G!Render
    BY DEF G!Next, G!Succeeds, G!Fails, G!ReporterSettles, G!Unmount
  <2>2. permit'
    BY <2>1 DEF G!Render, G!Forgets, FetchInv
  <2> QED
    BY <2>2 DEF FetchInv
<1>4. [][A]_gvars => NoRetryByScroll
  BY DEF NoRetryByScroll, G!NoRetryByScroll, G!vars, gvars
<1> QED
  BY <1>1, <1>2, <1>3, <1>4, PTL DEF PageSpec

-------------------------------------------------------------------------------
(* Media queries.                                                          *)

\* While somebody listens, what the store tells is what its queries say or a media
\* event is on its way, and the queries are for the font size or a rebuild is.
MediaInv ==
  /\ width \in Widths /\ em \in Ems /\ queries \in Ems \cup {M!NoQueries}
  /\ observing \in BOOLEAN /\ (observing <=> listeners # {})
  /\ queries # M!NoQueries <=> observing
  /\ listeners = {} => events = {} /\ ~rebuildTimer
  /\ listeners # {} =>
       /\ "media" \in events \/ snapshot = M!Matches(width, queries)
       /\ "em" \in events \/ rebuildTimer \/ ~M!Differs(em, queries)

LEMMA SameFontSize == \A e \in Ems : e \in Nat /\ e # M!NoQueries /\ ~M!Differs(e, e)
BY PageAssumption DEF M!NoQueries, M!Differs

LEMMA MediaStep == MediaInv /\ [M!Next]_mvars => MediaInv'
<1> SUFFICES ASSUME MediaInv, [M!Next]_mvars PROVE MediaInv'
  OBVIOUS
<1> USE SameFontSize DEF MediaInv
<1>1. ASSUME NEW c \in Components, M!Subscribe(c) PROVE MediaInv'
  BY <1>1 DEF M!Subscribe, M!Rebuild
<1>2. ASSUME NEW c \in Components, M!Unsubscribe(c) PROVE MediaInv'
  BY <1>2 DEF M!Unsubscribe, M!Cleaned
<1>3. CASE M!MediaEvent
  BY <1>3 DEF M!MediaEvent
<1>4. CASE M!EmEvent
  BY <1>4 DEF M!EmEvent
<1>5. CASE M!TimerFires
  BY <1>5 DEF M!TimerFires, M!Rebuild
<1>6. CASE M!Change
  BY <1>6 DEF M!Change
<1>7. CASE UNCHANGED mvars
  BY <1>7 DEF mvars
<1> QED
  BY <1>1, <1>2, <1>3, <1>4, <1>5, <1>6, <1>7 DEF M!Next

-------------------------------------------------------------------------------
(* Files.                                                                  *)

\* The listener is on the signal while the reader reads, and the handlers are on the
\* image while it is decoded; data that has been read was not aborted before.
FileInv ==
  /\ listens \in BOOLEAN /\ image \in BOOLEAN /\ late \in BOOLEAN /\ aborted \in BOOLEAN
  /\ listens => reading = "reading"
  /\ image => reading = "decoding"
  /\ late => aborted /\ answer # "value"
  /\ reading = "reading" => ~aborted /\ (MaxAborts > 0 => listens)
  /\ reading = "read" => ~late
  /\ answer = "value" => reading = "settled"

LEMMA FileStep == FileInv /\ [R!Next]_rvars => FileInv'
<1> SUFFICES ASSUME FileInv, [R!Next]_rvars PROVE FileInv'
  OBVIOUS
<1> USE DEF FileInv, R!Settle
<1>1. CASE R!Call
  <2>1. R!Refusal # "value"
    BY DEF R!Refusal
  <2>2. /\ reading = "called" /\ UNCHANGED <<aborted, image, late>>
        /\ \/ reading' = "settled" /\ answer' # "value" /\ listens' = FALSE
           \/ reading' = "reading" /\ answer' = answer /\ listens' = (MaxAborts > 0) /\ ~aborted
    BY <1>1, <2>1 DEF R!Call
  <2>3. listens' \in BOOLEAN /\ (listens' => reading' = "reading")
        /\ (reading' = "reading" /\ MaxAborts > 0 => listens')
    <3>1. CASE reading' = "settled" /\ listens' = FALSE
      BY <3>1
    <3>2. CASE reading' = "reading" /\ listens' = (MaxAborts > 0)
      <4>1. CASE MaxAborts > 0
        BY <3>2, <4>1
      <4>2. CASE ~(MaxAborts > 0)
        BY <3>2, <4>2
      <4> QED
        BY <4>1, <4>2
    <3> QED
      BY <2>2, <3>1, <3>2
  <2> QED
    BY <2>2, <2>3
<1>2. CASE R!Load \/ R!ReaderFails
  <2>1. /\ reading = "reading" /\ listens' = FALSE /\ UNCHANGED <<aborted, image, late>>
        /\ \/ reading' = "read" /\ answer' = answer
           \/ reading' = "settled" /\ answer' = "failed"
    BY <1>2 DEF R!Load, R!ReaderFails, R!Detached
  <2>2. listens' \in BOOLEAN /\ ~listens'
    BY <2>1, Zenon
  <2> QED
    BY <2>1, <2>2
<1>3. CASE R!Resume
  BY <1>3 DEF R!Resume
<1>4. CASE R!Decode
  BY <1>4 DEF R!Decode
<1>5. CASE R!ResumeDecoded
  BY <1>5 DEF R!ResumeDecoded, R!DecodedAnswer
<1>6. CASE R!Abort
  <2>1. /\ MaxAborts > 0 /\ aborted' = TRUE /\ image' = image
        /\ late' = (reading \in {"called", "reading", "decoding"})
        /\ IF listens THEN listens' = FALSE /\ reading' = "settled" /\ answer' = "aborted"
           ELSE UNCHANGED <<listens, reading, answer>>
    BY <1>6 DEF R!Abort
  <2>2. late' \in BOOLEAN /\ (late' => reading \in {"called", "reading", "decoding"})
    BY <2>1
  <2> QED
    BY <2>1, <2>2
<1>7. CASE UNCHANGED rvars
  BY <1>7 DEF rvars
<1> QED
  BY <1>1, <1>2, <1>3, <1>4, <1>5, <1>6, <1>7 DEF R!Next

-------------------------------------------------------------------------------
(* Notifications of the system.                                            *)

\* An event waits only after the delivery; an error event is the only event of its
\* notification, and who was told has no more to hear, or is released.
Unheard(p) ==
  /\ p \in unshown \/ clicks[p] > 0 \/ told[p] # <<>> => delivery[p] = "done"
  /\ p \in unshown => p \notin screen /\ clicks[p] = 0
  /\ told[p] # <<>> => p \in released \/ (p \notin screen /\ p \notin unshown /\ clicks[p] = 0)

\* Where a publication is that is on the screen, or on its way to it.
OnItsWay(p) ==
  /\ p \in screen => delivery[p] \in {"listing", "done"}
  /\ delivery[p] \in {"showing", "listing"} => worker
  /\ delivery[p] \in {"registration", "showing", "listing"} \/ p \in screen
       => p \in releases \cup released
  /\ p \in screen \ unlisted /\ delivery[p] = "done" => p \in handles /\ P!Wanted(p)

\* What is on its way to the screen or on it can be released, what is delivered and on
\* the screen is wanted and can be closed, and only who may be told still hears.
PresenterInv ==
  /\ delivery \in [Publications -> P!Stages]
  /\ clicks \in [Publications -> Nat]
  /\ told \in [Publications -> Seq({"error", "open"})]
  /\ released \subseteq Publications /\ releases \subseteq Publications
  /\ screen \subseteq Publications /\ unshown \subseteq Publications
  /\ worker \in BOOLEAN /\ disposed \in BOOLEAN
  /\ \A p \in Publications : OnItsWay(p) /\ Unheard(p)

\* What the step of the presenter tells, it tells for the first time and of what is wanted.
FirstAndWanted == \A p \in Publications : told'[p] # told[p] => P!Wanted(p) /\ told[p] = <<>>

LEMMA PresenterStep == PresenterInv /\ [P!Next]_pvars => PresenterInv' /\ [FirstAndWanted]_pvars
<1> SUFFICES ASSUME PresenterInv, [P!Next]_pvars PROVE PresenterInv' /\ FirstAndWanted
  OBVIOUS
<1> USE DEF PresenterInv, P!Wanted, OnItsWay, Unheard, FirstAndWanted
<1>a. ASSUME NEW p \in Publications, NEW what \in {"error", "open"}
      PROVE  Append(told[p], what) \in Seq({"error", "open"})
  OBVIOUS
<1>1. ASSUME NEW p \in Publications, P!Show(p) PROVE PresenterInv' /\ FirstAndWanted
  BY <1>1 DEF P!Show, P!Stages, P!events
<1>2. ASSUME NEW p \in Publications, P!Release(p) PROVE PresenterInv' /\ FirstAndWanted
  BY <1>2 DEF P!Release, P!Released, P!events
<1>f. ASSUME NEW p \in Publications, P!Failed(p), UNCHANGED <<worker, disposed, clicks, unshown, handles>>,
             delivery[p] \in {"registration", "showing", "listing"},
             unlisted' = IF delivery[p] = "listing" THEN unlisted \cup {p} ELSE unlisted
      PROVE  PresenterInv' /\ FirstAndWanted
  <2>1. /\ delivery' = [delivery EXCEPT ![p] = "done"]
        /\ released' = released \cup {p} /\ releases' = releases \ {p}
        /\ screen' = screen \ (({p} \ released) \cap handles)
    BY <1>f DEF P!Failed, P!To, P!Released
  <2>2. told' = told \/ (P!Wanted(p) /\ told' = [told EXCEPT ![p] = Append(@, "error")])
    BY <1>f DEF P!Failed, P!Tells, P!Tell
  <2>3. told[p] = <<>> /\ clicks[p] = 0 /\ p \notin unshown
    BY <1>f
  <2>4. told' \in [Publications -> Seq({"error", "open"})] /\ delivery' \in [Publications -> P!Stages]
    BY <1>a, <2>1, <2>2 DEF P!Stages
  <2>5. \A q \in Publications : q # p => told'[q] = told[q] /\ delivery'[q] = delivery[q]
    BY <2>1, <2>2
  <2>6. delivery'[p] = "done" /\ p \in released'
    BY <2>1
  <2>7. FirstAndWanted
    BY <2>2, <2>3, <2>5
  <2>8. ASSUME NEW q \in Publications PROVE OnItsWay(q)'
    <3>1. CASE q = p
      BY <1>f, <2>1, <2>6, <3>1
    <3>2. CASE q # p
      BY <1>f, <2>1, <2>5, <3>2
    <3> QED
      BY <3>1, <3>2
  <2>9. ASSUME NEW q \in Publications PROVE Unheard(q)'
    <3>1. CASE q = p
      BY <1>f, <2>1, <2>3, <2>6, <3>1
    <3>2. CASE q # p
      BY <1>f, <2>1, <2>5, <3>2
    <3> QED
      BY <3>1, <3>2
  <2> QED
    BY <1>f, <2>1, <2>4, <2>7, <2>8, <2>9
<1>3. ASSUME NEW p \in Publications, P!Registration(p) PROVE PresenterInv' /\ FirstAndWanted
  <2>1. CASE P!Failed(p) /\ UNCHANGED <<handles, unshown>>
    BY <1>3, <2>1, <1>f DEF P!Registration
  <2>2. CASE /\ P!To(p, "done")
             /\ UNCHANGED <<released, releases, handles, screen, unshown, told>>
             /\ ~P!Wanted(p) \/ ~granted
    BY <1>3, <2>2 DEF P!Registration, P!To, P!Stages
  <2>3. CASE worker /\ P!To(p, "showing") /\ UNCHANGED <<released, releases, handles, screen, unshown, told>>
    BY <1>3, <2>3 DEF P!Registration, P!To, P!Stages
  <2>4. CASE /\ P!Wanted(p) /\ UNCHANGED <<released, releases, told>>
             /\ ~worker /\ P!To(p, "done") /\ handles' = handles \cup {p}
             /\ \/ screen' = {p} /\ unshown' = unshown
                \/ screen' = screen /\ unshown' = unshown \cup {p}
    <3>1. /\ delivery' = [delivery EXCEPT ![p] = "done"] /\ delivery' \in [Publications -> P!Stages]
          /\ UNCHANGED <<worker, disposed, clicks, unlisted>>
      BY <1>3, <2>4 DEF P!To, P!Registration, P!Stages
    <3>2. /\ told[p] = <<>> /\ clicks[p] = 0 /\ p \notin unshown /\ p \notin screen
          /\ p \in releases \cup released
      <4>1. delivery[p] = "registration"
        BY <1>3 DEF P!Registration
      <4> QED
        BY <4>1
    <3>3. \A q \in Publications : q # p => delivery'[q] = delivery[q]
      BY <3>1
    <3>4. delivery'[p] = "done"
      BY <3>1
    <3>5. ASSUME NEW q \in Publications PROVE OnItsWay(q)'
      <4>1. p \in releases \cup released
        BY <3>2
      <4>2. CASE q = p
        BY <2>4, <3>1, <3>4, <4>1, <4>2
      <4>3. CASE q # p
        BY <2>4, <3>1, <3>3, <4>3
      <4> QED
        BY <4>2, <4>3
    <3>6. ASSUME NEW q \in Publications PROVE Unheard(q)'
      <4>1. CASE q = p
        BY <2>4, <3>1, <3>2, <3>4, <4>1
      <4>2. CASE q # p
        BY <2>4, <3>1, <3>2, <3>3, <4>2
      <4> QED
        BY <4>1, <4>2
    <3> QED
      BY <2>4, <3>1, <3>5, <3>6
  <2>5. \/ P!Failed(p) /\ UNCHANGED <<handles, unshown>>
        \/ /\ P!To(p, "done") /\ UNCHANGED <<released, releases, handles, screen, unshown, told>>
           /\ ~P!Wanted(p) \/ ~granted
        \/ worker /\ P!To(p, "showing") /\ UNCHANGED <<released, releases, handles, screen, unshown, told>>
        \/ /\ P!Wanted(p) /\ UNCHANGED <<released, releases, told>>
           /\ ~worker /\ P!To(p, "done") /\ handles' = handles \cup {p}
           /\ \/ screen' = {p} /\ unshown' = unshown
              \/ screen' = screen /\ unshown' = unshown \cup {p}
    BY <1>3 DEF P!Registration
  <2> QED
    BY <2>1, <2>2, <2>3, <2>4, <2>5
<1>4. ASSUME NEW p \in Publications, P!Showing(p) PROVE PresenterInv' /\ FirstAndWanted
  <2>1. CASE P!Failed(p)
    BY <1>4, <2>1, <1>f DEF P!Showing, P!events
  <2>2. CASE ~P!Failed(p)
    BY <1>4, <2>2 DEF P!Showing, P!To, P!Stages, P!events
  <2> QED
    BY <2>1, <2>2
<1>5. ASSUME NEW p \in Publications, P!Listing(p) PROVE PresenterInv' /\ FirstAndWanted
  <2>1. CASE P!Failed(p) /\ unlisted' = unlisted \cup {p} /\ UNCHANGED handles
    BY <1>5, <2>1, <1>f DEF P!Listing, P!events
  <2>2. CASE ~(P!Failed(p) /\ unlisted' = unlisted \cup {p} /\ UNCHANGED handles)
    BY <1>5, <2>2 DEF P!Listing, P!To, P!Stages, P!ClosesLate, P!events
  <2> QED
    BY <2>1, <2>2
<1>6. ASSUME NEW p \in Publications, P!Click(p) PROVE PresenterInv' /\ FirstAndWanted
  BY <1>6 DEF P!Click
<1>7. ASSUME NEW p \in Publications, P!Clicked(p) PROVE PresenterInv' /\ FirstAndWanted
  <2>1. CASE P!Tells(p)
    <3>1. /\ released' = released \cup {p} /\ releases' = releases \ {p}
          /\ screen' = screen \ (({p} \ released) \cap handles)
          /\ told' = [told EXCEPT ![p] = Append(@, "open")]
          /\ clicks[p] > 0 /\ clicks' = [clicks EXCEPT ![p] = @ - 1]
          /\ UNCHANGED <<worker, disposed, delivery, handles, unshown, unlisted>>
      BY <1>7, <2>1 DEF P!Clicked, P!Tell, P!Released
    <3>2. told' \in [Publications -> Seq({"error", "open"})]
      BY <1>a, <3>1
    <3>3. clicks' \in [Publications -> Nat]
      BY <3>1
    <3>4. \A q \in Publications : q # p => told'[q] = told[q] /\ clicks'[q] = clicks[q]
      BY <3>1
    <3>5. P!Wanted(p) /\ told[p] = <<>> /\ delivery[p] = "done" /\ p \notin unshown /\ p \in released'
      BY <2>1, <3>1 DEF P!Tells
    <3>6. FirstAndWanted
      BY <3>4, <3>5
    <3>7. \A q \in Publications : OnItsWay(q)'
      BY <3>1
    <3>8. ASSUME NEW q \in Publications PROVE Unheard(q)'
      <4>1. CASE q = p
        BY <3>1, <3>5, <4>1
      <4>2. CASE q # p
        BY <3>1, <3>4, <4>2
      <4> QED
        BY <4>1, <4>2
    <3> QED
      BY <3>1, <3>2, <3>3, <3>6, <3>7, <3>8
  <2>2. CASE ~P!Tells(p)
    BY <1>7, <2>2 DEF P!Clicked
  <2> QED
    BY <2>1, <2>2
<1>8. ASSUME NEW p \in Publications, P!NotShown(p) PROVE PresenterInv' /\ FirstAndWanted
  BY <1>8, <1>a DEF P!NotShown, P!Tells, P!Tell
<1>9. CASE P!Dispose
  <2>1. /\ disposed' = TRUE /\ released' = released \cup releases
        /\ screen' = screen \ ((releases \ released) \cap handles)
        /\ UNCHANGED <<worker, delivery, handles, clicks, unshown, told, unlisted>>
    BY <1>9 DEF P!Dispose, P!Released, P!events
  <2>2. releases' = releases \ releases
    BY <1>9 DEF P!Dispose, P!Released
  <2>3. ASSUME NEW p \in Publications, p \in screen' \ unlisted, delivery[p] = "done" PROVE FALSE
    <3>1. p \in screen \ unlisted /\ p \in handles /\ p \notin released
      BY <2>1, <2>3
    <3>2. p \in releases
      BY <3>1
    <3> QED
      BY <2>1, <2>3, <3>1, <3>2
  <2> QED
    BY <2>1, <2>2, <2>3
<1>10. CASE P!CloseByHand \/ P!Revoke
  BY <1>10 DEF P!CloseByHand, P!Revoke, P!events
<1>11. CASE UNCHANGED pvars
  BY <1>11 DEF pvars
<1> QED
  BY <1>1, <1>2, <1>3, <1>4, <1>5, <1>6, <1>7, <1>8, <1>9, <1>10, <1>11 DEF P!Next

\* Released and settled parts of a page leave nothing behind: no query, observer, timer
\* or listener, no notification on the screen and no call of its owner; and until then
\* the breakpoint that is told is current.
THEOREM NothingIsLeftHolds == PageSpec => NothingIsLeft
<1> DEFINE Inv == MediaInv /\ FileInv /\ PresenterInv
<1>1. PageInit => Inv
  <2>1. M!Init => MediaInv
    BY SameFontSize DEF M!Init, MediaInv
  <2>2. R!Init => FileInv
    <3>1. R!Init => aborted \in BOOLEAN /\ late = aborted
      <4>1. R!Init => aborted \in (IF MaxAborts = 0 THEN {FALSE} ELSE BOOLEAN) /\ late = aborted
        BY DEF R!Init
      <4> QED
        BY <4>1
    <3>2. R!Init => listens \in BOOLEAN /\ ~listens /\ image \in BOOLEAN /\ ~image
      BY Zenon DEF R!Init
    <3>3. R!Init => reading = "called" /\ answer = "none"
      BY DEF R!Init
    <3> QED
      BY <3>1, <3>2, <3>3 DEF FileInv
  <2>3. P!Init => PresenterInv
    <3> SUFFICES ASSUME P!Init PROVE PresenterInv
      OBVIOUS
    <3>1. /\ delivery = [p \in Publications |-> "idle"] /\ clicks = [p \in Publications |-> 0]
          /\ told = [p \in Publications |-> <<>>]
          /\ released = {} /\ releases = {} /\ screen = {} /\ unshown = {}
      BY DEF P!Init
    <3>2. worker \in BOOLEAN /\ disposed \in BOOLEAN
      BY Zenon DEF P!Init
    <3>3. \A p \in Publications : OnItsWay(p) /\ Unheard(p)
      BY <3>1 DEF OnItsWay, Unheard
    <3> QED
      BY <3>1, <3>2, <3>3 DEF PresenterInv, P!Stages
  <2> QED
    BY <2>1, <2>2, <2>3, PageStarts
<1>2. Inv /\ [PageNext]_allVars => Inv'
  BY PageMoves, MediaStep, FileStep, PresenterStep
<1>3. Inv => /\ M!StoreIsReleased /\ M!SnapshotIsCurrent
             /\ R!NothingListens /\ R!AbortedHasNoValue /\ P!ReleasedIsClosed
  BY SameFontSize DEF MediaInv, FileInv, PresenterInv, OnItsWay, M!StoreIsReleased, M!SnapshotIsCurrent,
         R!NothingListens, R!AbortedHasNoValue, P!ReleasedIsClosed
<1>4. Inv /\ [PageNext]_allVars => [FirstAndWanted]_pvars
  BY PageMoves, PresenterStep
<1>5. [][FirstAndWanted]_pvars => P!ReleasedIsSilent
  BY DEF P!ReleasedIsSilent, FirstAndWanted, P!vars, pvars
<1>6. [](/\ M!StoreIsReleased /\ M!SnapshotIsCurrent
         /\ R!NothingListens /\ R!AbortedHasNoValue
         /\ P!ReleasedIsClosed) /\ P!ReleasedIsSilent
      => NothingIsLeft
  BY DEF NothingIsLeft
<1> QED
  BY <1>1, <1>2, <1>3, <1>4, <1>5, <1>6, PTL DEF PageSpec

-------------------------------------------------------------------------------
(* Toasts: the sequences by their elements.                                *)

\* A set of natural numbers that is not empty has a least element.
LEMMA LeastNumber ==
  ASSUME NEW numbers \in SUBSET Nat, numbers # {}
  PROVE  \E n \in numbers : \A m \in numbers : n <= m
<1>1. PICK n \in numbers : \A m \in numbers : ~(<<m, n>> \in OpToRel(<, Nat))
  BY WFMin, NatLessThanWellFounded
<1>2. \A m \in numbers : ~(m < n) /\ m \in Nat /\ n \in Nat
  BY <1>1 DEF OpToRel
<1> QED
  BY <1>2

ElementsOf(s) == {s[i] : i \in DOMAIN s}

\* What a filter keeps of the first n elements of s, when it keeps the members of Wanted.
KeptOf(s, Wanted, kept, n) ==
  kept = [i \in 0 .. n |->
            IF i = 0 THEN <<>> ELSE IF s[i] \in Wanted THEN Append(kept[i - 1], s[i]) ELSE kept[i - 1]]

LEMMA KeptExists ==
  ASSUME NEW s, NEW Wanted
  PROVE  \A n \in Nat : \E kept : KeptOf(s, Wanted, kept, n)
<1> DEFINE Bad == {n \in Nat : ~\E kept : KeptOf(s, Wanted, kept, n)}
<1> SUFFICES ASSUME Bad # {} PROVE FALSE
  OBVIOUS
<1>1. PICK n \in Bad : \A m \in Bad : n <= m
  <2>1. Bad \in SUBSET Nat /\ Bad # {}
    OBVIOUS
  <2> HIDE DEF Bad
  <2> QED
    BY <2>1, LeastNumber
<1>2. n \in Nat
  OBVIOUS
<1>3. CASE n = 0
  <2> DEFINE H == [i \in 0 .. 0 |-> <<>>]
  <2>1. KeptOf(s, Wanted, H, 0)
    BY DEF KeptOf
  <2> QED
    BY <1>3, <2>1
<1>4. CASE n > 0
  <2>1. n - 1 \in Nat /\ n - 1 \notin Bad
    BY <1>1, <1>2, <1>4
  <2>2. PICK k : KeptOf(s, Wanted, k, n - 1)
    BY <2>1
  <2> DEFINE H == [i \in 0 .. n |-> IF i = n THEN IF s[n] \in Wanted THEN Append(k[n - 1], s[n]) ELSE k[n - 1]
                                    ELSE k[i]]
  <2>3. \A i \in 0 .. (n - 1) : H[i] = k[i]
    BY <1>2
  <2>4. \A i \in 0 .. n : H[i] = IF i = 0 THEN <<>>
                        ELSE IF s[i] \in Wanted THEN Append(H[i - 1], s[i]) ELSE H[i - 1]
    <3> SUFFICES ASSUME NEW i \in 0 .. n
                 PROVE  H[i] = IF i = 0 THEN <<>>
                               ELSE IF s[i] \in Wanted THEN Append(H[i - 1], s[i]) ELSE H[i - 1]
      OBVIOUS
    <3>1. CASE i = n
      <4>1. H[i - 1] = k[n - 1]
        BY <1>2, <1>4, <2>3, <3>1
      <4> QED
        BY <1>4, <3>1, <4>1
    <3>2. CASE i # n
      <4>1. i \in 0 .. (n - 1) /\ H[i] = k[i]
        BY <1>2, <3>2
      <4>2. i # 0 => H[i - 1] = k[i - 1]
        BY <4>1, <2>3
      <4>3. k[i] = IF i = 0 THEN <<>> ELSE IF s[i] \in Wanted THEN Append(k[i - 1], s[i]) ELSE k[i - 1]
        BY <2>2, <4>1 DEF KeptOf
      <4> QED
        BY <4>1, <4>2, <4>3
    <3> QED
      BY <3>1, <3>2
  <2>5. H = [i \in 0 .. n |-> H[i]]
    OBVIOUS
  <2>6. KeptOf(s, Wanted, H, n)
    <3> HIDE DEF H
    <3> QED
      BY <2>4, <2>5 DEF KeptOf
  <2> QED
    BY <2>6
<1> QED
  BY <1>2, <1>3, <1>4

LEMMA AppendKeeps ==
  ASSUME NEW A, NEW s \in Seq(A), NEW e \in A
  PROVE  Append(s, e) \in Seq(A) /\ ElementsOf(Append(s, e)) = ElementsOf(s) \cup {e}
<1>1. /\ Append(s, e) \in Seq(A) /\ Len(Append(s, e)) = Len(s) + 1 /\ Len(s) \in Nat
      /\ Append(s, e)[Len(s) + 1] = e /\ \A i \in 1 .. Len(s) : Append(s, e)[i] = s[i]
  OBVIOUS
<1>2. DOMAIN s = 1 .. Len(s) /\ DOMAIN Append(s, e) = (1 .. Len(s)) \cup {Len(s) + 1}
  BY <1>1
<1> QED
  BY <1>1, <1>2 DEF ElementsOf

\* A filter keeps exactly the members of Wanted.
LEMMA FilterKeeps ==
  ASSUME NEW A, NEW s \in Seq(A), NEW Wanted, NEW k, KeptOf(s, Wanted, k, Len(s))
  PROVE  k[Len(s)] \in Seq(A) /\ ElementsOf(k[Len(s)]) = ElementsOf(s) \cap Wanted
<1> DEFINE Beginning(n) == {s[j] : j \in {l \in 1 .. n : s[l] \in Wanted}}
           Right(n) == k[n] \in Seq(A) /\ ElementsOf(k[n]) = Beginning(n)
<1>1. Len(s) \in Nat /\ DOMAIN s = 1 .. Len(s)
  OBVIOUS
<1>4. \A n \in 0 .. Len(s) :
        k[n] = IF n = 0 THEN <<>> ELSE IF s[n] \in Wanted THEN Append(k[n - 1], s[n]) ELSE k[n - 1]
  BY DEF KeptOf
<1>5. Right(0)
  <2>1. k[0] = <<>> /\ <<>> \in Seq(A)
    BY <1>1, <1>4
  <2> QED
    BY <2>1 DEF ElementsOf
<1>6. ASSUME NEW n \in 1 .. Len(s), Right(n - 1) PROVE Right(n)
  <2>1. /\ n - 1 \in Nat /\ n \in Nat /\ 1 .. n = (1 .. (n - 1)) \cup {n} /\ s[n] \in A
        /\ n \in 0 .. Len(s) /\ n # 0
    BY <1>1
  <2>2. CASE s[n] \in Wanted
    <3>1. k[n] = Append(k[n - 1], s[n])
      BY <1>4, <2>1, <2>2
    <3>2. k[n] \in Seq(A) /\ ElementsOf(k[n]) = ElementsOf(k[n - 1]) \cup {s[n]}
      <4>1. k[n - 1] \in Seq(A)
        BY <1>6
      <4> QED
        BY <2>1, <3>1, <4>1, AppendKeeps
    <3>3. Beginning(n) = Beginning(n - 1) \cup {s[n]}
      BY <2>1, <2>2
    <3> QED
      BY <1>6, <3>2, <3>3
  <2>3. CASE s[n] \notin Wanted
    <3>1. k[n] = k[n - 1]
      BY <1>4, <2>1, <2>3
    <3>2. Beginning(n) = Beginning(n - 1)
      BY <2>1, <2>3
    <3> QED
      BY <1>6, <3>1, <3>2
  <2> QED
    BY <2>2, <2>3
<1>7. \A n \in 0 .. Len(s) : Right(n)
  <2> DEFINE Bad == {n \in 0 .. Len(s) : ~Right(n)}
  <2> SUFFICES ASSUME Bad # {} PROVE FALSE
    OBVIOUS
  <2>1. Bad \in SUBSET Nat
    BY <1>1
  <2>2. PICK n \in Bad : \A m \in Bad : n <= m
    <3> HIDE DEF Bad
    <3> QED
      BY <2>1, LeastNumber
  <2>3. n \in 1 .. Len(s)
    <3>1. n \in 0 .. Len(s) /\ ~Right(n)
      BY <2>2
    <3> HIDE DEF Right
    <3>2. n # 0
      BY <1>5, <3>1
    <3> QED
      BY <1>1, <3>1, <3>2
  <2>4. n - 1 \in 0 .. Len(s) /\ n - 1 \notin Bad
    <3>1. n \in Nat /\ n - 1 \in 0 .. Len(s) /\ ~(n <= n - 1)
      BY <1>1, <2>3
    <3> HIDE DEF Bad
    <3> QED
      BY <2>2, <3>1
  <2> HIDE DEF Right
  <2> QED
    BY <1>6, <2>3, <2>4
<1>8. Beginning(Len(s)) = ElementsOf(s) \cap Wanted
  BY <1>1 DEF ElementsOf
<1>9. Right(Len(s))
  <2> HIDE DEF Right
  <2> QED
    BY <1>1, <1>7
<1> QED
  BY <1>8, <1>9

\* Drop keeps exactly the elements with another id.
LEMMA DropKeeps ==
  ASSUME NEW A, NEW s \in Seq(A), NEW id
  PROVE  /\ N!Drop(s, id) \in Seq(A)
         /\ ElementsOf(N!Drop(s, id)) = {e \in ElementsOf(s) : e.id # id}
<1> DEFINE Wanted == {e \in A : e.id # id}
           Body(kept, i) == IF i = 0 THEN <<>>
                            ELSE IF s[i].id # id THEN Append(kept[i - 1], s[i]) ELSE kept[i - 1]
           k == CHOOSE kept : kept = [i \in 0 .. Len(s) |-> Body(kept, i)]
<1>1. Len(s) \in Nat /\ DOMAIN s = 1 .. Len(s) /\ \A i \in 1 .. Len(s) : s[i] \in A
  OBVIOUS
<1>2. \A kept : KeptOf(s, Wanted, kept, Len(s)) <=> kept = [i \in 0 .. Len(s) |-> Body(kept, i)]
  <2>1. ASSUME NEW i \in 0 .. Len(s), i # 0 PROVE s[i] \in Wanted <=> s[i].id # id
    BY <1>1, <2>1
  <2> HIDE DEF Wanted
  <2> QED
    BY <2>1 DEF KeptOf
<1>3. \E kept : KeptOf(s, Wanted, kept, Len(s))
  <2> HIDE DEF Wanted
  <2> QED
    BY <1>1, KeptExists
<1>4. KeptOf(s, Wanted, k, Len(s))
  <2> HIDE DEF Wanted, Body
  <2> QED
    BY <1>2, <1>3
<1>5. N!Drop(s, id) = k[Len(s)]
  BY DEF N!Drop
<1> HIDE DEF k, Wanted
<1>6. k[Len(s)] \in Seq(A) /\ ElementsOf(k[Len(s)]) = ElementsOf(s) \cap Wanted
  BY <1>4, FilterKeeps
<1>7. ElementsOf(s) \cap Wanted = {e \in ElementsOf(s) : e.id # id}
  BY <1>1 DEF ElementsOf, Wanted
<1> QED
  BY <1>5, <1>6, <1>7

LEMMA ReplaceKeeps ==
  ASSUME NEW A, NEW s \in Seq(A), NEW n \in A
  PROVE  /\ N!Replace(s, n) \in Seq(A)
         /\ ElementsOf(N!Replace(s, n)) = {IF e.id = n.id THEN n ELSE e : e \in ElementsOf(s)}
BY DEF N!Replace, ElementsOf

LEMMA PrependKeeps ==
  ASSUME NEW A, NEW s \in Seq(A), NEW n \in A
  PROVE  /\ <<n>> \o s \in Seq(A) /\ Len(<<n>> \o s) = Len(s) + 1 /\ (<<n>> \o s)[1] = n
         /\ ElementsOf(<<n>> \o s) = {n} \cup ElementsOf(s)
<1> DEFINE t == <<n>> \o s
<1>1. <<n>> \in Seq(A) /\ t \in Seq(A) /\ Len(t) = Len(s) + 1 /\ t[1] = n /\ Len(s) \in Nat
  OBVIOUS
<1>2. \A i \in 1 .. Len(s) : t[i + 1] = s[i]
  OBVIOUS
<1>3. \A i \in 2 .. Len(t) : i - 1 \in 1 .. Len(s) /\ t[i] = s[i - 1]
  OBVIOUS
<1> HIDE DEF t
<1>4. ElementsOf(t) = {n} \cup ElementsOf(s)
  <2>1. DOMAIN t = 1 .. Len(t) /\ DOMAIN s = 1 .. Len(s)
    BY <1>1
  <2>2. ASSUME NEW e \in ElementsOf(t) PROVE e \in {n} \cup ElementsOf(s)
    BY <1>1, <1>3, <2>1 DEF ElementsOf
  <2>3. n \in ElementsOf(t)
    BY <1>1, <2>1 DEF ElementsOf
  <2>4. ASSUME NEW i \in 1 .. Len(s) PROVE s[i] \in ElementsOf(t)
    <3>1. i + 1 \in 1 .. Len(t) /\ t[i + 1] = s[i]
      BY <1>1, <1>2
    <3> QED
      BY <2>1, <3>1 DEF ElementsOf
  <2> QED
    BY <2>1, <2>2, <2>3, <2>4 DEF ElementsOf
<1> QED
  BY <1>1, <1>4 DEF t

LEMMA BeginningKeeps ==
  ASSUME NEW A, NEW s \in Seq(A), NEW n \in 1 .. Len(s)
  PROVE  /\ SubSeq(s, 1, n) \in Seq(A)
         /\ ElementsOf(SubSeq(s, 1, n)) \subseteq ElementsOf(s) /\ s[1] \in ElementsOf(SubSeq(s, 1, n))
<1>1. SubSeq(s, 1, n) \in Seq(A) /\ DOMAIN SubSeq(s, 1, n) = 1 .. n /\ \A i \in 1 .. n : SubSeq(s, 1, n)[i] = s[i]
  OBVIOUS
<1>2. 1 \in 1 .. n /\ 1 .. n \subseteq DOMAIN s
  OBVIOUS
<1> QED
  BY <1>1, <1>2 DEF ElementsOf

-------------------------------------------------------------------------------
(* Toasts: the invariant through every action.                             *)

UniqueIds(elements) == \A a, b \in elements : a.id = b.id => a = b

ToastInv ==
  /\ items \in Seq(N!Notification) /\ UniqueIds(ElementsOf(items))
  /\ toastHistory \in Seq(N!Notification) /\ UniqueIds(ElementsOf(toastHistory))
  /\ pushes \in Nat
  /\ N!TimerPerToast /\ N!HistoryAgrees /\ N!ErasedStaysOut

\* The properties by the elements of the two sequences.
LEMMA ToastsByElements ==
  /\ N!IdsOf(items) = {n.id : n \in ElementsOf(items)}
  /\ N!IdsOf(toastHistory) = {n.id : n \in ElementsOf(toastHistory)}
  /\ N!Toasts = ElementsOf(items) /\ N!Records = ElementsOf(toastHistory)
BY DEF N!IdsOf, N!Toasts, N!Records, ElementsOf

\* A toast that closes itself has a timer.
Closing(elements) == {n.id : n \in {m \in elements : N!Lifetime(m.ttl) > 0}}

LEMMA DismissedKeeps ==
  ASSUME ToastInv, NEW id \in Ids, N!Dismissed(id), UNCHANGED <<toastHistory, pushes, erased>>
  PROVE  ToastInv'
<1>1. items' \in Seq(N!Notification) /\ ElementsOf(items') = {e \in ElementsOf(items) : e.id # id}
  BY DropKeeps DEF ToastInv, N!Dismissed
<1>2. DOMAIN timers = Closing(ElementsOf(items)) /\ DOMAIN timers' = DOMAIN timers \ {id}
  BY ToastsByElements DEF ToastInv, N!TimerPerToast, Closing, N!Dismissed, N!Cleared
<1>3. N!TimerPerToast'
  <2>1. N!Toasts' = ElementsOf(items')
    BY DEF N!Toasts, ElementsOf
  <2>2. DOMAIN timers' = Closing(ElementsOf(items'))
    BY <1>1, <1>2 DEF Closing
  <2> QED
    BY <2>1, <2>2 DEF N!TimerPerToast, Closing
<1>4. N!HistoryAgrees'
  <2>1. N!Toasts' \subseteq N!Toasts /\ N!Records' = N!Records
    BY <1>1, ToastsByElements DEF N!Toasts, N!Records, ElementsOf
  <2> QED
    BY <2>1 DEF ToastInv, N!HistoryAgrees
<1>5. N!ErasedStaysOut'
  BY DEF ToastInv, N!ErasedStaysOut, N!IdsOf
<1> QED
  BY <1>1, <1>3, <1>4, <1>5 DEF ToastInv, UniqueIds

LEMMA IdsByElements == \A s : N!IdsOf(s) = {e.id : e \in ElementsOf(s)}
BY DEF N!IdsOf, ElementsOf

LEMMA ToastRule ==
  ASSUME items' \in Seq(N!Notification), UniqueIds(ElementsOf(items')),
         toastHistory' \in Seq(N!Notification), UniqueIds(ElementsOf(toastHistory')),
         pushes' \in Nat, DOMAIN timers' = Closing(ElementsOf(items')),
         \A n \in ElementsOf(items'), h \in ElementsOf(toastHistory') : n.id = h.id => n = h,
         \A h \in ElementsOf(toastHistory') : h.id \notin erased'
  PROVE  ToastInv'
<1>1. N!Toasts' = ElementsOf(items') /\ N!Records' = ElementsOf(toastHistory')
  BY DEF N!Toasts, N!Records, ElementsOf
<1>2. N!IdsOf(toastHistory') = {e.id : e \in ElementsOf(toastHistory')}
  BY IdsByElements
<1>3. N!TimerPerToast' /\ N!HistoryAgrees'
  BY <1>1 DEF N!TimerPerToast, N!HistoryAgrees, Closing
<1>4. N!ErasedStaysOut'
  BY <1>2 DEF N!ErasedStaysOut
<1> QED
  BY <1>3, <1>4 DEF ToastInv, UniqueIds

LEMMA ToastFacts ==
  ASSUME ToastInv
  PROVE  /\ DOMAIN timers = Closing(ElementsOf(items))
         /\ \A n \in ElementsOf(items), h \in ElementsOf(toastHistory) : n.id = h.id => n = h
         /\ \A h \in ElementsOf(toastHistory) : h.id \notin erased
         /\ ElementsOf(items) \subseteq N!Notification /\ ElementsOf(toastHistory) \subseteq N!Notification
<1>1. N!Toasts = ElementsOf(items) /\ N!Records = ElementsOf(toastHistory)
  BY ToastsByElements
<1>2. N!IdsOf(toastHistory) = {e.id : e \in ElementsOf(toastHistory)}
  BY IdsByElements
<1>3. \A h \in ElementsOf(toastHistory) : h.id \notin erased
  BY <1>2 DEF ToastInv, N!ErasedStaysOut
<1>4. ElementsOf(items) \subseteq N!Notification /\ ElementsOf(toastHistory) \subseteq N!Notification
  BY DEF ToastInv, ElementsOf
<1> QED
  BY <1>1, <1>3, <1>4 DEF ToastInv, N!TimerPerToast, N!HistoryAgrees, Closing

LEMMA PushKeeps ==
  ASSUME ToastInv, NEW id \in Ids, NEW ttl \in Ttls \cup {NoTtl}, NEW retain \in N!Retains,
         pushes' = pushes + 1, N!DoPush(id, ttl, retain)
  PROVE  ToastInv'
<1> DEFINE n == [id |-> id, text |-> pushes', ttl |-> ttl, retain |-> retain]
           stack == <<n>> \o N!Drop(items, id)
           limit == IF Len(stack) > MaxVisible THEN MaxVisible ELSE Len(stack)
           kept == SubSeq(stack, 1, limit)
           E == ElementsOf(items)
           H == ElementsOf(toastHistory)
<1>1. /\ items' = kept /\ toastHistory' = N!PushedHistory(n)
      /\ timers' = N!Armed(N!PushedOut(kept), id, ttl) /\ erased' = erased \ {id}
  BY DEF N!DoPush
<1>2. n \in N!Notification /\ pushes' \in Nat
  <2>1. pushes' \in Nat
    BY DEF ToastInv
  <2> QED
    BY <2>1 DEF N!Notification
<1>3. n.id = id /\ n.ttl = ttl /\ n.retain = retain
  OBVIOUS
<1> HIDE DEF n
<1>4. /\ N!Drop(items, id) \in Seq(N!Notification) /\ ElementsOf(N!Drop(items, id)) = {e \in E : e.id # id}
      /\ N!Drop(toastHistory, id) \in Seq(N!Notification)
      /\ ElementsOf(N!Drop(toastHistory, id)) = {e \in H : e.id # id}
  BY DropKeeps DEF ToastInv
<1>5. /\ stack \in Seq(N!Notification) /\ Len(stack) \in Nat /\ Len(stack) >= 1 /\ stack[1] = n
      /\ ElementsOf(stack) = {n} \cup {e \in E : e.id # id}
  <2>1. Len(N!Drop(items, id)) \in Nat
    BY <1>4
  <2> QED
    BY <1>2, <1>4, <2>1, PrependKeeps
<1> HIDE DEF stack
<1>6. limit \in 1 .. Len(stack)
  BY <1>5, PageAssumption
<1> HIDE DEF limit
<1>7. /\ kept \in Seq(N!Notification) /\ n \in ElementsOf(kept)
      /\ ElementsOf(kept) \subseteq {n} \cup {e \in E : e.id # id}
  BY <1>5, <1>6, BeginningKeeps
<1> HIDE DEF kept
<1>8. /\ toastHistory' \in Seq(N!Notification)
      /\ ElementsOf(toastHistory') = (IF retain # FALSE THEN {n} ELSE {}) \cup {e \in H : e.id # id}
  <2>1. N!PushedHistory(n) = IF retain # FALSE THEN <<n>> \o N!Drop(toastHistory, id) ELSE N!Drop(toastHistory, id)
    BY <1>3 DEF N!PushedHistory
  <2>2. CASE retain # FALSE
    BY <1>1, <1>2, <1>4, <2>1, <2>2, PrependKeeps
  <2>3. CASE retain = FALSE
    BY <1>1, <1>4, <2>1, <2>3
  <2> QED
    BY <2>2, <2>3
<1>9. DOMAIN timers' = Closing(ElementsOf(kept))
  <2> DEFINE gone == {e.id : e \in E} \ {e.id : e \in ElementsOf(kept)}
  <2>1. N!PushedOut(kept) = gone
    BY IdsByElements DEF N!PushedOut
  <2>2. DOMAIN timers' = (DOMAIN timers \ (gone \cup {id})) \cup (IF N!Lifetime(ttl) > 0 THEN {id} ELSE {})
    BY <1>1, <2>1 DEF N!Armed
  <2>3. DOMAIN timers = Closing(E)
    BY ToastFacts
  <2>4. ASSUME NEW x \in DOMAIN timers' PROVE x \in Closing(ElementsOf(kept))
    <3>1. CASE x = id
      <4>1. N!Lifetime(ttl) > 0
        BY <2>2, <2>4, <3>1
      <4> QED
        BY <1>3, <1>7, <3>1, <4>1 DEF Closing
    <3>2. CASE x # id
      <4>1. x \in Closing(E) /\ x \notin gone
        BY <2>2, <2>3, <2>4, <3>2
      <4>2. PICK m \in E : N!Lifetime(m.ttl) > 0 /\ m.id = x
        BY <4>1 DEF Closing
      <4>3. PICK k \in ElementsOf(kept) : k.id = x
        BY <4>1, <4>2
      <4>4. k = m
        BY <1>3, <1>7, <3>2, <4>2, <4>3 DEF ToastInv, UniqueIds
      <4> QED
        BY <4>2, <4>3, <4>4 DEF Closing
    <3> QED
      BY <3>1, <3>2
  <2>5. ASSUME NEW m \in ElementsOf(kept), N!Lifetime(m.ttl) > 0 PROVE m.id \in DOMAIN timers'
    <3>1. CASE m = n
      BY <1>3, <2>2, <2>5, <3>1
    <3>2. CASE m # n
      <4>1. m \in E /\ m.id # id /\ m.id \notin gone
        BY <1>7, <3>2
      <4>2. m.id \in Closing(E)
        BY <2>5, <4>1 DEF Closing
      <4> HIDE DEF gone
      <4> QED
        BY <2>2, <2>3, <4>1, <4>2
    <3> QED
      BY <3>1, <3>2
  <2> QED
    BY <2>4, <2>5 DEF Closing
<1>10. UniqueIds(ElementsOf(kept)) /\ UniqueIds(ElementsOf(toastHistory'))
  BY <1>3, <1>7, <1>8 DEF ToastInv, UniqueIds
<1>11. \A m \in ElementsOf(kept), h \in ElementsOf(toastHistory') : m.id = h.id => m = h
  BY <1>3, <1>7, <1>8, ToastFacts
<1>12. \A h \in ElementsOf(toastHistory') : h.id \notin erased'
  BY <1>1, <1>3, <1>8, ToastFacts
<1> QED
  BY <1>1, <1>2, <1>7, <1>8, <1>9, <1>10, <1>11, <1>12, ToastRule

LEMMA UpdateKeeps ==
  ASSUME ToastInv, NEW id \in N!IdsOf(items), NEW hasTtl \in BOOLEAN, NEW ttl \in Ttls \cup {NoTtl},
         NEW retain \in N!Retains, pushes' = pushes + 1, N!DoUpdate(id, hasTtl, ttl, retain)
  PROVE  ToastInv'
<1> DEFINE E == ElementsOf(items)
           H == ElementsOf(toastHistory)
           previous == items[CHOOSE i \in DOMAIN items : items[i].id = id]
           n == [id |-> id, text |-> pushes', ttl |-> IF hasTtl THEN ttl ELSE previous.ttl,
                 retain |-> IF retain # Absent THEN retain ELSE previous.retain]
<1>1. /\ items' = N!Replace(items, n) /\ toastHistory' = N!UpdatedHistory(n, retain)
      /\ timers' = N!Rearmed(id, hasTtl, ttl)
      /\ erased' = IF retain = TRUE THEN erased \ {id} ELSE erased
  BY DEF N!DoUpdate
<1>2. previous \in E /\ previous.id = id
  BY DEF N!IdsOf, ElementsOf
<1> HIDE DEF previous
<1>3. previous \in N!Notification /\ E \subseteq N!Notification /\ H \subseteq N!Notification
  BY <1>2, ToastFacts
<1>4. n \in N!Notification /\ pushes' \in Nat
  <2>1. pushes' \in Nat
    BY DEF ToastInv
  <2>2. id \in Ids /\ previous.ttl \in Ttls \cup {NoTtl, DefaultTtl} /\ previous.retain \in N!Retains
    BY <1>2, <1>3 DEF N!Notification
  <2> QED
    BY <2>1, <2>2 DEF N!Notification
<1>5. n.id = id /\ n.ttl = IF hasTtl THEN ttl ELSE previous.ttl
  OBVIOUS
<1> HIDE DEF n
<1>6. items' \in Seq(N!Notification) /\ ElementsOf(items') = {IF e.id = id THEN n ELSE e : e \in E}
  <2>1. /\ N!Replace(items, n) \in Seq(N!Notification)
        /\ ElementsOf(N!Replace(items, n)) = {IF e.id = n.id THEN n ELSE e : e \in E}
    BY <1>4, ReplaceKeeps DEF ToastInv
  <2> QED
    BY <1>1, <1>5, <2>1
<1>7. E \subseteq {e \in E : e.id # id} \cup {previous}
  BY <1>2 DEF ToastInv, UniqueIds
<1>8. ElementsOf(items') = {n} \cup {e \in E : e.id # id}
  BY <1>2, <1>6
<1>9. /\ toastHistory' \in Seq(N!Notification)
      /\ \/ ElementsOf(toastHistory') = {e \in H : e.id # id}
         \/ /\ ElementsOf(toastHistory') = {n} \cup {e \in H : e.id # id}
            /\ retain = TRUE \/ \E h \in H : h.id = id
  <2>4. toastHistory' = IF n.retain = FALSE THEN N!Drop(toastHistory, id)
                        ELSE IF id \in N!IdsOf(toastHistory) THEN N!Replace(toastHistory, n)
                        ELSE IF retain = TRUE THEN <<n>> \o toastHistory ELSE toastHistory
    BY <1>1, <1>5 DEF N!UpdatedHistory
  <2>1. CASE n.retain = FALSE
    <3>1. N!Drop(toastHistory, id) \in Seq(N!Notification)
          /\ ElementsOf(N!Drop(toastHistory, id)) = {e \in H : e.id # id}
      BY DropKeeps DEF ToastInv
    <3> QED
      BY <2>1, <2>4, <3>1
  <2>2. CASE n.retain # FALSE /\ id \in N!IdsOf(toastHistory)
    <3>1. toastHistory' = N!Replace(toastHistory, n)
      BY <2>2, <2>4
    <3>2. PICK h \in H : h.id = id
      BY <2>2, IdsByElements
    <3>3. toastHistory' \in Seq(N!Notification) /\ ElementsOf(toastHistory') = {IF e.id = id THEN n ELSE e : e \in H}
      <4>1. /\ N!Replace(toastHistory, n) \in Seq(N!Notification)
            /\ ElementsOf(N!Replace(toastHistory, n)) = {IF e.id = n.id THEN n ELSE e : e \in H}
        BY <1>4, ReplaceKeeps DEF ToastInv
      <4> QED
        BY <1>5, <3>1, <4>1
    <3> QED
      BY <3>2, <3>3
  <2>3. CASE n.retain # FALSE /\ id \notin N!IdsOf(toastHistory)
    <3>1. toastHistory' = IF retain = TRUE THEN <<n>> \o toastHistory ELSE toastHistory
      BY <2>3, <2>4
    <3>2. H = {e \in H : e.id # id}
      BY <2>3, IdsByElements
    <3>3. CASE retain = TRUE
      <4>1. toastHistory' \in Seq(N!Notification) /\ ElementsOf(toastHistory') = {n} \cup H
        BY <1>4, <3>1, <3>3, PrependKeeps DEF ToastInv
      <4> QED
        BY <3>2, <3>3, <4>1
    <3>4. CASE retain # TRUE
      BY <3>1, <3>2, <3>4 DEF ToastInv
    <3> QED
      BY <3>3, <3>4
  <2> QED
    BY <2>1, <2>2, <2>3
<1>10. DOMAIN timers' = Closing(ElementsOf(items'))
  <2>1. DOMAIN timers = Closing(E)
    BY ToastFacts
  <2>2. CASE hasTtl
    <3>1. DOMAIN timers' = (DOMAIN timers \ {id}) \cup (IF N!Lifetime(ttl) > 0 THEN {id} ELSE {})
      BY <1>1, <2>2 DEF N!Rearmed, N!Armed
    <3> QED
      BY <1>5, <1>8, <2>1, <2>2, <3>1 DEF Closing
  <2>3. CASE ~hasTtl
    <3>1. timers' = timers /\ n.ttl = previous.ttl
      BY <1>1, <1>5, <2>3 DEF N!Rearmed
    <3> QED
      BY <1>2, <1>5, <1>7, <1>8, <2>1, <3>1 DEF Closing
  <2> QED
    BY <2>2, <2>3
<1>11. UniqueIds(ElementsOf(items')) /\ UniqueIds(ElementsOf(toastHistory'))
  BY <1>5, <1>8, <1>9 DEF ToastInv, UniqueIds
<1>12. \A m \in ElementsOf(items'), h \in ElementsOf(toastHistory') : m.id = h.id => m = h
  BY <1>5, <1>8, <1>9, ToastFacts
<1>13. \A h \in ElementsOf(toastHistory') : h.id \notin erased'
  BY <1>1, <1>5, <1>9, ToastFacts
<1> QED
  BY <1>4, <1>6, <1>9, <1>10, <1>11, <1>12, <1>13, ToastRule

LEMMA ToastStep == ToastInv /\ [N!Next]_nvars => ToastInv'
<1> SUFFICES ASSUME ToastInv, [N!Next]_nvars PROVE ToastInv'
  OBVIOUS
<1>1. NoTtl \in Ttls \cup {NoTtl} /\ Absent \in N!Retains /\ Ttls \subseteq Ttls \cup {NoTtl}
  BY DEF N!Retains
<1>2. ASSUME NEW id \in Ids, NEW ttl \in Ttls \cup {NoTtl}, NEW retain \in N!Retains,
             pushes' = pushes + 1, N!DoUpsert(id, ttl, retain)
      PROVE  ToastInv'
  BY <1>2, PushKeeps, UpdateKeeps DEF N!DoUpsert
<1>3. ASSUME NEW id \in Ids, NEW ttl \in Ttls \cup {NoTtl}, NEW retain \in N!Retains,
             N!Push(id, ttl, retain) \/ N!Upsert(id, ttl, retain)
      PROVE  ToastInv'
  BY <1>2, <1>3, PushKeeps DEF N!Push, N!Upsert, N!Call
<1>4. ASSUME NEW id \in Ids, NEW ttl \in Ttls \cup {NoTtl}, NEW retain \in N!Retains, NEW hasTtl \in BOOLEAN,
             N!Update(id, hasTtl, ttl, retain)
      PROVE  ToastInv'
  BY <1>4, UpdateKeeps DEF N!Update, N!Call
<1>5. ASSUME NEW id \in Ids, N!Dismiss(id) \/ N!TimerFires(id) PROVE ToastInv'
  BY <1>5, DismissedKeeps DEF N!Dismiss, N!TimerFires
<1>6. ASSUME NEW id \in Ids, N!Progress(id) PROVE ToastInv'
  BY <1>1, <1>2, <1>6 DEF N!Progress, N!Call
<1>7. ASSUME UNCHANGED <<items, toastHistory, timers, pushes, erased>> PROVE ToastInv'
  BY <1>7 DEF ToastInv, UniqueIds, ElementsOf, N!TimerPerToast, N!HistoryAgrees, N!ErasedStaysOut,
              N!Toasts, N!Records, N!IdsOf
<1>8. ASSUME NEW id \in Ids, NEW ttl \in Ttls, N!Finish(id, ttl) PROVE ToastInv'
  <2>1. CASE id \in N!IdsOf(items)
    BY <1>1, <1>8, <2>1, UpdateKeeps DEF N!Finish, N!Call
  <2>2. CASE id \notin N!IdsOf(items)
    BY <1>7, <1>8, <2>2 DEF N!Finish
  <2> QED
    BY <2>1, <2>2
<1>9. CASE N!Clear
  <2>1. /\ items' = <<>> /\ <<>> \in Seq(N!Notification) /\ DOMAIN timers' = {}
        /\ UNCHANGED <<toastHistory, pushes, erased>>
    BY <1>9 DEF N!Clear
  <2>2. ElementsOf(items') = {}
    BY <2>1 DEF ElementsOf
  <2> QED
    BY <2>1, <2>2, ToastFacts, ToastRule DEF ToastInv, UniqueIds, Closing
<1>10. CASE N!ClearHistory
  <2>1. /\ toastHistory' = <<>> /\ <<>> \in Seq(N!Notification)
        /\ UNCHANGED <<items, timers, pushes>>
    BY <1>10 DEF N!ClearHistory
  <2>2. ElementsOf(toastHistory') = {}
    BY <2>1 DEF ElementsOf
  <2> QED
    BY <2>1, <2>2, ToastFacts, ToastRule DEF ToastInv, UniqueIds, Closing
<1>11. CASE N!Tick \/ UNCHANGED nvars
  BY <1>7, <1>11 DEF N!Tick, nvars
<1> QED
  BY <1>3, <1>4, <1>5, <1>6, <1>8, <1>9, <1>10, <1>11 DEF N!Next

\* Exactly the visible toasts that close themselves have a timer, the history of a
\* visible toast is what it says, and what was erased does not come back by itself,
\* for any number of toasts, lifetimes and calls.
THEOREM ToastsAgreeHolds == PageSpec => []ToastsAgree
<1>1. PageInit => ToastInv
  <2> SUFFICES ASSUME N!Init PROVE ToastInv
    BY PageStarts
  <2>1. items = <<>> /\ toastHistory = <<>> /\ <<>> \in Seq(N!Notification) /\ pushes = 0 /\ erased = {}
        /\ DOMAIN timers = {}
    BY DEF N!Init
  <2>2. ElementsOf(items) = {} /\ ElementsOf(toastHistory) = {}
    BY <2>1 DEF ElementsOf
  <2>3. N!TimerPerToast /\ N!HistoryAgrees /\ N!ErasedStaysOut
    BY <2>1, <2>2, ToastsByElements DEF N!TimerPerToast, N!HistoryAgrees, N!ErasedStaysOut
  <2> QED
    BY <2>1, <2>2, <2>3 DEF ToastInv, UniqueIds
<1>2. ToastInv /\ [PageNext]_allVars => ToastInv'
  BY PageMoves, ToastStep
<1>3. ToastInv => ToastsAgree
  BY DEF ToastInv, ToastsAgree
<1> QED
  BY <1>1, <1>2, <1>3, PTL DEF PageSpec

-------------------------------------------------------------------------------
(* The listbox.                                                            *)

\* What is kept to undo a resolver is the value a property has without one.
SizesInv ==
  /\ style \in [Standard \cup Custom -> L!Authors]
  /\ applied.custom \subseteq Custom /\ DOMAIN applied.standard \subseteq Standard
  /\ \A p \in DOMAIN applied.standard : applied.standard[p] = IF p \in Based THEN "base" ELSE "author"
  /\ L!SizesAreRestored

KeyboardIsShown == chosen.by = "keyboard" => chosen.option = chosen.seen /\ chosen.enabled

ListboxInv == options \in L!OptionLists /\ KeyboardIsShown /\ SizesInv

LEMMA FirstIsEnabled ==
  ASSUME options \in L!OptionLists, L!EnabledAt # {}
  PROVE  L!FirstEnabled \in L!EnabledAt
<1>1. L!EnabledAt \in SUBSET Nat
  BY DEF L!OptionLists, L!EnabledAt
<1>2. \E i \in L!EnabledAt : \A j \in L!EnabledAt : i <= j
  BY <1>1, LeastNumber
<1> QED
  BY <1>2 DEF L!FirstEnabled

LEMMA ActiveIsEnabled ==
  ASSUME options \in L!OptionLists
  PROVE  IF L!EnabledAt = {} THEN L!ActiveIndex = L!None ELSE L!ActiveIndex \in L!EnabledAt
<1>1. \A i : L!Enabled(i) => i \in L!EnabledAt
  BY DEF L!Enabled, L!EnabledAt
<1>2. L!EnabledAt = {} => L!FirstEnabled = L!None
  BY DEF L!FirstEnabled
<1> QED
  BY <1>1, <1>2, FirstIsEnabled DEF L!ActiveIndex, L!ResolveActiveIndex

\* An option is told with what was shown; by the keyboard it is what was shown.
LEMMA SelectionKeeps ==
  ASSUME NEW i, NEW by, by = "keyboard" => i = L!ActiveIndex, L!SelectOption(i, by)
  PROVE  KeyboardIsShown'
<1>1. CASE L!Enabled(i)
  BY <1>1 DEF L!SelectOption, KeyboardIsShown, L!Enabled
<1>2. CASE ~L!Enabled(i)
  BY <1>2 DEF L!SelectOption, KeyboardIsShown, L!NotChosen
<1> QED
  BY <1>1, <1>2

LEMMA ActiveSelectionKeeps == L!SelectActiveOption => KeyboardIsShown'
BY SelectionKeeps DEF L!SelectActiveOption, KeyboardIsShown, L!NotChosen

\* A new popup has the author's style, and nothing to undo.
LEMMA AuthoredIsRestored ==
  ASSUME style' = L!Authored, applied' = L!NoState
  PROVE  SizesInv'
<1>1. applied'.custom = {} /\ DOMAIN applied'.standard = {}
  BY DEF L!NoState
<1>2. style' \in [Standard \cup Custom -> L!Authors]
  BY DEF L!Authored, L!Authors
<1>3. \A p \in Standard \cup Custom : style'[p] = IF p \in Standard THEN "author" ELSE "unset"
  BY DEF L!Authored
<1>4. L!SizesAreRestored'
  BY <1>1, <1>3, PageAssumption DEF L!SizesAreRestored
<1> QED
  BY <1>1, <1>2, <1>4 DEF SizesInv

LEMMA SizesStay == SizesInv /\ UNCHANGED L!sizeVars => SizesInv'
BY DEF SizesInv, L!sizeVars, L!SizesAreRestored

LEMMA EffectsKeep == SizesInv /\ L!Effects => SizesInv'
BY AuthoredIsRestored, SizesStay DEF L!Effects

LEMMA ApplyKeeps ==
  ASSUME SizesInv, L!Apply
  PROVE  SizesInv'
<1>1. PICK given \in SUBSET (Standard \cup Custom) :
       /\ style' = [p \in Standard \cup Custom |->
            IF p \in given THEN "resolver"
            ELSE IF p \in Based THEN "base"
            ELSE IF p \in applied.custom THEN "unset"
            ELSE IF p \in DOMAIN applied.standard THEN applied.standard[p]
            ELSE style[p]]
       /\ applied' = [custom |-> given \cap Custom, standard |-> L!Saved(given)]
  BY DEF L!Apply, L!Resolved
<1>2. /\ applied'.custom = given \cap Custom /\ applied'.standard = L!Saved(given)
      /\ DOMAIN L!Saved(given) = given \cap Standard
  BY <1>1 DEF L!Saved
<1>3. Based \subseteq Standard /\ Standard \cap Custom = {}
  BY PageAssumption
<1>4. \A p \in Standard \cup Custom :
        /\ style[p] \in L!Authors
        /\ p \notin applied.custom \cup DOMAIN applied.standard =>
             style[p] \in IF p \in Custom THEN {"unset"} ELSE IF p \in Based THEN {"author", "base"} ELSE {"author"}
  BY DEF SizesInv, L!SizesAreRestored
<1>5. \A p \in given \cap Standard : L!Saved(given)[p] = IF p \in Based THEN "base" ELSE "author"
  <2> SUFFICES ASSUME NEW p \in given \cap Standard PROVE L!Saved(given)[p] = IF p \in Based THEN "base" ELSE "author"
    OBVIOUS
  <2>1. L!Saved(given)[p] = IF p \in Based THEN "base"
                            ELSE IF p \in DOMAIN applied.standard THEN applied.standard[p] ELSE style[p]
    BY DEF L!Saved
  <2>2. p \notin applied.custom /\ p \notin Custom
    BY <1>3 DEF SizesInv
  <2> QED
    BY <1>4, <2>1, <2>2 DEF SizesInv
<1>6. \A p \in Standard \cup Custom :
        style'[p] = IF p \in given THEN "resolver"
                    ELSE IF p \in Custom THEN "unset"
                    ELSE IF p \in Based THEN "base" ELSE "author"
  <2> SUFFICES ASSUME NEW p \in Standard \cup Custom
               PROVE  style'[p] = IF p \in given THEN "resolver" ELSE IF p \in Custom THEN "unset"
                                  ELSE IF p \in Based THEN "base" ELSE "author"
    OBVIOUS
  <2>1. style'[p] = IF p \in given THEN "resolver" ELSE IF p \in Based THEN "base"
                    ELSE IF p \in applied.custom THEN "unset"
                    ELSE IF p \in DOMAIN applied.standard THEN applied.standard[p] ELSE style[p]
    BY <1>1
  <2>2. /\ p \in applied.custom => p \in Custom
        /\ p \in DOMAIN applied.standard => p \in Standard /\ applied.standard[p] = IF p \in Based THEN "base" ELSE "author"
    BY DEF SizesInv
  <2>3. p \in Custom => p \notin Standard /\ p \notin Based
    BY <1>3
  <2> QED
    BY <1>4, <2>1, <2>2, <2>3
<1>7. style' \in [Standard \cup Custom -> L!Authors]
  <2>1. style' = [p \in Standard \cup Custom |-> style'[p]]
    BY <1>1
  <2> QED
    BY <1>6, <2>1 DEF L!Authors
<1>8. L!SizesAreRestored'
  BY <1>2, <1>3, <1>5, <1>6 DEF L!SizesAreRestored
<1> QED
  BY <1>2, <1>5, <1>7, <1>8 DEF SizesInv

LEMMA ListboxStep == ListboxInv /\ [L!Next]_lvars => ListboxInv'
<1> SUFFICES ASSUME ListboxInv, [L!Next]_lvars PROVE ListboxInv'
  OBVIOUS
<1>1. options' \in L!OptionLists
  BY DEF ListboxInv, L!Next, L!Press, L!DismissList, L!Call, L!FrameRuns, L!MoveFocus, L!Rerender, L!Apply, lvars
<1>2. KeyboardIsShown'
  <2>1. CASE chosen' = L!NotChosen
    BY <2>1 DEF KeyboardIsShown, L!NotChosen
  <2>2. CASE L!Press
    <3>1. chosen' = L!NotChosen \/ L!SelectActiveOption
      BY <2>2 DEF L!Press, L!HandleReferenceKeyDown, L!HandleFloatingKeyDown
    <3> QED
      BY <2>1, <3>1, ActiveSelectionKeeps
  <2>3. CASE L!Call
    <3>1. chosen' = L!NotChosen \/ L!SelectActiveOption \/ \E i \in DOMAIN options : L!SelectOption(i, "pointer")
      BY <2>3 DEF L!Call
    <3> QED
      BY <2>1, <3>1, ActiveSelectionKeeps, SelectionKeeps
  <2>4. CASE UNCHANGED lvars
    BY <2>4 DEF lvars, ListboxInv, KeyboardIsShown
  <2>5. CASE L!DismissList \/ L!FrameRuns \/ L!MoveFocus \/ L!Rerender \/ L!Apply
    BY <2>1, <2>5 DEF L!DismissList, L!FrameRuns, L!MoveFocus, L!Rerender, L!Apply
  <2> QED
    BY <2>2, <2>3, <2>4, <2>5 DEF L!Next
<1>3. SizesInv'
  <2>1. CASE L!Apply
    BY <2>1, ApplyKeeps DEF ListboxInv
  <2>2. CASE L!Effects
    BY <2>2, EffectsKeep DEF ListboxInv
  <2>3. CASE UNCHANGED L!sizeVars
    BY <2>3, SizesStay DEF ListboxInv
  <2>4. L!Apply \/ L!Effects \/ UNCHANGED L!sizeVars
    BY DEF L!Next, L!Press, L!DismissList, L!Call, L!FrameRuns, L!MoveFocus, L!Rerender, lvars, L!sizeVars
  <2> QED
    BY <2>1, <2>2, <2>3, <2>4
<1> QED
  BY <1>1, <1>2, <1>3 DEF ListboxInv

\* The active option can be chosen whenever one can, the keyboard chooses what was
\* shown, and no sequence of resolvers and renders leaves a size of an earlier one, for
\* any number of options, parameters and properties.
THEOREM ListboxIsUsableHolds == PageSpec => []ListboxIsUsable
<1>1. PageInit => ListboxInv
  <2> SUFFICES ASSUME L!Init PROVE ListboxInv
    BY PageStarts
  <2>1. options \in L!OptionLists /\ KeyboardIsShown
    BY DEF L!Init, KeyboardIsShown, L!NotChosen
  <2>2. applied.custom = {} /\ DOMAIN applied.standard = {}
    BY DEF L!Init, L!NoState
  <2>3. /\ style \in [Standard \cup Custom -> L!Authors]
        /\ \A p \in Standard \cup Custom : style[p] = IF p \in Standard THEN "author" ELSE "unset"
    BY DEF L!Init, L!Authored, L!Authors
  <2>4. L!SizesAreRestored
    BY <2>2, <2>3, PageAssumption DEF L!SizesAreRestored
  <2> QED
    BY <2>1, <2>2, <2>3, <2>4 DEF ListboxInv, SizesInv
<1>2. ListboxInv /\ [PageNext]_allVars => ListboxInv'
  BY PageMoves, ListboxStep
<1>3. ListboxInv => ListboxIsUsable
  BY ActiveIsEnabled DEF ListboxInv, SizesInv, KeyboardIsShown, ListboxIsUsable, L!ActiveIsUsable
<1> QED
  BY <1>1, <1>2, <1>3, PTL DEF PageSpec

-------------------------------------------------------------------------------
(* The scroll lock.                                                        *)

Lease == [epoch : Nat, compensates : BOOLEAN, held : BOOLEAN]

\* What is held belongs to the lock, which keeps a free page's style; and the guard
\* observes exactly the gestures of one finger that began under it.
LockInv ==
  /\ IsFiniteSet(DOMAIN leases) /\ \A o \in DOMAIN leases : leases[o] \in Lease
  /\ lock.epoch \in Nat /\ lock.saved \in D!Styles /\ lock.saved.position = "static"
  /\ bodyStyle \in D!Styles
  /\ \A o \in D!Held : leases[o].epoch = lock.epoch
  /\ D!FixedWhileHeld

TouchGuard == [on : BOOLEAN, observes : BOOLEAN, bypass : BOOLEAN, path : Paths \cup {<<>>}]

GuardInv ==
  /\ guard \in TouchGuard
  /\ gesture \in BOOLEAN /\ fingers \in 0 .. 2
  /\ guard.on <=> lock # D!NoLock
  /\ guard.observes => guard.on
  /\ gesture <=> guard.observes /\ ~guard.bypass
  /\ gesture => fingers = 1
  /\ guard.on /\ fingers = 0 => ~guard.bypass
  /\ D!OnlyEdgePansStop

LEMMA AcquireKeeps ==
  ASSUME LockInv, NEW o \in Overlays, NEW compensates \in BOOLEAN, D!Acquire(o, compensates)
  PROVE  LockInv' /\ lock' # D!NoLock
<1> DEFINE l == IF lock # D!NoLock THEN lock
                ELSE [epoch |-> D!NextEpoch, saved |-> bodyStyle, at |-> scroll]
           table == [x \in DOMAIN leases \cup {o} |->
                       IF x = o THEN [epoch |-> l.epoch, compensates |-> compensates, held |-> TRUE]
                       ELSE leases[x]]
           holders == {x \in DOMAIN table : table[x].epoch = l.epoch /\ table[x].held}
<1>1. /\ lock' = l /\ leases' = table /\ o \notin DOMAIN leases
      /\ bodyStyle' = [position |-> "fixed", padding |-> D!Padding(l, holders, table)]
  BY DEF D!Acquire
<1>2. D!NextEpoch \in Nat \ {0}
  <2>1. Cardinality(DOMAIN leases) \in Nat
    BY FS_CardinalityType DEF LockInv
  <2>2. D!NextEpoch = 1 + Cardinality(DOMAIN leases)
    BY DEF D!NextEpoch, D!Cardinality, Cardinality
  <2> QED
    BY <2>1, <2>2
<1>3. /\ l # D!NoLock /\ l.epoch \in Nat /\ l.saved \in D!Styles /\ l.saved.position = "static"
  <2>1. CASE lock # D!NoLock
    BY <2>1 DEF LockInv
  <2>2. CASE lock = D!NoLock
    <3>1. bodyStyle \in D!Styles /\ bodyStyle.position = "static"
      BY <2>2 DEF LockInv, D!FixedWhileHeld
    <3>2. l.epoch = D!NextEpoch /\ l.saved = bodyStyle /\ D!NoLock.epoch = 0
      BY <2>2 DEF D!NoLock
    <3> QED
      BY <1>2, <3>1, <3>2
  <2> QED
    BY <2>1, <2>2
<1>4. \A x \in D!Held : leases[x].epoch = l.epoch
  BY DEF LockInv, D!FixedWhileHeld
<1> HIDE DEF l
<1>5. DOMAIN leases' = DOMAIN leases \cup {o} /\ IsFiniteSet(DOMAIN leases')
  <2>1. DOMAIN leases' = DOMAIN leases \cup {o}
    BY <1>1
  <2> QED
    BY <2>1, FS_AddElement DEF LockInv
<1>6. leases'[o] = [epoch |-> l.epoch, compensates |-> compensates, held |-> TRUE]
      /\ \A x \in DOMAIN leases : leases'[x] = leases[x]
  BY <1>1
<1>7. \A x \in DOMAIN leases' : leases'[x] \in Lease
  <2>1. leases'[o] \in Lease
    BY <1>3, <1>6 DEF Lease
  <2>2. \A x \in DOMAIN leases : leases'[x] \in Lease
    BY <1>6 DEF LockInv
  <2> QED
    BY <1>5, <2>1, <2>2
<1>8. D!Held' = D!Held \cup {o} /\ holders = D!Held'
  BY <1>1, <1>4, <1>5, <1>6 DEF D!Held
<1>9. \A x \in D!Held' : leases'[x].epoch = lock'.epoch
  BY <1>1, <1>4, <1>6, <1>8 DEF D!Held
<1> HIDE DEF holders, table
<1>10. D!Padding(l, holders, table) =
         l.saved.padding + (IF \E x \in D!Held' : leases'[x].compensates THEN Scrollbar ELSE 0)
       /\ D!Padding(l, holders, table) \in Nat
  <2>1. l.saved.padding \in Nat /\ Scrollbar \in Nat
    BY <1>3, PageAssumption DEF D!Styles
  <2> QED
    BY <1>1, <1>8, <2>1 DEF D!Padding
<1>11. bodyStyle'.position = "fixed" /\ bodyStyle'.padding = D!Padding(l, holders, table) /\ bodyStyle' \in D!Styles
  BY <1>1, <1>10 DEF D!Styles
<1>12. D!FixedWhileHeld'
  <2>1. lock' # D!NoLock /\ D!Held' # {}
    BY <1>1, <1>3, <1>8
  <2> QED
    BY <1>1, <1>10, <1>11, <2>1 DEF D!FixedWhileHeld
<1> QED
  BY <1>1, <1>3, <1>5, <1>7, <1>9, <1>11, <1>12 DEF LockInv

LEMMA ReleaseKeeps ==
  ASSUME LockInv, NEW o \in Overlays, D!Release(o)
  PROVE  LockInv'
<1>1. o \in DOMAIN leases /\ leases[o] \in Lease
  BY DEF D!Release, LockInv
<1>2. CASE ~D!IsHeld(o)
  BY <1>2 DEF D!Release, LockInv, D!FixedWhileHeld, D!Held
<1>3. CASE D!IsHeld(o)
  <2> DEFINE rest == {x \in DOMAIN leases \ {o} : leases[x].epoch = leases[o].epoch /\ leases[x].held}
  <2>1. /\ leases' = [leases EXCEPT ![o].held = FALSE]
        /\ IF rest # {}
             THEN bodyStyle' = [bodyStyle EXCEPT !.padding = D!Padding(lock, rest, leases)] /\ lock' = lock
             ELSE lock' = D!NoLock /\ bodyStyle' = lock.saved
    BY <1>3 DEF D!Release
  <2>2. o \in D!Held /\ rest = D!Held \ {o}
    BY <1>1, <1>3 DEF D!Held, D!IsHeld, LockInv
  <2> HIDE DEF rest
  <2>3. /\ DOMAIN leases' = DOMAIN leases /\ leases'[o] = [leases[o] EXCEPT !.held = FALSE]
        /\ \A x \in DOMAIN leases \ {o} : leases'[x] = leases[x]
    BY <1>1, <2>1
  <2>4. leases'[o] \in Lease /\ ~leases'[o].held
    BY <1>1, <2>3 DEF Lease
  <2>5. D!Held' = rest
    BY <2>2, <2>3, <2>4 DEF D!Held
  <2>6. \A x \in DOMAIN leases' : leases'[x] \in Lease
    BY <2>3, <2>4 DEF LockInv
  <2>7. \A x \in rest : leases'[x] = leases[x]
    BY <2>2, <2>3 DEF D!Held
  <2>8. CASE rest # {}
    <3>1. D!Padding(lock, rest, leases) =
            lock.saved.padding + (IF \E x \in rest : leases'[x].compensates THEN Scrollbar ELSE 0)
          /\ D!Padding(lock, rest, leases) \in Nat
      <4>1. lock.saved.padding \in Nat /\ Scrollbar \in Nat
        BY PageAssumption DEF LockInv, D!Styles
      <4> QED
        BY <2>7, <4>1 DEF D!Padding
    <3>2. bodyStyle'.position = "fixed" /\ bodyStyle'.padding = D!Padding(lock, rest, leases) /\ bodyStyle' \in D!Styles
      <4>1. bodyStyle \in D!Styles /\ bodyStyle.position = "fixed"
        BY <2>2 DEF LockInv, D!FixedWhileHeld
      <4> QED
        BY <2>1, <2>8, <3>1, <4>1 DEF D!Styles
    <3>3. lock' = lock /\ lock # D!NoLock
      BY <2>1, <2>2, <2>8 DEF LockInv, D!FixedWhileHeld
    <3>4. D!FixedWhileHeld'
      BY <2>5, <2>8, <3>1, <3>2, <3>3 DEF D!FixedWhileHeld
    <3>5. \A x \in D!Held' : leases'[x].epoch = lock'.epoch
      BY <2>2, <2>5, <2>7, <3>3 DEF LockInv
    <3> QED
      BY <2>3, <2>6, <3>2, <3>3, <3>4, <3>5 DEF LockInv
  <2>9. CASE rest = {}
    <3>1. lock' = D!NoLock /\ bodyStyle' = lock.saved
      BY <2>1, <2>9
    <3>2. lock'.epoch \in Nat /\ lock'.saved \in D!Styles /\ lock'.saved.position = "static"
      BY <3>1 DEF D!NoLock, D!Styles
    <3>3. D!FixedWhileHeld'
      BY <2>5, <2>9, <3>1 DEF D!FixedWhileHeld, LockInv
    <3> QED
      BY <2>3, <2>5, <2>6, <2>9, <3>1, <3>2, <3>3 DEF LockInv
  <2> QED
    BY <2>8, <2>9
<1> QED
  BY <1>2, <1>3

LEMMA LockStep == LockInv /\ [D!Next]_dvars => LockInv'
<1> SUFFICES ASSUME LockInv, [D!Next]_dvars PROVE LockInv'
  OBVIOUS
<1>1. CASE D!Page
  <2>1. PICK p \in Paddings : bodyStyle' = [bodyStyle EXCEPT !.padding = p]
    BY <1>1 DEF D!Page
  <2>2. p \in Nat
    BY PageAssumption
  <2>3. bodyStyle' \in D!Styles /\ bodyStyle'.position = bodyStyle.position
    BY <2>1, <2>2 DEF LockInv, D!Styles
  <2>4. D!Held = {} /\ UNCHANGED <<lock, leases>>
    BY <1>1 DEF D!Page, LockInv, D!FixedWhileHeld
  <2> QED
    BY <2>3, <2>4 DEF LockInv, D!FixedWhileHeld, D!Held
<1>2. ASSUME UNCHANGED <<lock, leases, bodyStyle>> PROVE LockInv'
  BY <1>2 DEF LockInv, D!FixedWhileHeld, D!Held
<1>3. CASE \/ \E native \in BOOLEAN, path \in Paths : D!TouchStart(native, path)
           \/ \E way \in D!Ways, mover \in D!Movers : D!TouchMove(way, mover)
           \/ D!TouchEnd \/ UNCHANGED dvars
  BY <1>2, <1>3 DEF D!TouchStart, D!TouchMove, D!TouchEnd, dvars
<1> QED
  BY <1>1, <1>3, AcquireKeeps, ReleaseKeeps DEF D!Next

LEMMA GuardsAtRest ==
  /\ D!NoGuard \in TouchGuard /\ ~D!NoGuard.on /\ ~D!NoGuard.observes /\ ~D!NoGuard.bypass
  /\ D!Idle \in TouchGuard /\ D!Idle.on /\ ~D!Idle.observes /\ ~D!Idle.bypass
<1>1. <<>> \in Paths \cup {<<>>}
  OBVIOUS
<1>2. D!NoGuard = [on |-> FALSE, observes |-> FALSE, bypass |-> FALSE, path |-> <<>>]
  BY DEF D!NoGuard, D!NoPath
<1>3. D!NoGuard \in TouchGuard /\ ~D!NoGuard.on /\ ~D!NoGuard.observes /\ ~D!NoGuard.bypass
  BY <1>1, <1>2 DEF TouchGuard
<1>4. D!Idle = [D!NoGuard EXCEPT !.on = TRUE]
  BY DEF D!Idle
<1> QED
  BY <1>3, <1>4 DEF TouchGuard

LEMMA GuardStep == LockInv /\ GuardInv /\ [D!Next]_dvars => GuardInv'
<1> SUFFICES ASSUME LockInv, GuardInv, [D!Next]_dvars PROVE GuardInv'
  OBVIOUS
<1>0. <<>> \in Paths \cup {<<>>}
  OBVIOUS
<1>1. ASSUME NEW o \in Overlays, NEW compensates \in BOOLEAN, D!Acquire(o, compensates) PROVE GuardInv'
  <2>1. lock' # D!NoLock
    BY <1>1, AcquireKeeps
  <2>2. guard' = IF lock = D!NoLock THEN D!Idle ELSE guard
    BY <1>1 DEF D!Acquire
  <2>3. UNCHANGED <<fingers, gesture, panned>>
    BY <1>1 DEF D!Acquire
  <2>4. CASE lock # D!NoLock
    <3>1. guard' = guard
      BY <2>2, <2>4
    <3> QED
      BY <2>1, <2>3, <2>4, <3>1 DEF GuardInv, D!OnlyEdgePansStop
  <2>5. CASE lock = D!NoLock
    <3>1. guard' = D!Idle
      BY <2>2, <2>5
    <3>2. ~guard.on /\ ~guard.observes /\ ~gesture
      BY <2>5 DEF GuardInv
    <3>3. guard' \in TouchGuard /\ guard'.on /\ ~guard'.observes /\ ~guard'.bypass
      BY <3>1, GuardsAtRest
    <3> QED
      BY <2>1, <2>3, <3>2, <3>3 DEF GuardInv, D!OnlyEdgePansStop
  <2> QED
    BY <2>4, <2>5
<1>2. ASSUME NEW o \in Overlays, D!Release(o) PROVE GuardInv'
  <2>1. \/ UNCHANGED <<lock, guard>>
        \/ lock' = D!NoLock /\ guard' = D!NoGuard
    BY <1>2 DEF D!Release
  <2>2. gesture' = (gesture /\ guard'.on) /\ UNCHANGED <<fingers, panned>>
    BY <1>2 DEF D!Release
  <2>3. CASE UNCHANGED <<lock, guard>>
    <3>1. gesture' = gesture
      BY <2>2, <2>3 DEF GuardInv
    <3> QED
      BY <2>2, <2>3, <3>1 DEF GuardInv, D!OnlyEdgePansStop
  <2>4. CASE lock' = D!NoLock /\ guard' = D!NoGuard
    <3>1. guard' \in TouchGuard /\ ~guard'.on /\ ~guard'.observes /\ ~guard'.bypass
      BY <2>4, GuardsAtRest
    <3>2. gesture' = FALSE
      BY <2>2, <3>1
    <3> QED
      BY <2>2, <2>4, <3>1, <3>2 DEF GuardInv, D!OnlyEdgePansStop
  <2> QED
    BY <2>1, <2>3, <2>4
<1>3. ASSUME NEW native \in BOOLEAN, NEW path \in Paths, D!TouchStart(native, path) PROVE GuardInv'
  <2>1. /\ fingers < 2 /\ fingers' = fingers + 1 /\ UNCHANGED <<lock, panned>>
        /\ gesture' = (guard.on /\ fingers = 0 /\ ~native)
        /\ guard' = IF ~guard.on \/ guard.bypass THEN guard
              ELSE IF fingers' # 1 \/ native
                THEN [guard EXCEPT !.bypass = TRUE, !.observes = FALSE, !.path = <<>>]
                ELSE [guard EXCEPT !.observes = TRUE, !.path = path]
    BY <1>3 DEF D!TouchStart, D!NoPath
  <2>2. fingers \in 0 .. 1 /\ fingers' \in 1 .. 2
    BY <2>1 DEF GuardInv
  <2>3. gesture' \in BOOLEAN /\ D!OnlyEdgePansStop'
    BY <2>1 DEF GuardInv, D!OnlyEdgePansStop
  <2>4. CASE ~guard.on \/ guard.bypass
    <3>1. guard' = guard
      BY <2>1, <2>4
    <3>2. ~(guard'.observes /\ ~guard'.bypass) /\ ~gesture'
      BY <2>1, <2>4, <3>1 DEF GuardInv
    <3>5. guard'.observes => guard'.on
      BY <3>1 DEF GuardInv
    <3>3. guard' \in TouchGuard /\ (guard'.on <=> lock' # D!NoLock)
      BY <2>1, <3>1 DEF GuardInv
    <3>4. fingers' \in 0 .. 2 /\ fingers' # 0
      BY <2>2
    <3> QED
      BY <2>3, <3>2, <3>3, <3>4, <3>5 DEF GuardInv
  <2>5. CASE guard.on /\ ~guard.bypass /\ (fingers' # 1 \/ native)
    <3>1. guard' = [guard EXCEPT !.bypass = TRUE, !.observes = FALSE, !.path = <<>>]
      BY <2>1, <2>5
    <3>2. guard' \in TouchGuard /\ guard'.on /\ ~guard'.observes
      BY <1>0, <2>5, <3>1 DEF GuardInv, TouchGuard
    <3>3. ~gesture'
      <4>1. CASE native
        BY <2>1, <4>1
      <4>2. CASE fingers' # 1
        <5>1. fingers # 0
          BY <2>1, <2>2, <4>2
        <5> QED
          BY <2>1, <5>1
      <4> QED
        BY <2>5, <4>1, <4>2
    <3>4. lock' # D!NoLock
      BY <2>1, <2>5 DEF GuardInv
    <3> QED
      BY <2>2, <2>3, <3>2, <3>3, <3>4 DEF GuardInv
  <2>6. CASE guard.on /\ ~guard.bypass /\ fingers' = 1 /\ ~native
    <3>1. guard' = [guard EXCEPT !.observes = TRUE, !.path = path]
      BY <2>1, <2>6
    <3>2. guard' \in TouchGuard /\ guard'.on /\ guard'.observes /\ ~guard'.bypass
      BY <2>6, <3>1 DEF GuardInv, TouchGuard
    <3>3. gesture'
      <4>1. fingers = 0
        BY <2>1, <2>2, <2>6
      <4> QED
        BY <2>1, <2>6, <4>1
    <3>4. lock' # D!NoLock
      BY <2>1, <2>6 DEF GuardInv
    <3> QED
      BY <2>2, <2>3, <2>6, <3>2, <3>3, <3>4 DEF GuardInv
  <2> QED
    BY <2>4, <2>5, <2>6
<1>4. ASSUME NEW way \in D!Ways, NEW mover \in D!Movers, D!TouchMove(way, mover) PROVE GuardInv'
  <2> DEFINE goes == D!MovesAlone(mover) /\ mover # "native"
             consumed == D!CanConsume(guard.path, way = "down")
  <2>1. UNCHANGED <<lock, fingers>> /\ fingers > 0 /\ fingers \in 0 .. 2
    BY <1>4 DEF D!TouchMove, GuardInv
  <2>2. gesture' = (gesture /\ fingers = 1 /\ mover = "observed")
    BY <1>4 DEF D!TouchMove
  <2>3. goes <=> fingers = 1 /\ mover = "observed"
    BY DEF D!MovesAlone, D!Movers
  <2>4. gesture <=> guard.observes /\ ~guard.bypass
    BY DEF GuardInv
  <2>5. guard' = IF ~gesture THEN guard
                 ELSE IF ~D!MovesAlone(mover)
                   THEN [guard EXCEPT !.bypass = TRUE, !.observes = FALSE, !.path = <<>>]
                   ELSE [guard EXCEPT !.bypass = (mover = "native")]
    BY <1>4, <2>4 DEF D!TouchMove, D!NoPath
  <2>6. /\ panned'.pans = (way # "free") /\ panned'.consumed = consumed
        /\ panned'.ordinary = (gesture' /\ guard.on)
        /\ panned'.prevented = (gesture /\ goes /\ way # "free" /\ ~consumed)
    BY <1>4, <2>4 DEF D!TouchMove
  <2> HIDE DEF consumed, goes
  <2>7. gesture => guard.on
    BY DEF GuardInv
  <2>8. D!OnlyEdgePansStop'
    BY <2>2, <2>3, <2>6, <2>7 DEF D!OnlyEdgePansStop
  <2>9. gesture' \in BOOLEAN /\ (gesture' => fingers' = 1)
    BY <2>1, <2>2
  <2>10. /\ guard' \in TouchGuard /\ guard'.on = guard.on /\ (guard'.observes => guard'.on)
         /\ gesture' <=> guard'.observes /\ ~guard'.bypass
    <3>1. CASE ~gesture
      BY <2>2, <2>4, <2>5, <3>1 DEF GuardInv
    <3>2. CASE gesture /\ ~D!MovesAlone(mover)
      <4>1. guard' = [guard EXCEPT !.bypass = TRUE, !.observes = FALSE, !.path = <<>>]
        BY <2>5, <3>2
      <4>2. ~gesture'
        BY <2>2, <2>3, <3>2 DEF goes
      <4> QED
        BY <1>0, <4>1, <4>2 DEF GuardInv, TouchGuard
    <3>3. CASE gesture /\ D!MovesAlone(mover)
      <4>1. guard' = [guard EXCEPT !.bypass = (mover = "native")]
        BY <2>5, <3>3
      <4>2. gesture' <=> mover # "native"
        BY <2>2, <2>3, <3>3 DEF goes
      <4> QED
        BY <2>4, <2>7, <3>3, <4>1, <4>2 DEF GuardInv, TouchGuard
    <3> QED
      BY <3>1, <3>2, <3>3
  <2>11. guard'.on <=> lock' # D!NoLock
    BY <2>1, <2>10 DEF GuardInv
  <2> QED
    BY <2>1, <2>8, <2>9, <2>10, <2>11 DEF GuardInv
<1>5. CASE D!TouchEnd
  <2>1. /\ fingers > 0 /\ fingers' = fingers - 1 /\ ~gesture' /\ gesture' \in BOOLEAN
        /\ UNCHANGED <<lock, panned>>
        /\ guard' = IF fingers' > 0 \/ ~guard.on THEN guard ELSE D!Idle
    BY <1>5 DEF D!TouchEnd, D!Lifted
  <2>2. fingers' \in 0 .. 2 /\ fingers \in 1 .. 2
    BY <2>1 DEF GuardInv
  <2>3. D!OnlyEdgePansStop'
    BY <2>1 DEF GuardInv, D!OnlyEdgePansStop
  <2>4. /\ guard' \in TouchGuard /\ ~(guard'.observes /\ ~guard'.bypass)
        /\ (guard'.on <=> guard.on) /\ (guard'.observes => guard'.on)
        /\ guard'.on /\ fingers' = 0 => ~guard'.bypass
    <3>1. CASE fingers' > 0
      <4>1. guard' = guard /\ fingers # 1
        BY <2>1, <2>2, <3>1
      <4>2. ~(guard.observes /\ ~guard.bypass)
        BY <4>1 DEF GuardInv
      <4> QED
        BY <3>1, <4>1, <4>2 DEF GuardInv
    <3>2. CASE ~guard.on
      <4>1. guard' = guard
        BY <2>1, <3>2
      <4>2. ~guard.observes
        BY <3>2 DEF GuardInv
      <4> QED
        BY <3>2, <4>1, <4>2 DEF GuardInv
    <3>3. CASE ~(fingers' > 0) /\ guard.on
      <4>1. guard' = D!Idle
        BY <2>1, <3>3
      <4> QED
        BY <3>3, <4>1, GuardsAtRest
    <3> QED
      BY <3>1, <3>2, <3>3
  <2>5. guard'.on <=> lock' # D!NoLock
    BY <2>1, <2>4 DEF GuardInv
  <2> QED
    BY <2>1, <2>2, <2>3, <2>4, <2>5 DEF GuardInv
<1>6. CASE D!Page \/ UNCHANGED dvars
  <2>1. UNCHANGED <<lock, guard, fingers, gesture, panned>>
    BY <1>6 DEF D!Page, dvars
  <2> QED
    BY <2>1 DEF GuardInv, D!OnlyEdgePansStop
<1> QED
  BY <1>1, <1>2, <1>3, <1>4, <1>5, <1>6 DEF D!Next


-------------------------------------------------------------------------------
(* The focus of overlays.                                                  *)

\* A container that is waited for belongs to an overlay that is active, and the focus
\* is never in a container that is gone.
FocusInv ==
  /\ focus \in F!Elements /\ overlay \in [Layers -> F!Overlay]
  /\ \A o \in Layers : overlay[o].frame => overlay[o].active
  /\ \A o \in Layers : focus.in = o => F!IsConnected(focus)

LEMMA AttachKeeps ==
  ASSUME FocusInv, NEW o \in Layers, NEW v \in F!Overlay, v.active, v.rendered, F!Attach(o, v)
  PROVE  FocusInv' /\ cause' = o /\ overlay'[o].active
<1>1. PICK at \in 0 .. v.size : /\ overlay' = [overlay EXCEPT ![o] = [v EXCEPT !.attached = TRUE, !.frame = FALSE]]
                                /\ focus' = [in |-> o, at |-> at] /\ cause' = o
  BY DEF F!Attach
<1> DEFINE w == [v EXCEPT !.attached = TRUE, !.frame = FALSE]
<1>2. w \in F!Overlay /\ w.active /\ w.rendered /\ ~w.frame /\ w.size = v.size
  BY DEF F!Overlay
<1>3. overlay' = [overlay EXCEPT ![o] = w]
  BY <1>1
<1> HIDE DEF w
<1>4. overlay'[o] = w /\ \A x \in Layers \ {o} : overlay'[x] = overlay[x]
  BY <1>3 DEF FocusInv
<1>5. overlay' \in [Layers -> F!Overlay]
  BY <1>2, <1>3 DEF FocusInv
<1>6. \A x \in Layers : overlay'[x].frame => overlay'[x].active
  BY <1>2, <1>4 DEF FocusInv
<1>7. focus' \in F!Elements
  <2>1. v.size \in 0 .. MaxFocusable /\ MaxFocusable \in Nat
    BY PageAssumption DEF F!Overlay
  <2>2. at \in 0 .. MaxFocusable
    BY <2>1
  <2> QED
    BY <1>1, <2>2 DEF F!Elements
<1>8. \A x \in Layers : focus'.in = x => F!IsConnected(focus)'
  BY <1>1, <1>2, <1>4 DEF F!IsConnected
<1> QED
  BY <1>1, <1>2, <1>4, <1>5, <1>6, <1>7, <1>8 DEF FocusInv

LEMMA BodyIsNoLayer ==
  /\ F!Body \in F!Elements /\ F!Body.in \notin Layers
  /\ "user" \notin Layers /\ "tab" \notin Layers /\ "restore" \notin Layers
  /\ F!Document \notin Layers
<1>1. 0 \in 0 .. MaxFocusable
  BY PageAssumption
<1> QED
  BY <1>1, PageAssumption DEF F!Body, F!Document, F!Elements

LEMMA OpenKeeps ==
  ASSUME FocusInv, NEW o \in Layers, F!Open(o)
  PROVE  /\ FocusInv' /\ ~overlay[o].active /\ overlay'[o].active
         /\ focus' # focus => cause' = o
<1>1. PICK trap \in BOOLEAN, restore \in BOOLEAN, appears \in BOOLEAN, size \in 0 .. MaxFocusable :
        LET v == [active |-> TRUE, trap |-> trap, restore |-> restore,
                  rendered |-> appears \/ overlay[o].rendered, attached |-> FALSE,
                  frame |-> TRUE, previous |-> focus, size |-> size]
        IN  IF v.rendered THEN F!Attach(o, v)
            ELSE overlay' = [overlay EXCEPT ![o] = v] /\ UNCHANGED <<focus, cause>>
  BY DEF F!Open
<1> DEFINE v == [active |-> TRUE, trap |-> trap, restore |-> restore,
                 rendered |-> appears \/ overlay[o].rendered, attached |-> FALSE,
                 frame |-> TRUE, previous |-> focus, size |-> size]
<1>2. v \in F!Overlay
  <2>1. overlay[o].rendered \in BOOLEAN
    BY DEF FocusInv, F!Overlay
  <2>2. (appears \/ overlay[o].rendered) \in BOOLEAN
    OBVIOUS
  <2> QED
    BY <2>2 DEF FocusInv, F!Overlay
<1>3. v.active /\ (v.rendered <=> appears \/ overlay[o].rendered)
  OBVIOUS
<1>4. IF v.rendered THEN F!Attach(o, v)
      ELSE overlay' = [overlay EXCEPT ![o] = v] /\ UNCHANGED <<focus, cause>>
  BY <1>1
<1> HIDE DEF v
<1>5. ~overlay[o].active
  BY DEF F!Open
<1>6. CASE v.rendered
  BY <1>2, <1>3, <1>4, <1>5, <1>6, AttachKeeps
<1>7. CASE ~v.rendered
  <2>1. overlay' = [overlay EXCEPT ![o] = v] /\ UNCHANGED <<focus, cause>>
    BY <1>4, <1>7
  <2>2. overlay'[o] = v /\ \A x \in Layers \ {o} : overlay'[x] = overlay[x]
    BY <2>1 DEF FocusInv
  <2>3. overlay' \in [Layers -> F!Overlay]
    BY <1>2, <2>1 DEF FocusInv
  <2>4. focus.in # o
    <3>1. ~overlay[o].rendered
      BY <1>3, <1>7
    <3> QED
      BY <3>1, BodyIsNoLayer DEF FocusInv, F!IsConnected
  <2>5. \A x \in Layers : focus'.in = x => F!IsConnected(focus)'
    BY <2>1, <2>2, <2>4 DEF FocusInv, F!IsConnected
  <2>6. \A x \in Layers : overlay'[x].frame => overlay'[x].active
    BY <1>3, <2>2 DEF FocusInv
  <2> QED
    BY <1>3, <1>5, <2>1, <2>2, <2>3, <2>5, <2>6 DEF FocusInv
<1> QED
  BY <1>6, <1>7

LEMMA CloseKeeps ==
  ASSUME FocusInv, NEW o \in Layers, F!Close(o)
  PROVE  /\ FocusInv' /\ overlay[o].active /\ ~overlay'[o].active
         /\ cause' = "restore" \/ focus' = focus \/ focus' = F!Body
<1>1. PICK stays \in BOOLEAN :
        LET target == overlay[o].previous
            there == target.in # o /\ F!IsConnected(target)
        IN  /\ overlay' = [overlay EXCEPT ![o].active = FALSE, ![o].attached = FALSE,
                                          ![o].rendered = @ /\ stays, ![o].frame = FALSE]
            /\ focus' = IF overlay[o].restore /\ there THEN target ELSE F!Left(o, ~stays)
            /\ cause' = IF overlay[o].restore /\ there THEN "restore" ELSE cause
  BY DEF F!Close, F!Cancelled
<1> DEFINE target == overlay[o].previous
           there == target.in # o /\ F!IsConnected(target)
           v == [overlay[o] EXCEPT !.active = FALSE, !.attached = FALSE,
                                   !.rendered = @ /\ stays, !.frame = FALSE]
<1>2. overlay[o] \in F!Overlay
  BY DEF FocusInv
<1>3. overlay' = [overlay EXCEPT ![o] = v]
  BY <1>1, <1>2 DEF FocusInv, F!Overlay
<1>4. /\ v \in F!Overlay /\ ~v.active /\ ~v.frame
      /\ v.rendered = (overlay[o].rendered /\ stays) /\ v.size = overlay[o].size
  BY <1>2 DEF F!Overlay
<1>5. /\ focus' = IF overlay[o].restore /\ there THEN target ELSE F!Left(o, ~stays)
      /\ cause' = IF overlay[o].restore /\ there THEN "restore" ELSE cause
  BY <1>1
<1> HIDE DEF v
<1>6. overlay'[o] = v /\ \A x \in Layers \ {o} : overlay'[x] = overlay[x]
  BY <1>3 DEF FocusInv
<1>7. overlay' \in [Layers -> F!Overlay] /\ \A x \in Layers : overlay'[x].frame => overlay'[x].active
  BY <1>3, <1>4, <1>6 DEF FocusInv
<1>8. target \in F!Elements
  BY <1>2 DEF F!Overlay
<1>9. overlay[o].active
  BY DEF F!Close
<1>10. CASE overlay[o].restore /\ there
  <2>1. focus' = target /\ cause' = "restore" /\ target.in # o /\ F!IsConnected(target)
    BY <1>5, <1>10
  <2>2. \A x \in Layers : focus'.in = x => F!IsConnected(focus)'
    BY <1>6, <2>1, BodyIsNoLayer DEF F!IsConnected
  <2> QED
    BY <1>4, <1>6, <1>7, <1>8, <1>9, <2>1, <2>2 DEF FocusInv
<1>11. CASE ~(overlay[o].restore /\ there)
  <2>1. focus' = F!Left(o, ~stays)
    BY <1>5, <1>11
  <2>2. CASE ~stays /\ focus.in = o
    <3>1. focus' = F!Body
      BY <2>1, <2>2 DEF F!Left
    <3> QED
      BY <1>4, <1>6, <1>7, <1>9, <3>1, BodyIsNoLayer DEF FocusInv
  <2>3. CASE ~(~stays /\ focus.in = o)
    <3>1. focus' = focus
      BY <2>1, <2>3 DEF F!Left
    <3>2. \A x \in Layers : focus'.in = x => F!IsConnected(focus)'
      BY <1>4, <1>6, <2>3, <3>1, BodyIsNoLayer DEF FocusInv, F!IsConnected
    <3> QED
      BY <1>4, <1>6, <1>7, <1>9, <3>1, <3>2 DEF FocusInv
  <2> QED
    BY <2>2, <2>3
<1> QED
  BY <1>10, <1>11

LEMMA RenderKeeps ==
  ASSUME FocusInv, NEW o \in Layers, F!Render(o)
  PROVE  FocusInv' /\ overlay' # overlay /\ (focus' = focus \/ focus' = F!Body)
<1> DEFINE v == [overlay[o] EXCEPT !.rendered = overlay[o].active]
<1>1. overlay[o] \in F!Overlay
  BY DEF FocusInv
<1>2. overlay' = [overlay EXCEPT ![o] = v] /\ focus' = F!Left(o, ~overlay[o].active)
  BY <1>1 DEF FocusInv, F!Overlay, F!Render
<1>3. /\ v \in F!Overlay /\ v.active = overlay[o].active /\ v.frame = overlay[o].frame
      /\ v.rendered = overlay[o].active /\ v.size = overlay[o].size
  BY <1>1 DEF F!Overlay
<1>4. overlay[o].active \in BOOLEAN /\ overlay[o].active = ~overlay[o].rendered
  BY <1>1 DEF F!Overlay, F!Render
<1> HIDE DEF v
<1>5. overlay'[o] = v /\ \A x \in Layers \ {o} : overlay'[x] = overlay[x]
  BY <1>2 DEF FocusInv
<1>6. overlay' \in [Layers -> F!Overlay] /\ \A x \in Layers : overlay'[x].frame => overlay'[x].active
  BY <1>2, <1>3, <1>5 DEF FocusInv
<1>7. overlay' # overlay
  <2>1. overlay'[o].rendered # overlay[o].rendered
    BY <1>1, <1>3, <1>4, <1>5 DEF F!Overlay
  <2> QED
    BY <2>1
<1>8. CASE ~overlay[o].active /\ focus.in = o
  <2>1. focus' = F!Body
    BY <1>2, <1>8 DEF F!Left
  <2> QED
    BY <1>6, <1>7, <2>1, BodyIsNoLayer DEF FocusInv
<1>9. CASE ~(~overlay[o].active /\ focus.in = o)
  <2>1. focus' = focus
    BY <1>2, <1>9 DEF F!Left
  <2>2. \A x \in Layers : focus'.in = x => F!IsConnected(focus)'
    BY <1>3, <1>5, <1>9, <2>1, BodyIsNoLayer DEF FocusInv, F!IsConnected
  <2> QED
    BY <1>6, <1>7, <2>1, <2>2 DEF FocusInv
<1> QED
  BY <1>8, <1>9

\* Tab stays in a container that traps the focus, at a place it has.
LEMMA TabKeeps ==
  ASSUME FocusInv, NEW o \in Layers, NEW shift \in BOOLEAN, F!Tab(o, shift)
  PROVE  /\ FocusInv' /\ cause' = "tab" /\ focus.in = o
         /\ overlay[o].trap /\ overlay[o].attached => focus'.in = o
<1> DEFINE kept == IF overlay[o].trap /\ overlay[o].attached
                     THEN F!Trapped(focus.at, overlay[o].size, shift) ELSE F!NoMove
           to == IF kept # F!NoMove THEN kept ELSE F!Native(focus.at, overlay[o].size, shift)
<1>1. /\ focus.in = o /\ cause' = "tab" /\ overlay' = overlay
      /\ focus' = IF to = F!NoMove THEN F!Body ELSE [in |-> o, at |-> to]
  BY DEF F!Tab
<1>2. overlay[o].size \in 0 .. MaxFocusable /\ MaxFocusable \in Nat
  BY PageAssumption DEF FocusInv, F!Overlay
<1>3. overlay[o].rendered /\ focus.at \in Nat /\ focus.at <= overlay[o].size
  <2>1. focus.at \in 0 .. MaxFocusable
    BY DEF FocusInv, F!Elements
  <2>2. F!IsConnected(focus) /\ focus.in # F!Document
    BY <1>1, BodyIsNoLayer DEF FocusInv
  <2> QED
    BY <1>1, <1>2, <2>1, <2>2 DEF F!IsConnected
<1>4. kept \in 0 .. overlay[o].size \cup {F!NoMove}
  BY <1>2, <1>3 DEF F!Trapped, F!NoMove
<1>5. to \in 0 .. overlay[o].size \cup {F!NoMove}
  BY <1>2, <1>3, <1>4 DEF F!Native, F!NoMove
<1>6. overlay[o].trap /\ overlay[o].attached => to # F!NoMove
  BY <1>2, <1>3 DEF F!Trapped, F!Native, F!NoMove
<1> HIDE DEF to, kept
<1>7. CASE to = F!NoMove
  <2>1. focus' = F!Body
    BY <1>1, <1>7
  <2> QED
    BY <1>1, <1>6, <1>7, <2>1, BodyIsNoLayer DEF FocusInv
<1>8. CASE to # F!NoMove
  <2>1. focus' = [in |-> o, at |-> to] /\ to \in 0 .. overlay[o].size
    BY <1>1, <1>5, <1>8
  <2>2. to \in 0 .. MaxFocusable /\ to <= overlay[o].size
    BY <1>2, <2>1
  <2>3. focus' \in F!Elements
    BY <2>1, <2>2 DEF F!Elements
  <2>4. \A x \in Layers : focus'.in = x => F!IsConnected(focus)'
    BY <1>1, <1>3, <2>1, <2>2 DEF F!IsConnected
  <2> QED
    BY <1>1, <2>1, <2>3, <2>4 DEF FocusInv
<1> QED
  BY <1>7, <1>8

\* What one step does with the focus.
FocusStays ==
  \A o \in Layers :
    /\ cause' = o /\ focus' # focus /\ focus'.in = o => overlay'[o].active
    /\ overlay[o].active /\ overlay[o].trap /\ overlay[o].attached
         /\ focus.in = o /\ cause' = "tab" /\ UNCHANGED overlay
         => focus'.in = o

LEMMA FocusStep == FocusInv /\ [F!Next]_fvars => FocusInv' /\ [FocusStays]_fvars
<1> SUFFICES ASSUME FocusInv, [F!Next]_fvars PROVE FocusInv' /\ [FocusStays]_fvars
  OBVIOUS
<1>1. ASSUME NEW o \in Layers, F!Open(o) PROVE FocusInv' /\ FocusStays
  <2>1. /\ FocusInv' /\ ~overlay[o].active /\ overlay'[o].active
        /\ focus' # focus => cause' = o
    BY <1>1, OpenKeeps
  <2> QED
    BY <2>1 DEF FocusStays
<1>2. ASSUME NEW o \in Layers, F!Frame(o) PROVE FocusInv' /\ FocusStays
  <2>1. overlay[o] \in F!Overlay /\ overlay[o].active /\ overlay[o].rendered /\ F!Attach(o, overlay[o])
    BY <1>2 DEF F!Frame, FocusInv
  <2>2. FocusInv' /\ cause' = o /\ overlay'[o].active
    BY <2>1, AttachKeeps
  <2>3. cause' # "tab"
    BY <2>2, BodyIsNoLayer
  <2> QED
    BY <2>2, <2>3 DEF FocusStays
<1>3. ASSUME NEW o \in Layers, F!Close(o) PROVE FocusInv' /\ FocusStays
  <2>1. /\ FocusInv' /\ overlay[o].active /\ ~overlay'[o].active
        /\ cause' = "restore" \/ focus' = focus \/ focus' = F!Body
    BY <1>3, CloseKeeps
  <2> QED
    BY <2>1, BodyIsNoLayer DEF FocusStays
<1>4. ASSUME NEW o \in Layers, F!Render(o) PROVE FocusInv' /\ FocusStays
  <2>1. FocusInv' /\ overlay' # overlay /\ (focus' = focus \/ focus' = F!Body)
    BY <1>4, RenderKeeps
  <2> QED
    BY <2>1, BodyIsNoLayer DEF FocusStays
<1>5. ASSUME NEW o \in Layers, NEW shift \in BOOLEAN, F!Tab(o, shift) PROVE FocusInv' /\ FocusStays
  <2>1. /\ FocusInv' /\ cause' = "tab" /\ focus.in = o
        /\ overlay[o].trap /\ overlay[o].attached => focus'.in = o
    BY <1>5, TabKeeps
  <2> QED
    BY <2>1, BodyIsNoLayer DEF FocusStays
<1>6. ASSUME NEW e \in F!Elements, F!Click(e) PROVE FocusInv' /\ FocusStays
  <2>1. F!IsConnected(e) /\ focus' = e /\ cause' = "user" /\ overlay' = overlay
    BY <1>6 DEF F!Click
  <2>2. \A x \in Layers : focus'.in = x => F!IsConnected(focus)'
    BY <2>1 DEF F!IsConnected
  <2>3. FocusInv'
    BY <2>1, <2>2 DEF FocusInv
  <2> QED
    BY <2>1, <2>3, BodyIsNoLayer DEF FocusStays
<1>7. CASE UNCHANGED fvars
  BY <1>7 DEF fvars, FocusInv, F!IsConnected
<1> QED
  BY <1>1, <1>2, <1>3, <1>4, <1>5, <1>6, <1>7 DEF F!Next

-------------------------------------------------------------------------------
\* Every page, however many overlays share the lock and in whatever order they come
\* and go: the body is fixed, and makes up for the scrollbar, exactly while one holds a
\* lease, the guard stops exactly the pans nothing takes, and no overlay takes the focus
\* once it is closed or loses it to Tab (acquireDocumentScrollLock,
\* attachDocumentTouchScrollGuard, useOverlayFocus).
THEOREM OverlaysHoldThePageHolds == PageSpec => OverlaysHoldThePage
<1>1. PageInit => LockInv /\ GuardInv /\ FocusInv
  <2> SUFFICES ASSUME D!Init, F!Init PROVE LockInv /\ GuardInv /\ FocusInv
    BY PageStarts
  <2>1. LockInv
    <3>1. PICK p \in Paddings : bodyStyle = [position |-> "static", padding |-> p]
      BY DEF D!Init
    <3>2. p \in Nat
      BY PageAssumption
    <3>3. bodyStyle \in D!Styles /\ bodyStyle.position = "static"
      BY <3>1, <3>2 DEF D!Styles
    <3>4. lock = D!NoLock /\ DOMAIN leases = {}
      BY DEF D!Init
    <3>5. D!Held = {} /\ IsFiniteSet(DOMAIN leases)
      BY <3>4, FS_EmptySet DEF D!Held
    <3>6. lock.epoch \in Nat /\ lock.saved \in D!Styles /\ lock.saved.position = "static"
      BY <3>4 DEF D!NoLock, D!Styles
    <3> QED
      BY <3>3, <3>4, <3>5, <3>6 DEF LockInv, D!FixedWhileHeld
  <2>2. GuardInv
    <3>1. guard = D!NoGuard /\ fingers = 0 /\ gesture = FALSE /\ panned = D!NoMove /\ lock = D!NoLock
      BY DEF D!Init
    <3>2. guard \in TouchGuard /\ ~guard.on /\ ~guard.observes
      BY <3>1, GuardsAtRest
    <3>3. ~panned.prevented /\ ~panned.ordinary
      BY <3>1 DEF D!NoMove
    <3>4. D!OnlyEdgePansStop
      BY <3>3 DEF D!OnlyEdgePansStop
    <3>5. gesture \in BOOLEAN /\ ~gesture
      BY <3>1, Zenon
    <3>6. fingers \in 0 .. 2
      BY <3>1
    <3> QED
      BY <3>1, <3>2, <3>4, <3>5, <3>6 DEF GuardInv
  <2>3. FocusInv
    <3> DEFINE v == [active |-> FALSE, trap |-> FALSE, restore |-> FALSE, rendered |-> FALSE,
                     attached |-> FALSE, frame |-> FALSE, previous |-> F!Body, size |-> 0]
    <3>1. v \in F!Overlay /\ ~v.frame
      <4>1. 0 \in 0 .. MaxFocusable
        BY PageAssumption
      <4> QED
        BY <4>1, BodyIsNoLayer DEF F!Overlay
    <3>2. overlay = [o \in Layers |-> v]
      BY DEF F!Init
    <3> HIDE DEF v
    <3>3. focus \in F!Elements /\ focus.in \notin Layers
      BY PageAssumption, BodyIsNoLayer DEF F!Init, F!Elements
    <3> QED
      BY <3>1, <3>2, <3>3 DEF FocusInv
  <2> QED
    BY <2>1, <2>2, <2>3
<1>2. LockInv /\ GuardInv /\ FocusInv /\ [PageNext]_allVars => LockInv' /\ GuardInv' /\ FocusInv'
  BY PageMoves, LockStep, GuardStep, FocusStep
<1>3. LockInv /\ GuardInv => D!FixedWhileHeld /\ D!OnlyEdgePansStop
  BY DEF LockInv, GuardInv
<1>4. FocusInv /\ [PageNext]_allVars => [FocusStays]_fvars
  BY PageMoves, FocusStep
<1>5. [][FocusStays]_fvars => F!FocusIsKept
  BY DEF F!FocusIsKept, FocusStays, F!vars, fvars
<1>6. [](D!FixedWhileHeld /\ D!OnlyEdgePansStop) /\ F!FocusIsKept => OverlaysHoldThePage
  BY DEF OverlaysHoldThePage
<1> QED
  BY <1>1, <1>2, <1>3, <1>4, <1>5, <1>6, PTL DEF PageSpec


-------------------------------------------------------------------------------
(* The update of the service worker.                                       *)

Hears(t) == \E i \in DOMAIN inbox[t] : inbox[t][i] = "message"

\* Updates that apply by themselves are counted, and a page of another version than the
\* active one is being reloaded, is still to hear of it, or could not.
UpdateInv ==
  /\ active \in 1 .. MaxVersion /\ waiting \in 0 .. MaxVersion
  /\ page \in [Tabs -> S!Page] /\ inbox \in [Tabs -> Seq(S!Events)]
  /\ count \in [Tabs -> 0 .. MaxReloads] /\ autos \in [Tabs -> Nat]
  /\ \A t \in Tabs : autos[t] <= count[t]
  /\ \A t \in Tabs : \/ page[t].version = active \/ page[t].refreshing \/ page[t].missed
                     \/ Hears(t)

\* What a step within one tab may do to its page.
Continues(p, q) ==
  /\ q \in S!Page /\ q.version = p.version /\ q.missed = p.missed
  /\ p.refreshing => q.refreshing

LEMMA RecordedGrows ==
  ASSUME UpdateInv, NEW t \in Tabs
  PROVE  /\ S!Recorded(t) \in 0 .. MaxReloads /\ count[t] <= S!Recorded(t)
         /\ count[t] < MaxReloads => S!Recorded(t) = count[t] + 1
  BY PageAssumption DEF UpdateInv, S!Recorded

\* A step that leaves the worker alone, goes on with the page of one tab and loses no
\* message but to a reload.
LEMMA TabKeepsUpdates ==
  ASSUME UpdateInv, NEW t \in Tabs, NEW q, Continues(page[t], q),
         page' = [page EXCEPT ![t] = q], UNCHANGED <<active, waiting>>,
         inbox' \in [Tabs -> Seq(S!Events)],
         \A u \in Tabs : Hears(u) => Hears(u)' \/ page'[u].refreshing,
         \/ UNCHANGED <<count, autos>>
         \/ count' = [count EXCEPT ![t] = S!Recorded(t)] /\ UNCHANGED autos
         \/ /\ count[t] < MaxReloads
            /\ count' = [count EXCEPT ![t] = S!Recorded(t)] /\ autos' = [autos EXCEPT ![t] = @ + 1]
  PROVE  UpdateInv'
<1>1. page' \in [Tabs -> S!Page] /\ page'[t] = q /\ \A u \in Tabs \ {t} : page'[u] = page[u]
  BY DEF UpdateInv, Continues
<1>2. S!Recorded(t) \in 0 .. MaxReloads /\ autos[t] \in Nat /\ count[t] \in 0 .. MaxReloads
      /\ count[t] <= S!Recorded(t) /\ (count[t] < MaxReloads => S!Recorded(t) = count[t] + 1)
  BY RecordedGrows DEF UpdateInv
<1>3. count' \in [Tabs -> 0 .. MaxReloads]
  BY <1>2 DEF UpdateInv
<1>4. autos' \in [Tabs -> Nat]
  BY <1>2 DEF UpdateInv
<1>5. autos'[t] <= count'[t]
  <2>1. autos[t] <= count[t]
    BY DEF UpdateInv
  <2> QED
    BY <1>2, <2>1, PageAssumption DEF UpdateInv
<1>6. \A u \in Tabs \ {t} : autos'[u] <= count'[u]
  BY DEF UpdateInv
<1>7. \A u \in Tabs : page'[u].version = active' \/ page'[u].refreshing \/ page'[u].missed \/ Hears(u)'
  BY <1>1 DEF UpdateInv, Continues
<1> QED
  BY <1>1, <1>3, <1>4, <1>5, <1>6, <1>7 DEF UpdateInv

LEMMA TryStartupKeeps ==
  ASSUME UpdateInv, NEW t \in Tabs, NEW q, NEW p, Continues(page[t], q), Continues(page[t], p),
         S!TryStartup(t, q, p), UNCHANGED <<active, waiting>>,
         inbox' \in [Tabs -> Seq(S!Events)],
         \A u \in Tabs : Hears(u) => Hears(u)'
  PROVE  UpdateInv'
<1>1. CASE S!Keep(t, q)
  BY <1>1, TabKeepsUpdates DEF S!Keep
<1>2. CASE S!Keep(t, p)
  BY <1>2, TabKeepsUpdates DEF S!Keep
<1>3. CASE /\ S!CanApplyStartup(t) /\ S!Apply(t, [q EXCEPT !.applied = TRUE])
           /\ autos' = [autos EXCEPT ![t] = @ + 1]
  <2> DEFINE r == [[q EXCEPT !.applied = TRUE] EXCEPT !.requested = TRUE]
  <2>1. page' = [page EXCEPT ![t] = r] /\ count' = [count EXCEPT ![t] = S!Recorded(t)]
    BY <1>3 DEF S!Apply
  <2>2. Continues(page[t], r)
    BY DEF Continues, S!Page
  <2>3. count[t] < MaxReloads
    BY <1>3 DEF S!CanApplyStartup, S!CanAutoApply
  <2> HIDE DEF r
  <2> QED
    BY <1>3, <2>1, <2>2, <2>3, TabKeepsUpdates
<1> QED
  BY <1>1, <1>2, <1>3 DEF S!TryStartup


\* What the tabs are told when a worker is installed or activates.
LEMMA SentKeeps ==
  ASSUME UpdateInv, NEW told_ \in Seq(S!Events)
  PROVE  /\ S!Sent(told_) \in [Tabs -> Seq(S!Events)]
         /\ \A t \in Tabs : S!Sent(told_)[t] \in {inbox[t], inbox[t] \o told_}
         /\ \A t \in Tabs : S!Listens(t) /\ ~page[t].refreshing => S!Sent(told_)[t] = inbox[t] \o told_
<1>1. \A t \in Tabs : inbox[t] \in Seq(S!Events) /\ inbox[t] \o told_ \in Seq(S!Events)
  BY DEF UpdateInv
<1> QED
  BY <1>1 DEF S!Sent

LEMMA LongerHears ==
  ASSUME NEW s \in Seq(S!Events), NEW u \in Seq(S!Events), NEW i \in DOMAIN s
  PROVE  i \in DOMAIN (s \o u) /\ (s \o u)[i] = s[i]
  OBVIOUS

LEMMA SecondIsHeard ==
  ASSUME NEW s \in Seq(S!Events), NEW u \in Seq(S!Events), Len(u) = 2
  PROVE  Len(s) + 2 \in DOMAIN (s \o u) /\ (s \o u)[Len(s) + 2] = u[2]
<1>1. Len(s) \in Nat
  OBVIOUS
<1> DEFINE E == S!Events
<1> HIDE DEF E
<1>2. s \in Seq(E) /\ u \in Seq(E)
  BY DEF E
<1>3. /\ s \o u \in Seq(E) /\ Len(s \o u) = Len(s) + Len(u)
      /\ \A i \in 1 .. Len(s) + Len(u) : (s \o u)[i] = IF i <= Len(s) THEN s[i] ELSE u[i - Len(s)]
  BY <1>2, ConcatProperties
<1>4. DOMAIN (s \o u) = 1 .. Len(s \o u)
  BY <1>3
<1>5. Len(s) + 2 \in 1 .. Len(s) + Len(u)
  BY <1>1
<1>6. (s \o u)[Len(s) + 2] = u[(Len(s) + 2) - Len(s)]
  BY <1>1, <1>3, <1>5
<1>7. (Len(s) + 2) - Len(s) = 2
  BY <1>1
<1> QED
  BY <1>3, <1>4, <1>5, <1>6, <1>7

LEMMA InstallKeeps == UpdateInv /\ S!Install => UpdateInv'
<1> SUFFICES ASSUME UpdateInv, S!Install PROVE UpdateInv'
  OBVIOUS
<1>1. <<"installed">> \in Seq(S!Events)
  BY DEF S!Events
<1>2. inbox' = S!Sent(<<"installed">>) /\ UNCHANGED <<active, page, count, autos>>
  BY DEF S!Install
<1>3. waiting' \in 0 .. MaxVersion
  BY PageAssumption DEF S!Install, UpdateInv
<1>4. inbox' \in [Tabs -> Seq(S!Events)]
  BY <1>1, <1>2, SentKeeps
<1>5. ASSUME NEW t \in Tabs, Hears(t) PROVE Hears(t)'
  <2>1. inbox[t] \in Seq(S!Events) /\ inbox'[t] \in {inbox[t], inbox[t] \o <<"installed">>}
    BY <1>1, <1>2, SentKeeps DEF UpdateInv
  <2>2. PICK i \in DOMAIN inbox[t] : inbox[t][i] = "message"
    BY <1>5 DEF Hears
  <2>3. i \in DOMAIN inbox'[t] /\ inbox'[t][i] = "message"
    BY <1>1, <2>1, <2>2, LongerHears
  <2> QED
    BY <2>3 DEF Hears
<1> QED
  BY <1>2, <1>3, <1>4, <1>5 DEF UpdateInv

LEMMA ActivateKeeps == UpdateInv /\ S!Activate => UpdateInv'
<1> SUFFICES ASSUME UpdateInv, S!Activate PROVE UpdateInv'
  OBVIOUS
<1> DEFINE both == <<"controllerchange", "message">>
<1>1. both \in Seq(S!Events) /\ both[2] = "message" /\ Len(both) = 2
  BY DEF S!Events
<1>2. /\ inbox' = S!Sent(both) /\ UNCHANGED <<count, autos>>
      /\ page' = [t \in Tabs |-> [page[t] EXCEPT !.missed = @ \/ ~S!Listens(t)]]
  BY DEF S!Activate
<1>3. active' \in 1 .. MaxVersion /\ waiting' \in 0 .. MaxVersion
  BY PageAssumption DEF S!Activate, UpdateInv
<1> HIDE DEF both
<1>4. inbox' \in [Tabs -> Seq(S!Events)]
  BY <1>1, <1>2, SentKeeps
<1>5. ASSUME NEW t \in Tabs PROVE page'[t] \in S!Page /\ (page'[t].refreshing \/ page'[t].missed \/ Hears(t)')
  <2>1. page[t] \in S!Page
    BY DEF UpdateInv
  <2>2. (page[t].missed \/ ~S!Listens(t)) \in BOOLEAN
    OBVIOUS
  <2>3. page'[t] = [page[t] EXCEPT !.missed = page[t].missed \/ ~S!Listens(t)]
    BY <1>2
  <2>4. page'[t] \in S!Page /\ page'[t].refreshing = page[t].refreshing
    BY <2>1, <2>2, <2>3 DEF S!Page
  <2>5. CASE S!Listens(t) /\ ~page[t].refreshing
    <3>1. inbox'[t] = inbox[t] \o both /\ inbox[t] \in Seq(S!Events)
      BY <1>1, <1>2, <2>5, SentKeeps DEF UpdateInv
    <3>2. Len(inbox[t]) + 2 \in DOMAIN inbox'[t] /\ inbox'[t][Len(inbox[t]) + 2] = "message"
      BY <1>1, <3>1, SecondIsHeard
    <3>3. Hears(t)'
      BY <3>2 DEF Hears
    <3> QED
      BY <2>4, <3>3
  <2>6. CASE ~S!Listens(t)
    <3>1. page'[t].missed
      BY <2>1, <2>3, <2>6 DEF S!Page
    <3> QED
      BY <2>4, <3>1
  <2>7. CASE page[t].refreshing
    BY <2>4, <2>7
  <2> QED
    BY <2>5, <2>6, <2>7
<1>6. page' \in [Tabs -> S!Page]
  BY <1>2, <1>5
<1> QED
  BY <1>2, <1>3, <1>4, <1>5, <1>6 DEF UpdateInv

LEMMA FreshKeeps ==
  ASSUME UpdateInv, NEW startup \in BOOLEAN
  PROVE  S!Fresh(startup) \in S!Page /\ S!Fresh(startup).version = active
<1>1. active \in 1 .. MaxVersion /\ 0 \in 0 .. Grace + 1
  BY PageAssumption DEF UpdateInv
<1> QED
  BY <1>1 DEF S!Fresh, S!Page

LEMMA LoadKeeps ==
  ASSUME UpdateInv, NEW t \in Tabs, S!Load(t)
  PROVE  UpdateInv'
<1>1. PICK startup \in BOOLEAN : page' = [page EXCEPT ![t] = S!Fresh(startup)]
  BY DEF S!Load
<1>2. inbox' = [inbox EXCEPT ![t] = <<>>] /\ UNCHANGED <<active, waiting, count, autos>>
  BY DEF S!Load
<1>3. S!Fresh(startup) \in S!Page /\ S!Fresh(startup).version = active
  BY FreshKeeps
<1>4. page' \in [Tabs -> S!Page] /\ page'[t].version = active /\ \A u \in Tabs \ {t} : page'[u] = page[u]
  BY <1>1, <1>3 DEF UpdateInv
<1>5. <<>> \in Seq(S!Events)
  OBVIOUS
<1>6. inbox' \in [Tabs -> Seq(S!Events)] /\ \A u \in Tabs \ {t} : inbox'[u] = inbox[u]
  BY <1>2, <1>5 DEF UpdateInv
<1> QED
  BY <1>2, <1>4, <1>6 DEF UpdateInv, Hears

\* Steps that begin with the page of a tab and change some of its fields.
LEMMA FieldsContinue ==
  ASSUME NEW p \in S!Page
  PROVE  /\ Continues(p, p)
         /\ \A i \in {"checks", "done"} : Continues(p, [p EXCEPT !.init = i])
         /\ \A b \in BOOLEAN : Continues(p, [p EXCEPT !.banner = b])
         /\ \A b \in BOOLEAN : Continues(p, [p EXCEPT !.resets = b])
         /\ \A b \in BOOLEAN : Continues(p, [p EXCEPT !.requested = b])
         /\ Continues(p, [p EXCEPT !.refreshing = TRUE])
         /\ \A a \in 0 .. Grace + 1 : Continues(p, [p EXCEPT !.age = a])
  BY DEF Continues, S!Page

LEMMA DispatchKeeps ==
  ASSUME UpdateInv, NEW t \in Tabs, S!Dispatch(t)
  PROVE  UpdateInv'
<1> DEFINE p == page[t]
<1>1. p \in S!Page /\ inbox[t] \in Seq(S!Events) /\ inbox[t] # <<>>
  BY DEF UpdateInv, S!Dispatch
<1>2. inbox' = [inbox EXCEPT ![t] = Tail(inbox[t])] /\ UNCHANGED <<active, waiting>>
  BY DEF S!Dispatch
<1>3. Tail(inbox[t]) \in Seq(S!Events)
  BY <1>1
<1>4. inbox' \in [Tabs -> Seq(S!Events)] /\ \A u \in Tabs \ {t} : inbox'[u] = inbox[u]
  BY <1>2, <1>3 DEF UpdateInv
<1>5. inbox'[t] = Tail(inbox[t])
  BY <1>2 DEF UpdateInv
<1>6. ASSUME Head(inbox[t]) # "message", NEW u \in Tabs, Hears(u) PROVE Hears(u)'
  <2>1. CASE u # t
    BY <1>4, <1>6, <2>1 DEF Hears
  <2>2. CASE u = t
    <3>1. PICK i \in DOMAIN inbox[t] : inbox[t][i] = "message"
      BY <1>6, <2>2 DEF Hears
    <3>2. i # 1
      BY <1>1, <1>6, <3>1
    <3>3. i - 1 \in DOMAIN Tail(inbox[t]) /\ Tail(inbox[t])[i - 1] = "message"
      BY <1>1, <3>1, <3>2
    <3> QED
      BY <1>5, <2>2, <3>3 DEF Hears
  <2> QED
    BY <2>1, <2>2
<1>7. \A u \in Tabs \ {t} : Hears(u) => Hears(u)'
  BY <1>4 DEF Hears
<1>8. /\ Continues(p, p) /\ Continues(p, [p EXCEPT !.banner = TRUE])
      /\ Continues(p, [p EXCEPT !.refreshing = TRUE])
  BY <1>1, FieldsContinue
<1>9. CASE Head(inbox[t]) = "installed" /\ S!TryStartup(t, p, [p EXCEPT !.banner = TRUE])
  <2>1. \A u \in Tabs : Hears(u) => Hears(u)'
    BY <1>6, <1>9
  <2> HIDE DEF Hears
  <2> QED
    BY <1>2, <1>4, <1>8, <1>9, <2>1, TryStartupKeeps
<1>10. CASE /\ Head(inbox[t]) = "controllerchange"
            /\ S!Keep(t, IF p.requested THEN [p EXCEPT !.refreshing = TRUE] ELSE p)
  <2>1. \A u \in Tabs : Hears(u) => Hears(u)'
    BY <1>6, <1>10
  <2> DEFINE q == IF p.requested THEN [p EXCEPT !.refreshing = TRUE] ELSE p
  <2>2. Continues(page[t], q) /\ page' = [page EXCEPT ![t] = q] /\ UNCHANGED <<count, autos>>
    BY <1>8, <1>10 DEF S!Keep
  <2> HIDE DEF q
  <2> QED
    BY <1>2, <1>4, <2>1, <2>2, TabKeepsUpdates
<1>11. CASE Head(inbox[t]) = "message"
  <2> DEFINE q == [p EXCEPT !.refreshing = TRUE]
  <2>1. page' = [page EXCEPT ![t] = q] /\ UNCHANGED autos
        /\ (UNCHANGED count \/ count' = [count EXCEPT ![t] = S!Recorded(t)])
    <3>1. CASE S!ReloadsOnMessage(t)
      BY <1>11, <3>1 DEF S!Dispatch
    <3>2. CASE ~S!ReloadsOnMessage(t)
      <4>1. page' = [page EXCEPT ![t] = p] /\ UNCHANGED <<count, autos>>
        BY <1>11, <3>2 DEF S!Dispatch, S!Keep
      <4>2. p = q
        BY <1>1, <3>2 DEF S!ReloadsOnMessage, S!Page
      <4> QED
        BY <4>1, <4>2
    <3> QED
      BY <3>1, <3>2
  <2>2. Continues(page[t], q) /\ q.refreshing
    BY <1>1, <1>8 DEF S!Page
  <2> HIDE DEF q
  <2>3. page'[t].refreshing
    BY <2>1, <2>2 DEF UpdateInv
  <2>4. \A u \in Tabs : Hears(u) => Hears(u)' \/ page'[u].refreshing
    BY <1>7, <2>3
  <2> QED
    BY <1>2, <1>4, <2>1, <2>2, <2>4, TabKeepsUpdates
<1>12. \/ Head(inbox[t]) = "installed" /\ S!TryStartup(t, p, [p EXCEPT !.banner = TRUE])
       \/ /\ Head(inbox[t]) = "controllerchange"
          /\ S!Keep(t, IF p.requested THEN [p EXCEPT !.refreshing = TRUE] ELSE p)
       \/ Head(inbox[t]) = "message"
  BY DEF S!Dispatch
<1> QED
  BY <1>9, <1>10, <1>11, <1>12

LEMMA UpdateStep == UpdateInv /\ [S!Next]_svars => UpdateInv'
<1> SUFFICES ASSUME UpdateInv, [S!Next]_svars PROVE UpdateInv'
  OBVIOUS
<1>1. ASSUME UNCHANGED inbox PROVE /\ inbox' \in [Tabs -> Seq(S!Events)]
                                   /\ \A u \in Tabs : Hears(u) => Hears(u)'
  BY <1>1 DEF UpdateInv, Hears
<1>2. \A t \in Tabs : page[t] \in S!Page
  BY DEF UpdateInv
<1>3. ASSUME NEW t \in Tabs, S!Registers(t) PROVE UpdateInv'
  <2>1. Continues(page[t], [page[t] EXCEPT !.init = "done"]) /\ Continues(page[t], [page[t] EXCEPT !.init = "checks"])
    BY <1>2, FieldsContinue
  <2>2. UNCHANGED <<active, waiting, inbox>>
    BY <1>3 DEF S!Registers
  <2>3. CASE S!TryStartup(t, [page[t] EXCEPT !.init = "done"], [page[t] EXCEPT !.init = "checks"])
    BY <1>1, <2>1, <2>2, <2>3, TryStartupKeeps
  <2>4. CASE S!Keep(t, [page[t] EXCEPT !.init = "checks"])
    BY <1>1, <2>1, <2>2, <2>4, TabKeepsUpdates DEF S!Keep
  <2> QED
    BY <1>3, <2>3, <2>4 DEF S!Registers
<1>4. ASSUME NEW t \in Tabs, S!Checks(t) PROVE UpdateInv'
  <2> DEFINE p == [page[t] EXCEPT !.init = "done"]
  <2>1. /\ Continues(page[t], p) /\ Continues(page[t], [p EXCEPT !.resets = TRUE])
        /\ Continues(page[t], [p EXCEPT !.banner = TRUE, !.resets = TRUE])
    BY <1>2 DEF Continues, S!Page
  <2>2. UNCHANGED <<active, waiting, inbox>>
    BY <1>4 DEF S!Checks
  <2>3. \/ S!Keep(t, p) \/ S!Keep(t, [p EXCEPT !.resets = TRUE])
        \/ S!TryStartup(t, p, [p EXCEPT !.banner = TRUE, !.resets = TRUE])
    BY <1>4 DEF S!Checks
  <2> HIDE DEF p
  <2>4. CASE S!TryStartup(t, p, [p EXCEPT !.banner = TRUE, !.resets = TRUE])
    BY <1>1, <2>1, <2>2, <2>4, TryStartupKeeps
  <2>5. CASE S!Keep(t, p) \/ S!Keep(t, [p EXCEPT !.resets = TRUE])
    BY <1>1, <2>1, <2>2, <2>5, TabKeepsUpdates DEF S!Keep
  <2> QED
    BY <2>3, <2>4, <2>5
<1>5. ASSUME NEW t \in Tabs, S!ChainEnds(t) PROVE UpdateInv'
  <2> DEFINE q == [page[t] EXCEPT !.resets = FALSE]
  <2>1. /\ page' = [page EXCEPT ![t] = q] /\ UNCHANGED <<active, waiting, inbox>>
        /\ count' = [count EXCEPT ![t] = 0] /\ autos' = [autos EXCEPT ![t] = 0]
    BY <1>5 DEF S!ChainEnds
  <2>2. Continues(page[t], q)
    BY <1>2, FieldsContinue
  <2> HIDE DEF q
  <2>3. page' \in [Tabs -> S!Page] /\ page'[t] = q /\ \A u \in Tabs \ {t} : page'[u] = page[u]
    BY <2>1, <2>2 DEF UpdateInv, Continues
  <2>4. 0 \in 0 .. MaxReloads
    BY PageAssumption
  <2>5. /\ count' \in [Tabs -> 0 .. MaxReloads] /\ autos' \in [Tabs -> Nat]
        /\ \A u \in Tabs : autos'[u] <= count'[u]
    BY <2>1, <2>4 DEF UpdateInv
  <2>6. \A u \in Tabs : page'[u].version = active' \/ page'[u].refreshing \/ page'[u].missed \/ Hears(u)'
    BY <1>1, <2>1, <2>2, <2>3 DEF UpdateInv, Continues
  <2> QED
    BY <2>1, <2>3, <2>5, <2>6 DEF UpdateInv
<1>6. ASSUME NEW t \in Tabs, S!IntervalCheck(t) \/ S!Dismiss(t) PROVE UpdateInv'
  <2>1. Continues(page[t], [page[t] EXCEPT !.banner = TRUE]) /\ Continues(page[t], [page[t] EXCEPT !.banner = FALSE])
    BY <1>2, FieldsContinue
  <2>2. UNCHANGED <<active, waiting, inbox>>
    BY <1>6 DEF S!IntervalCheck, S!Dismiss
  <2>3. S!Keep(t, [page[t] EXCEPT !.banner = TRUE]) \/ S!Keep(t, [page[t] EXCEPT !.banner = FALSE])
    BY <1>6 DEF S!IntervalCheck, S!Dismiss
  <2> QED
    BY <1>1, <2>1, <2>2, <2>3, TabKeepsUpdates DEF S!Keep
<1>7. ASSUME NEW t \in Tabs, S!ApplyUpdate(t) PROVE UpdateInv'
  <2>1. /\ Continues(page[t], [page[t] EXCEPT !.requested = TRUE])
        /\ Continues(page[t], [page[t] EXCEPT !.refreshing = TRUE])
    BY <1>2, FieldsContinue
  <2>2. UNCHANGED <<active, waiting, inbox, autos>> /\ count' = [count EXCEPT ![t] = S!Recorded(t)]
    BY <1>7 DEF S!ApplyUpdate, S!Apply
  <2>3. \/ page' = [page EXCEPT ![t] = [page[t] EXCEPT !.requested = TRUE]]
        \/ page' = [page EXCEPT ![t] = [page[t] EXCEPT !.refreshing = TRUE]]
    BY <1>7 DEF S!ApplyUpdate, S!Apply
  <2> QED
    BY <1>1, <2>1, <2>2, <2>3, TabKeepsUpdates
<1>8. ASSUME NEW t \in Tabs, S!Tick(t) PROVE UpdateInv'
  <2> DEFINE q == [page[t] EXCEPT !.age = page[t].age + 1]
  <2>1. page' = [page EXCEPT ![t] = q] /\ UNCHANGED <<active, waiting, count, inbox, autos>>
    BY <1>8 DEF S!Tick
  <2>2. page[t].age + 1 \in 0 .. Grace + 1
    BY <1>2, <1>8, PageAssumption DEF S!Tick, S!Page
  <2>3. Continues(page[t], q)
    BY <1>2, <2>2, FieldsContinue
  <2> HIDE DEF q
  <2> QED
    BY <1>1, <2>1, <2>3, TabKeepsUpdates
<1>9. CASE UNCHANGED svars
  BY <1>9 DEF svars, UpdateInv, Hears
<1> QED
  BY <1>3, <1>4, <1>5, <1>6, <1>7, <1>8, <1>9, DispatchKeeps, LoadKeeps, InstallKeeps, ActivateKeeps DEF S!Next

\* Every page, however many versions are deployed: no tab applies more than MaxReloads
\* updates by itself in one chain, and every tab that could hear of an activation runs
\* the active version or is being reloaded (useServiceWorkerUpdate, serviceWorker).
THEOREM UpdatesSpreadHolds == PageSpec => []UpdatesSpread
<1>1. PageInit => UpdateInv
  <2> SUFFICES ASSUME S!Init PROVE UpdateInv
    BY PageStarts
  <2>1. active = 1 /\ waiting = 0 /\ 1 \in 1 .. MaxVersion /\ 0 \in 0 .. MaxVersion
    BY PageAssumption DEF S!Init
  <2>2. S!Fresh(TRUE) \in S!Page /\ S!Fresh(TRUE).version = active
    <3>1. 0 \in 0 .. Grace + 1
      BY PageAssumption
    <3> QED
      BY <2>1, <3>1 DEF S!Fresh, S!Page
  <2>3. page \in [Tabs -> S!Page] /\ \A t \in Tabs : page[t].version = active
    BY <2>2 DEF S!Init
  <2>4. <<>> \in Seq(S!Events) /\ 0 \in 0 .. MaxReloads
    BY PageAssumption
  <2>5. inbox \in [Tabs -> Seq(S!Events)]
    BY <2>4 DEF S!Init
  <2>6. /\ count \in [Tabs -> 0 .. MaxReloads] /\ autos \in [Tabs -> Nat]
        /\ \A t \in Tabs : autos[t] <= count[t]
    BY <2>4 DEF S!Init
  <2> QED
    BY <2>1, <2>3, <2>5, <2>6 DEF UpdateInv
<1>2. UpdateInv /\ [PageNext]_allVars => UpdateInv'
  BY PageMoves, UpdateStep
<1>3. UpdateInv => UpdatesSpread
  <2> SUFFICES ASSUME UpdateInv PROVE UpdatesSpread
    OBVIOUS
  <2>1. S!ChainIsBounded
    BY PageAssumption DEF UpdateInv, S!ChainIsBounded
  <2>2. S!TabsFollow
    BY DEF UpdateInv, S!TabsFollow, Hears
  <2> QED
    BY <2>1, <2>2 DEF UpdatesSpread
<1> QED
  BY <1>1, <1>2, <1>3, PTL DEF PageSpec


-------------------------------------------------------------------------------
(* The reports of transport errors.                                        *)

RecentKey == [key : Keys, at : Int]

\* Every recent key was heard, and what was heard within the interval of the host is a
\* recent key: Date.now() is only set back.
TransportInv ==
  /\ clock \in Nat /\ skew \in Int
  /\ delayed \subseteq [error : Errors, due : Nat]
  /\ recentKeys \in Seq(RecentKey)
  /\ heard \subseteq [key : Keys, at : Int, time : Nat]
  /\ \A r \in ElementsOf(recentKeys) : \E h \in heard : h.key = r.key /\ h.at = r.at
  /\ \A h \in heard : h.at >= h.time + skew
  /\ \A h \in heard : \/ clock - h.time >= KeyInterval
                      \/ \E r \in ElementsOf(recentKeys) : r.key = h.key /\ r.at = h.at

LEMMA PrunedKeysKeep ==
  ASSUME TransportInv
  PROVE  /\ T!PrunedKeys \in Seq(RecentKey)
         /\ ElementsOf(T!PrunedKeys) = {r \in ElementsOf(recentKeys) : T!Stays(r)}
<1> DEFINE s == recentKeys
           Wanted == {r \in RecentKey : T!Stays(r)}
           Body(kept, i) == IF i = 0 THEN <<>>
                            ELSE IF T!Stays(s[i]) THEN Append(kept[i - 1], s[i]) ELSE kept[i - 1]
           k == CHOOSE kept : kept = [i \in 0 .. Len(s) |-> Body(kept, i)]
<1>1. s \in Seq(RecentKey) /\ Len(s) \in Nat /\ DOMAIN s = 1 .. Len(s) /\ \A i \in 1 .. Len(s) : s[i] \in RecentKey
  BY DEF TransportInv
<1>2. \A kept : KeptOf(s, Wanted, kept, Len(s)) <=> kept = [i \in 0 .. Len(s) |-> Body(kept, i)]
  <2>1. ASSUME NEW i \in 0 .. Len(s), i # 0 PROVE s[i] \in Wanted <=> T!Stays(s[i])
    BY <1>1, <2>1
  <2> HIDE DEF Wanted
  <2> QED
    BY <2>1 DEF KeptOf
<1>3. \E kept : KeptOf(s, Wanted, kept, Len(s))
  <2> HIDE DEF Wanted, s
  <2> QED
    BY <1>1, KeptExists
<1>4. KeptOf(s, Wanted, k, Len(s))
  <2> HIDE DEF Wanted, Body
  <2> QED
    BY <1>2, <1>3
<1>5. T!PrunedKeys = k[Len(s)]
  BY DEF T!PrunedKeys
<1> HIDE DEF k, Wanted
<1>6. k[Len(s)] \in Seq(RecentKey) /\ ElementsOf(k[Len(s)]) = ElementsOf(s) \cap Wanted
  <2> HIDE DEF s
  <2> QED
    BY <1>1, <1>4, FilterKeeps
<1>7. ElementsOf(s) \cap Wanted = {r \in ElementsOf(s) : T!Stays(r)}
  BY <1>1 DEF ElementsOf, Wanted
<1> QED
  BY <1>5, <1>6, <1>7

\* Recording a key leaves one entry of it.
LEMMA RecordedKeeps ==
  ASSUME TransportInv, NEW k \in Keys
  PROVE  /\ T!Recorded(k) \in Seq(RecentKey)
         /\ ElementsOf(T!Recorded(k)) =
              {r \in ElementsOf(T!PrunedKeys) : r.key # k} \cup {[key |-> k, at |-> T!Now]}
<1> DEFINE s == T!PrunedKeys
           new == [key |-> k, at |-> T!Now]
<1>1. s \in Seq(RecentKey)
  BY PrunedKeysKeep
<1>2. new \in RecentKey /\ new.key = k
  BY DEF TransportInv, RecentKey, T!Now
<1>3. T!Recorded(k) = IF \E i \in DOMAIN s : s[i].key = k
                        THEN [i \in DOMAIN s |-> IF s[i].key = k THEN new ELSE s[i]]
                        ELSE Append(s, new)
  BY DEF T!Recorded
<1> HIDE DEF s, new
<1>4. CASE \E i \in DOMAIN s : s[i].key = k
  <2> DEFINE u == [i \in DOMAIN s |-> IF s[i].key = k THEN new ELSE s[i]]
  <2>1. u \in Seq(RecentKey) /\ DOMAIN u = DOMAIN s
    BY <1>1, <1>2
  <2>2. \A i \in DOMAIN s : u[i] = IF s[i].key = k THEN new ELSE s[i]
    OBVIOUS
  <2>3. T!Recorded(k) = u
    BY <1>3, <1>4
  <2> HIDE DEF u
  <2>4. ElementsOf(u) = {r \in ElementsOf(s) : r.key # k} \cup {new}
    BY <1>2, <1>4, <2>1, <2>2 DEF ElementsOf
  <2> QED
    BY <2>1, <2>3, <2>4 DEF s, new
<1>5. CASE ~\E i \in DOMAIN s : s[i].key = k
  <2>1. T!Recorded(k) = Append(s, new)
    BY <1>3, <1>5
  <2>2. Append(s, new) \in Seq(RecentKey) /\ ElementsOf(Append(s, new)) = ElementsOf(s) \cup {new}
    BY <1>1, <1>2, AppendKeeps
  <2>3. ElementsOf(s) = {r \in ElementsOf(s) : r.key # k}
    BY <1>5 DEF ElementsOf
  <2> QED
    BY <2>1, <2>2, <2>3 DEF s, new
<1> QED
  BY <1>4, <1>5

LEMMA RecentlyByElements ==
  ASSUME NEW k
  PROVE  T!Recently(k) <=> \E r \in ElementsOf(T!PrunedKeys) : r.key = k /\ T!Now - r.at < KeyInterval
BY DEF T!Recently, ElementsOf

\* What was heard of a key that is not recent was heard an interval of the host ago.
LEMMA NotRecentIsLongAgo ==
  ASSUME TransportInv, NEW h \in heard, h.key \notin T!Evicted, ~T!Recently(h.key)
  PROVE  clock - h.time >= KeyInterval
<1> SUFFICES ASSUME NEW r \in ElementsOf(recentKeys), r.key = h.key, r.at = h.at
             PROVE  clock - h.time >= KeyInterval
  BY DEF TransportInv
<1>1. h.at \in Int /\ h.time \in Nat /\ clock \in Nat /\ skew \in Int /\ KeyInterval \in Nat /\ h.at >= h.time + skew
  BY PageAssumption DEF TransportInv
<1>2. T!Now - r.at >= KeyInterval
  <2>1. CASE T!Stays(r)
    <3>1. r \in ElementsOf(T!PrunedKeys)
      BY <2>1, PrunedKeysKeep
    <3>2. ~(T!Now - r.at < KeyInterval)
      BY <3>1, RecentlyByElements
    <3> QED
      BY <1>1, <3>2 DEF T!Now
  <2>2. CASE ~T!Stays(r)
    BY <1>1, <2>2 DEF T!Stays, T!Now
  <2> QED
    BY <2>1, <2>2
<1> QED
  BY <1>1, <1>2 DEF T!Now

\* What a step says of the reports.
TransportFair ==
  /\ \A t \in delayed \ delayed' : ~T!Silent(t.error) =>
       \E h \in heard' : h.key = KeyOf[t.error] /\ T!Now - h.at < KeyInterval
  /\ \A h \in heard' \ heard, g \in heard \cap heard' : h.key = g.key => h.time - g.time >= KeyInterval

LEMMA DelayEndsKeeps ==
  ASSUME TransportInv, NEW t \in delayed, T!DelayEnds(t)
  PROVE  TransportInv' /\ TransportFair
<1> DEFINE k == KeyOf[t.error]
           new == [key |-> k, at |-> T!Now, time |-> clock]
           old == {h \in heard : h.key \notin T!Evicted}
<1>1. k \in Keys /\ t.error \in Errors
  BY PageAssumption DEF TransportInv
<1>2. /\ delayed' = delayed \ {t} /\ UNCHANGED <<clock, skew>>
      /\ recentKeys' = IF T!Silent(t.error) THEN recentKeys
                       ELSE IF T!Recently(k) THEN T!PrunedKeys ELSE T!Recorded(k)
      /\ heard' = IF T!Silent(t.error) THEN heard
                  ELSE old \cup (IF T!Recently(k) THEN {} ELSE {new})
  BY DEF T!DelayEnds, T!LooksUp
<1>3. T!Now \in Int /\ clock \in Nat /\ skew \in Int /\ KeyInterval \in Nat \ {0}
  BY PageAssumption DEF TransportInv, T!Now
<1>4. new \in [key : Keys, at : Int, time : Nat] /\ new.key = k /\ new.at = T!Now /\ new.time = clock
  BY <1>1, <1>3
<1> HIDE DEF k, new
<1>5. CASE T!Silent(t.error)
  <2>1. UNCHANGED <<clock, skew, recentKeys, heard>>
    BY <1>2, <1>5
  <2>2. TransportInv'
    <3>1. ElementsOf(recentKeys') = ElementsOf(recentKeys) /\ delayed' \subseteq delayed
      BY <1>2, <2>1
    <3> QED
      BY <2>1, <3>1 DEF TransportInv
  <2>3. \A u \in delayed \ delayed' : u = t
    BY <1>2
  <2> QED
    BY <1>5, <2>1, <2>2, <2>3 DEF TransportFair
<1>6. CASE ~T!Silent(t.error) /\ T!Recently(k)
  <2>1. recentKeys' = T!PrunedKeys /\ heard' = old
    BY <1>2, <1>6
  <2>2. recentKeys' \in Seq(RecentKey) /\ ElementsOf(recentKeys') = {r \in ElementsOf(recentKeys) : T!Stays(r)}
    BY <2>1, PrunedKeysKeep
  <2>3. \A r \in ElementsOf(recentKeys') : \E h \in heard' : h.key = r.key /\ h.at = r.at
    BY <2>1, <2>2 DEF TransportInv, T!Stays
  <2>4. ASSUME NEW h \in heard', ~(clock - h.time >= KeyInterval)
        PROVE  \E r \in ElementsOf(recentKeys') : r.key = h.key /\ r.at = h.at
    <3>1. h \in heard /\ h.key \notin T!Evicted
      BY <2>1
    <3>2. PICK r \in ElementsOf(recentKeys) : r.key = h.key /\ r.at = h.at
      BY <2>4, <3>1 DEF TransportInv
    <3>3. T!Now - r.at <= KeyInterval
      <4>1. h.at \in Int /\ h.time \in Nat /\ h.at >= h.time + skew
        BY <3>1 DEF TransportInv
      <4> QED
        BY <1>3, <2>4, <3>2, <4>1 DEF T!Now
    <3> QED
      BY <2>2, <3>1, <3>2, <3>3 DEF T!Stays
  <2>5. TransportInv'
    BY <1>2, <2>1, <2>2, <2>3, <2>4 DEF TransportInv
  <2>6. \E h \in heard' : h.key = k /\ T!Now - h.at < KeyInterval
    <3>1. PICK r \in ElementsOf(recentKeys') : r.key = k /\ T!Now - r.at < KeyInterval
      BY <1>6, <2>1, RecentlyByElements
    <3> QED
      BY <2>3, <3>1
  <2>7. heard' \ heard = {}
    BY <2>1
  <2>8. \A u \in delayed \ delayed' : u = t
    BY <1>2
  <2> QED
    BY <2>5, <2>6, <2>7, <2>8 DEF TransportFair, k
<1>7. CASE ~T!Silent(t.error) /\ ~T!Recently(k)
  <2>1. recentKeys' = T!Recorded(k) /\ heard' = old \cup {new}
    BY <1>2, <1>7
  <2>2. /\ recentKeys' \in Seq(RecentKey)
        /\ ElementsOf(recentKeys') =
             {r \in ElementsOf(T!PrunedKeys) : r.key # k} \cup {[key |-> k, at |-> T!Now]}
    BY <1>1, <2>1, RecordedKeeps DEF k
  <2>3. ElementsOf(T!PrunedKeys) = {r \in ElementsOf(recentKeys) : T!Stays(r)}
    BY PrunedKeysKeep
  <2>4. \A r \in ElementsOf(recentKeys') : \E h \in heard' : h.key = r.key /\ h.at = r.at
    <3>1. ASSUME NEW r \in ElementsOf(T!PrunedKeys) PROVE \E h \in heard' : h.key = r.key /\ h.at = r.at
      BY <2>1, <2>3 DEF TransportInv, T!Stays
    <3> QED
      BY <1>4, <2>1, <2>2, <3>1
  <2>5. ASSUME NEW h \in old, h.key = k PROVE clock - h.time >= KeyInterval
    BY <1>7, <2>5, NotRecentIsLongAgo
  <2>6. ASSUME NEW h \in heard', ~(clock - h.time >= KeyInterval)
        PROVE  \E r \in ElementsOf(recentKeys') : r.key = h.key /\ r.at = h.at
    <3>1. CASE h = new
      <4> DEFINE r == [key |-> k, at |-> T!Now]
      <4>1. r \in ElementsOf(recentKeys') /\ r.key = k /\ r.at = T!Now
        BY <2>2
      <4> HIDE DEF r
      <4> QED
        BY <1>4, <3>1, <4>1
    <3>2. CASE h \in old
      <4>1. PICK r \in ElementsOf(recentKeys) : r.key = h.key /\ r.at = h.at
        BY <2>6, <3>2 DEF TransportInv
      <4>2. T!Now - r.at <= KeyInterval
        <5>1. h.at \in Int /\ h.time \in Nat /\ h.at >= h.time + skew
          BY <3>2 DEF TransportInv
        <5> QED
          BY <1>3, <2>6, <4>1, <5>1 DEF T!Now
      <4>3. r \in ElementsOf(T!PrunedKeys)
        BY <2>3, <3>2, <4>1, <4>2 DEF T!Stays
      <4>4. r.key # k
        BY <2>5, <2>6, <3>2, <4>1
      <4> QED
        BY <2>2, <4>1, <4>3, <4>4
    <3> QED
      BY <2>1, <3>1, <3>2
  <2>7. \A h \in heard' : h.at >= h.time + skew
    BY <1>3, <1>4, <2>1 DEF TransportInv, T!Now
  <2>8. heard' \subseteq [key : Keys, at : Int, time : Nat]
    BY <1>4, <2>1 DEF TransportInv
  <2>9. TransportInv'
    BY <1>2, <2>2, <2>4, <2>6, <2>7, <2>8 DEF TransportInv
  <2>10. new \in heard' /\ T!Now - new.at < KeyInterval
    BY <1>3, <1>4, <2>1
  <2>11. \A h \in heard' \ heard, g \in heard \cap heard' : h.key = g.key => h.time - g.time >= KeyInterval
    <3> SUFFICES ASSUME NEW h \in heard' \ heard, NEW g \in heard \cap heard', h.key = g.key
                 PROVE  h.time - g.time >= KeyInterval
      OBVIOUS
    <3>1. h = new /\ new \notin heard
      BY <2>1
    <3>2. g \in old
      BY <2>1, <3>1
    <3> QED
      BY <1>4, <2>5, <3>1, <3>2
  <2>12. \A u \in delayed \ delayed' : u = t
    BY <1>2
  <2> QED
    BY <1>4, <2>9, <2>10, <2>11, <2>12 DEF TransportFair, k
<1> QED
  BY <1>5, <1>6, <1>7

LEMMA TransportStep == TransportInv /\ [T!Next]_tvars => TransportInv' /\ [TransportFair]_tvars
<1> SUFFICES ASSUME TransportInv, [T!Next]_tvars PROVE TransportInv' /\ [TransportFair]_tvars
  OBVIOUS
<1>1. ASSUME NEW e \in Errors, T!ReportTransportError(e) PROVE TransportInv' /\ TransportFair
  <2>1. /\ delayed' = delayed \cup {[error |-> e, due |-> clock + Delay]}
        /\ UNCHANGED <<recentKeys, heard, clock, skew>>
    BY <1>1 DEF T!ReportTransportError
  <2>2. [error |-> e, due |-> clock + Delay] \in [error : Errors, due : Nat]
    BY PageAssumption DEF TransportInv
  <2> QED
    BY <2>1, <2>2 DEF TransportInv, TransportFair, ElementsOf
<1>2. ASSUME NEW e \in Errors, T!SuppressTransportReport(e) PROVE TransportInv' /\ TransportFair
  BY <1>2 DEF T!SuppressTransportReport, TransportInv, TransportFair, ElementsOf
<1>3. CASE T!ChangeReporter
  <2>1. recentKeys' = <<>> /\ heard' = {} /\ UNCHANGED <<delayed, clock, skew>>
    BY <1>3 DEF T!ChangeReporter
  <2>2. recentKeys' \in Seq(RecentKey) /\ ElementsOf(recentKeys') = {}
    BY <2>1 DEF ElementsOf
  <2> QED
    BY <2>1, <2>2 DEF TransportInv, TransportFair
<1>4. CASE T!Tick
  <2>1. clock' = clock + 1 /\ UNCHANGED <<delayed, recentKeys, heard, skew>>
    BY <1>4 DEF T!Tick
  <2>2. \A h \in heard : clock - h.time >= KeyInterval => clock' - h.time >= KeyInterval
    BY <2>1, PageAssumption DEF TransportInv
  <2>3. clock' \in Nat
    BY <2>1 DEF TransportInv
  <2> QED
    <3>1. ElementsOf(recentKeys') = ElementsOf(recentKeys)
      BY <2>1
    <3>2. TransportInv'
      BY <2>1, <2>2, <2>3, <3>1 DEF TransportInv
    <3> QED
      BY <2>1, <3>2 DEF TransportFair
<1>5. CASE T!SetBack
  <2>1. skew' = skew - 1 /\ UNCHANGED <<delayed, recentKeys, heard, clock>>
    BY <1>5 DEF T!SetBack
  <2>2. skew' \in Int /\ \A h \in heard : h.at >= h.time + skew'
    BY <2>1 DEF TransportInv
  <2> QED
    BY <2>1, <2>2 DEF TransportInv, TransportFair, ElementsOf
<1>6. CASE UNCHANGED tvars
  BY <1>6 DEF tvars, TransportInv, ElementsOf
<1> QED
  BY <1>1, <1>2, <1>3, <1>4, <1>5, <1>6, DelayEndsKeeps DEF T!Next

\* Every page, however many keys there is room for and however often Date.now() is set
\* back: a failure is passed over in silence only for a reason, and no endpoint is
\* reported twice within an interval of the host (reportTransportError).
THEOREM TransportIsFairHolds == PageSpec => TransportIsFair
<1>1. PageInit => TransportInv
  <2> SUFFICES ASSUME T!Init PROVE TransportInv
    BY PageStarts
  <2>1. recentKeys = <<>> /\ <<>> \in Seq(RecentKey) /\ ElementsOf(<<>>) = {}
    BY DEF T!Init, ElementsOf
  <2> QED
    BY <2>1 DEF T!Init, TransportInv
<1>2. TransportInv /\ [PageNext]_allVars => TransportInv'
  BY PageMoves, TransportStep
<1>3. TransportInv /\ [PageNext]_allVars => [TransportFair]_tvars
  BY PageMoves, TransportStep
<1>4. [][TransportFair]_tvars => T!SilenceIsJustified /\ T!OneReportPerKey
  <2> DEFINE A == \A t \in delayed \ delayed' : ~T!Silent(t.error) =>
                    \E h \in heard' : h.key = KeyOf[t.error] /\ T!Now - h.at < KeyInterval
             B == \A h \in heard' \ heard, g \in heard \cap heard' :
                    h.key = g.key => h.time - g.time >= KeyInterval
  <2>1. [TransportFair]_tvars => [A]_tvars /\ [B]_tvars
    BY DEF TransportFair
  <2>2. [][A]_tvars => T!SilenceIsJustified
    BY DEF T!SilenceIsJustified, T!vars, tvars
  <2>3. [][B]_tvars => T!OneReportPerKey
    BY DEF T!OneReportPerKey, T!vars, tvars
  <2> QED
    BY <2>1, <2>2, <2>3, PTL
<1>5. T!SilenceIsJustified /\ T!OneReportPerKey => TransportIsFair
  BY DEF TransportIsFair
<1> QED
  BY <1>1, <1>2, <1>3, <1>4, <1>5, PTL DEF PageSpec
===============================================================================
