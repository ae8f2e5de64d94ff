---------------------------- MODULE QueryClientProofs ---------------------------
(***************************************************************************)
(* Restores, broadcasts and optimistic mutations proved for every number   *)
(* of tabs, keys, operations, mutations, writes and changes of session.    *)
(***************************************************************************)
EXTENDS MCQueryClient, FiniteSetTheorems, SequenceTheorems, TLAPS

(***************************************************************************)
(* The inductive invariants.                                               *)
(***************************************************************************)

\* Optimistic mutations.

MutationTypes ==
  /\ O!TypeOK /\ {overlapped, raced} \subseteq BOOLEAN

\* A request answers with what the server has held, and one that began outside of
\* every mutation ends outside of them with what the server holds.
RequestsAreApart ==
  /\ request \notin {NoRequest, Sent} => request \subseteq accepted
  /\ ~raced /\ request # NoRequest => O!Quiet /\ request \in {Sent, accepted}

OneAtATime ==
  ~overlapped => \A m, n \in Mutations : O!UnderWay(m) /\ O!UnderWay(n) => m = n

\* Nobody knows of a mutation before its patch, nor does its snapshot.
NotYetKnown ==
  \A m \in Mutations :
    /\ step[m] \in {"idle", "cancelling"} =>
         /\ m \notin accepted /\ (cache # NoData => m \notin cache)
         /\ \A n \in Mutations : previous[n] # NoData => m \notin previous[n]
    /\ step[m] \in {"patched", "refused"} => m \notin accepted
    /\ step[m] \in {"accepted", "lost"} => m \in accepted
    /\ previous[m] # NoData => m \notin previous[m]

\* The data is exact but for mutations whose answer was lost.
Exact(d, s) == d = NoData \/ d = s \/ \E m \in O!Ended : m \in s \ d

\* The data is the snapshot of the mutation with its patch.
PatchOf(m) == cache = IF previous[m] = NoData THEN NoData ELSE previous[m] \cup {m}

\* What a mutation that is alone will leave.
Leaves(m) ==
  /\ step[m] = "cancelling" => Exact(cache, accepted)
  /\ step[m] \in {"patched", "refused"} => PatchOf(m) /\ Exact(previous[m], accepted)
  /\ step[m] = "lost" => PatchOf(m) /\ Exact(previous[m], accepted \ {m})
  /\ step[m] = "accepted" => Exact(cache, accepted)
  /\ step[m] = "answered" => Exact(cache, accepted) \/ m \in accepted \ cache

AloneIsExact ==
  ~raced /\ ~overlapped /\ created = {} =>
    /\ O!Quiet => Exact(cache, accepted)
    /\ \A m \in Mutations : O!UnderWay(m) => Leaves(m)

MutationInv ==
  /\ MutationTypes /\ RequestsAreApart /\ OneAtATime /\ NotYetKnown /\ AloneIsExact
  /\ StaleIsMarked

\* Broadcasts.

BroadcastTypes ==
  /\ B!TypeOK /\ matching \in [Tabs -> SUBSET Keys] /\ installed \in {"events", "scoped"}
  /\ refetch \in {"none", "active"} /\ posted \in Nat /\ causes \in Nat

AnnouncedIsWritten == \A t \in Tabs, k \in Keys : announced[t][k] <= server[k]

\* A message about the key is on its way to the tab.
Told(t, k) == \E i \in DOMAIN channel[t] : channel[t][i].key = k

\* The data, the answer of the request and what its cancellation brings back are no
\* older than the version, or marked.
NoOlder(q, v) ==
  /\ q.request \notin {NoRequest, Sent} => q.request >= v
  /\ q.data # B!NoAnswer /\ q.data < v => IF q.request = NoRequest THEN q.invalid ELSE q.before

TabsAreCurrent ==
  installed = "scoped" =>
    \A t \in Tabs \ closed : \A k \in matching[t] :
      Told(t, k) \/ NoOlder(query[t][k], announced[t][k])

BroadcastInv == BroadcastTypes /\ AnnouncedIsWritten /\ TabsAreCurrent /\ B!NoEndlessEcho

\* Restores.

RestoreTypes == R!TypeOK /\ Cardinality(R!Ids) \in Nat

\* No guarded operation is newer than the current one.
CurrentIsLast == \A o, p \in R!Ids : current = o /\ p > o => ~R!Guarded(p)

\* Restores read in a session, and so do the macrotasks they leave.
ReadsInSession ==
  /\ \A o \in R!Ids : ops[o].step = "reading" => ops[o].scope # NoScope
  /\ \A o \in R!Ids : <<o, "refresh">> \in tasks => ops[o].scope # NoScope

RestoreInv == RestoreTypes /\ CurrentIsLast /\ ReadsInSession /\ R!StampOfTheData

-------------------------------------------------------------------------------
(* Optimistic mutations.                                                   *)

LEMMA MutationInit == O!Init => MutationInv
<1> SUFFICES ASSUME O!Init PROVE MutationInv
  OBVIOUS
<1>1. MutationTypes
  BY DEF O!Init, MutationTypes, O!TypeOK, O!Data, O!Steps
<1>2. RequestsAreApart /\ OneAtATime
  BY DEF O!Init, RequestsAreApart, OneAtATime, O!UnderWay
<1>3. NotYetKnown
  BY DEF O!Init, NotYetKnown
<1>4. AloneIsExact
  BY DEF O!Init, AloneIsExact, Exact, O!UnderWay
<1>5. StaleIsMarked
  BY DEF O!Init, StaleIsMarked, O!StaleIsMarked, O!Ended
<1> QED
  BY <1>1, <1>2, <1>3, <1>4, <1>5 DEF MutationInv

\* Data is no request and not the absence of data.
LEMMA DataIsData ==
  ASSUME NEW d \in O!Data
  PROVE  d # NoRequest /\ d # Sent /\ d # NoData /\ NoRequest # Sent
BY QueryClientAssumption DEF O!Data

LEMMA StartFetchKeeps == ASSUME MutationInv, O!StartFetch PROVE MutationInv'
<1>1. MutationTypes'
  BY DEF MutationInv, MutationTypes, O!TypeOK, O!StartFetch, O!UnderWay
<1>2. RequestsAreApart'
  BY DEF MutationInv, MutationTypes, RequestsAreApart, O!StartFetch, O!Quiet, O!UnderWay
<1>3. OneAtATime' /\ NotYetKnown'
  BY DEF MutationInv, OneAtATime, NotYetKnown, O!StartFetch, O!UnderWay
<1>4. raced' = FALSE => raced = FALSE
  BY DEF MutationInv, MutationTypes, O!StartFetch
<1>5. AloneIsExact'
  BY <1>4 DEF MutationInv, AloneIsExact, O!StartFetch, O!Quiet, O!UnderWay, Leaves, Exact, PatchOf, O!Ended
<1>6. StaleIsMarked'
  BY QueryClientAssumption DEF StaleIsMarked, O!StaleIsMarked, O!StartFetch
<1> QED
  BY <1>1, <1>2, <1>3, <1>5, <1>6 DEF MutationInv

LEMMA ServerReadsKeeps == ASSUME MutationInv, O!ServerReads PROVE MutationInv'
<1>1. MutationTypes'
  BY DEF MutationInv, MutationTypes, O!TypeOK, O!ServerReads, O!history
<1>2. RequestsAreApart'
  BY QueryClientAssumption
     DEF MutationInv, RequestsAreApart, O!ServerReads, O!history, O!Quiet, O!UnderWay
<1>3. OneAtATime' /\ NotYetKnown'
  BY DEF MutationInv, OneAtATime, NotYetKnown, O!ServerReads, O!history, O!UnderWay
<1>4. AloneIsExact'
  BY DEF MutationInv, AloneIsExact, O!ServerReads, O!history, O!Quiet, O!UnderWay, Leaves, Exact,
         PatchOf, O!Ended
<1>5. accepted # NoRequest
  BY DataIsData DEF MutationInv, MutationTypes, O!TypeOK
<1>6. StaleIsMarked'
  BY <1>5 DEF StaleIsMarked, O!StaleIsMarked, O!ServerReads
<1> QED
  BY <1>1, <1>2, <1>3, <1>4, <1>6 DEF MutationInv

LEMMA FetchEndsKeeps == ASSUME MutationInv, O!FetchEnds PROVE MutationInv'
<1>1. /\ request \in O!Data /\ request \subseteq accepted
      /\ ~raced => O!Quiet /\ request = accepted
  BY DEF MutationInv, MutationTypes, O!TypeOK, RequestsAreApart, O!FetchEnds
<1>2. MutationTypes'
  BY <1>1 DEF MutationInv, MutationTypes, O!TypeOK, O!FetchEnds, O!history
<1>3. RequestsAreApart' /\ OneAtATime'
  BY DEF MutationInv, RequestsAreApart, OneAtATime, O!FetchEnds, O!history, O!UnderWay
<1>4. NotYetKnown'
  BY <1>1 DEF MutationInv, NotYetKnown, O!FetchEnds, O!history
<1>5. AloneIsExact'
  BY <1>1 DEF MutationInv, AloneIsExact, O!FetchEnds, O!history, O!Quiet, O!UnderWay, Exact
<1>6. StaleIsMarked'
  BY <1>1 DEF StaleIsMarked, O!StaleIsMarked, O!FetchEnds, O!history
<1> QED
  BY <1>2, <1>3, <1>4, <1>5, <1>6 DEF MutationInv

\* The step of one mutation, and of no other.
Moves(m, s) == step' = [step EXCEPT ![m] = s]

LEMMA OthersStay ==
  ASSUME MutationTypes, NEW m \in Mutations, NEW s, Moves(m, s)
  PROVE  step'[m] = s /\ \A n \in Mutations : n # m => step'[n] = step[n]
BY DEF MutationTypes, O!TypeOK, Moves

LEMMA OnMutateKeeps ==
  ASSUME MutationInv, NEW m \in Mutations, O!OnMutate(m)
  PROVE  MutationInv'
<1>1. /\ step[m] = "idle" /\ step'[m] = "cancelling" /\ step' \in [Mutations -> O!Steps]
      /\ \A n \in Mutations : n # m => step'[n] = step[n]
  BY DEF MutationInv, MutationTypes, O!TypeOK, O!OnMutate, O!Advance, O!Steps
<1>2. request' = NoRequest /\ cache' = cache /\ {invalid', before'} \subseteq BOOLEAN
  BY DEF MutationInv, MutationTypes, O!TypeOK, O!OnMutate, O!query
<1>3. /\ accepted' = accepted /\ previous' = previous /\ raced' = raced /\ created' = created
      /\ overlapped' = (overlapped \/ \E n \in Mutations : O!UnderWay(n))
  BY DEF O!OnMutate
<1>4. MutationTypes'
  BY <1>1, <1>2, <1>3 DEF MutationInv, MutationTypes, O!TypeOK
<1>5. RequestsAreApart'
  BY <1>2 DEF RequestsAreApart
<1>6. OneAtATime'
  BY <1>1, <1>3 DEF OneAtATime, O!UnderWay
<1>7. NotYetKnown'
  BY <1>1, <1>2, <1>3 DEF MutationInv, NotYetKnown
<1>8. O!UnderWay(m)' /\ O!Ended' = O!Ended
  BY <1>1 DEF O!UnderWay, O!Ended
<1>9. AloneIsExact'
  <2> SUFFICES ASSUME ~raced, ~overlapped', created = {} PROVE \A n \in Mutations : O!UnderWay(n)' => Leaves(n)'
    BY <1>3, <1>8 DEF AloneIsExact, O!Quiet
  <2>1. ~overlapped /\ O!Quiet /\ \A n \in Mutations : O!UnderWay(n)' => n = m
    BY <1>1, <1>3 DEF O!Quiet, O!UnderWay
  <2>2. Exact(cache, accepted)
    BY <2>1 DEF MutationInv, AloneIsExact
  <2>3. Leaves(m)'
    BY <1>1, <1>2, <1>3, <1>8, <2>2 DEF Leaves, Exact
  <2> QED
    BY <2>1, <2>3
<1>10. StaleIsMarked'
  BY <1>8 DEF StaleIsMarked, O!StaleIsMarked, O!Quiet
<1> QED
  BY <1>4, <1>5, <1>6, <1>7, <1>9, <1>10 DEF MutationInv

\* The rest of what a mutation does until it is settled: it stays under way, and data
\* that is set is data.
LEMMA UnderWayKeeps ==
  ASSUME MutationInv, NEW m \in Mutations, O!UnderWay(m), NEW s \in O!Steps, Moves(m, s),
         s \notin {"idle", "done"}, MutationTypes', NotYetKnown',
         request' = request, raced' = raced, overlapped' = overlapped,
         accepted \subseteq accepted', created \subseteq created',
         ~raced /\ ~overlapped /\ created' = {} => Leaves(m)'
  PROVE  MutationInv'
<1>1. step'[m] = s /\ \A n \in Mutations : n # m => step'[n] = step[n]
  BY OthersStay DEF MutationInv
<1>2. \A n \in Mutations : O!UnderWay(n)' <=> O!UnderWay(n)
  BY <1>1 DEF O!UnderWay
<1>3. RequestsAreApart'
  BY DEF MutationInv, RequestsAreApart, O!Quiet
<1>4. OneAtATime'
  BY <1>2 DEF MutationInv, OneAtATime
<1>5. AloneIsExact'
  <2> SUFFICES ASSUME ~raced, ~overlapped, created' = {}, NEW n \in Mutations, O!UnderWay(n)'
               PROVE  Leaves(n)'
    BY <1>2 DEF AloneIsExact, O!Quiet
  <2>1. n = m
    BY <1>2 DEF MutationInv, OneAtATime
  <2> QED
    BY <2>1
<1>6. StaleIsMarked'
  BY <1>2 DEF StaleIsMarked, O!StaleIsMarked, O!Quiet
<1> QED
  BY <1>3, <1>4, <1>5, <1>6 DEF MutationInv

LEMMA PatchKeeps ==
  ASSUME MutationInv, NEW m \in Mutations, O!Patch(m)
  PROVE  MutationInv'
<1>1. PICK d \in O!Patched(m) :
        /\ O!SetQueryData(d)
        /\ created' = IF cache = NoData /\ d # NoData THEN created \cup {m} ELSE created
  BY DEF O!Patch
<1>2. /\ step[m] = "cancelling" /\ Moves(m, "patched") /\ previous' = [previous EXCEPT ![m] = cache]
      /\ accepted' = accepted /\ overlapped' = overlapped /\ raced' = raced
  BY DEF O!Patch, O!Advance, Moves
<1>3. step'[m] = "patched" /\ \A n \in Mutations : n # m => step'[n] = step[n]
  BY <1>2, OthersStay DEF MutationInv
<1>4. cache # NoData => d = cache \cup {m} /\ d \in O!Data /\ d # NoData /\ created' = created
  BY <1>1, DataIsData DEF MutationInv, MutationTypes, O!TypeOK, O!Data, O!Patched
<1>5. cache = NoData => d = NoData \/ (d = {m} /\ m \in created')
  BY <1>1 DEF O!Patched
<1>6. request' = request /\ (d = NoData => cache' = cache) /\ (d # NoData => cache' = d)
      /\ {invalid', before'} \subseteq BOOLEAN
  BY <1>1 DEF O!SetQueryData, O!query, MutationInv, MutationTypes, O!TypeOK
<1>7. previous'[m] = cache /\ \A n \in Mutations : n # m => previous'[n] = previous[n]
  BY <1>2 DEF MutationInv, MutationTypes, O!TypeOK
<1>8. MutationTypes'
  BY <1>2, <1>4, <1>5, <1>6 DEF MutationInv, MutationTypes, O!TypeOK, Moves, O!Steps, O!Data
<1>9. NotYetKnown'
  BY <1>2, <1>3, <1>4, <1>5, <1>6, <1>7 DEF MutationInv, NotYetKnown
<1>10. ~raced /\ ~overlapped /\ created' = {} => Leaves(m)'
  <2> SUFFICES ASSUME ~raced, ~overlapped, created' = {} PROVE Leaves(m)'
    OBVIOUS
  <2>1. created = {} /\ O!UnderWay(m)
    BY <1>1, <1>2 DEF O!UnderWay
  <2>2. Exact(cache, accepted)
    BY <1>2, <2>1 DEF MutationInv, AloneIsExact, Leaves
  <2>3. O!Ended' = O!Ended
    BY <1>2, <1>3 DEF O!Ended
  <2>4. cache' = IF cache = NoData THEN NoData ELSE cache \cup {m}
    BY <1>4, <1>5, <1>6
  <2>5. PatchOf(m)' /\ Exact(previous'[m], accepted')
    BY <1>2, <1>7, <2>2, <2>3, <2>4 DEF PatchOf, Exact
  <2> QED
    BY <1>3, <1>7, <2>3, <2>5 DEF Leaves, Exact
<1>11. O!UnderWay(m) /\ "patched" \in O!Steps /\ created \subseteq created'
  BY <1>1, <1>2 DEF O!UnderWay, O!Steps
<1> QED
  BY <1>2, <1>6, <1>8, <1>9, <1>10, <1>11, UnderWayKeeps

LEMMA ServerDecidesKeeps ==
  ASSUME MutationInv, NEW m \in Mutations, O!ServerDecides(m)
  PROVE  MutationInv'
<1>1. PICK s \in {"accepted", "refused", "lost"} :
        Moves(m, s) /\ accepted' = IF s = "refused" THEN accepted ELSE accepted \cup {m}
  BY DEF O!ServerDecides, O!Advance, Moves
<1>2. /\ step[m] = "patched" /\ O!UnderWay(m) /\ UNCHANGED <<cache, invalid, request, before>>
      /\ previous' = previous /\ overlapped' = overlapped /\ raced' = raced /\ created' = created
  BY DEF O!ServerDecides, O!query, O!history, O!UnderWay
<1>3. step'[m] = s /\ (\A n \in Mutations : n # m => step'[n] = step[n]) /\ s \in O!Steps
  BY <1>1, OthersStay DEF MutationInv, O!Steps
<1>4. MutationTypes'
  BY <1>1, <1>2, <1>3 DEF MutationInv, MutationTypes, O!TypeOK, Moves, O!Data
<1>5. NotYetKnown'
  BY <1>1, <1>2, <1>3 DEF MutationInv, NotYetKnown
<1>6. ~raced /\ ~overlapped /\ created' = {} => Leaves(m)'
  <2> SUFFICES ASSUME ~raced, ~overlapped, created = {} PROVE Leaves(m)'
    BY <1>2
  <2>1. PatchOf(m) /\ Exact(previous[m], accepted)
    BY <1>2 DEF MutationInv, AloneIsExact, Leaves
  <2>2. m \notin accepted /\ m \notin O!Ended
    BY <1>2 DEF MutationInv, NotYetKnown, O!Ended
  <2>3. PatchOf(m)' /\ O!Ended' = O!Ended
    BY <1>2, <1>3, <2>1, <2>2 DEF PatchOf, O!Ended
  <2>4. CASE s = "refused"
    BY <1>1, <1>2, <1>3, <2>1, <2>3, <2>4 DEF Leaves, Exact
  <2>5. CASE s = "lost"
    <3>1. accepted' \ {m} = accepted
      BY <1>1, <2>2, <2>5
    <3> QED
      BY <1>2, <1>3, <2>1, <2>3, <2>5, <3>1 DEF Leaves, Exact
  <2>6. CASE s = "accepted"
    <3>1. accepted' = accepted \cup {m}
      BY <1>1, <2>6
    <3>2. CASE previous[m] = NoData
      BY <1>2, <1>3, <2>1, <2>6, <3>2 DEF Leaves, Exact, PatchOf
    <3>3. CASE previous[m] # NoData
      <4>1. cache' = previous[m] \cup {m}
        BY <1>2, <2>1, <3>3 DEF PatchOf
      <4>2. cache' = accepted' \/ \E n \in O!Ended : n \in accepted' \ cache'
        BY <2>1, <2>2, <3>1, <3>3, <4>1 DEF Exact
      <4> QED
        BY <1>3, <2>3, <2>6, <4>2 DEF Leaves, Exact
    <3> QED
      BY <3>2, <3>3
  <2> QED
    BY <2>4, <2>5, <2>6
<1> QED
  BY <1>1, <1>2, <1>3, <1>4, <1>5, <1>6, UnderWayKeeps

LEMMA OnErrorKeeps ==
  ASSUME MutationInv, NEW m \in Mutations, O!OnError(m)
  PROVE  MutationInv'
<1>1. /\ step[m] \in {"refused", "lost"} /\ O!UnderWay(m) /\ Moves(m, "answered")
      /\ accepted' = accepted /\ previous' = previous /\ UNCHANGED <<overlapped, raced, created>>
  BY DEF O!OnError, O!history, O!UnderWay, O!Advance, Moves
<1>2. /\ request' = request /\ cache' = IF previous[m] = NoData THEN cache ELSE previous[m]
      /\ {invalid', before'} \subseteq BOOLEAN
  BY DEF O!OnError, O!SetQueryData, O!query, MutationInv, MutationTypes, O!TypeOK
<1>3. /\ step'[m] = "answered" /\ "answered" \in O!Steps
      /\ \A n \in Mutations : n # m => step'[n] = step[n]
  BY <1>1, OthersStay DEF MutationInv, O!Steps
<1>4. MutationTypes'
  BY <1>1, <1>2, <1>3 DEF MutationInv, MutationTypes, O!TypeOK, Moves
<1>5. NotYetKnown'
  BY <1>1, <1>2, <1>3 DEF MutationInv, NotYetKnown
<1>6. ~raced /\ ~overlapped /\ created' = {} => Leaves(m)'
  <2> SUFFICES ASSUME ~raced, ~overlapped, created = {} PROVE Leaves(m)'
    BY <1>1
  <2>1. /\ PatchOf(m)
        /\ step[m] = "refused" => Exact(previous[m], accepted)
        /\ step[m] = "lost" => Exact(previous[m], accepted \ {m})
    BY <1>1 DEF MutationInv, AloneIsExact, Leaves
  <2>2. cache' = previous[m]
    BY <1>2, <2>1 DEF PatchOf
  <2>3. O!Ended' = O!Ended
    BY <1>1, <1>3 DEF O!Ended
  <2>4. step[m] = "lost" => m \in accepted /\ (previous[m] # NoData => m \notin previous[m])
    BY <1>1 DEF MutationInv, NotYetKnown
  <2>5. Exact(previous[m], accepted) \/ m \in accepted \ previous[m]
    BY <1>1, <2>1, <2>4 DEF Exact
  <2> QED
    BY <1>1, <1>3, <2>2, <2>3, <2>5 DEF Leaves, Exact
<1> QED
  BY <1>1, <1>2, <1>3, <1>4, <1>5, <1>6, UnderWayKeeps

LEMMA OnSuccessKeeps ==
  ASSUME MutationInv, NEW m \in Mutations, O!OnSuccess(m)
  PROVE  MutationInv'
<1>1. /\ step[m] = "accepted" /\ O!UnderWay(m) /\ Moves(m, "answered")
      /\ accepted' = accepted /\ previous' = previous /\ UNCHANGED <<overlapped, raced, created>>
  BY DEF O!OnSuccess, O!history, O!UnderWay, O!Advance, Moves
<1>2. cache # NoData => cache \cup {m} \in O!Data /\ cache \cup {m} # NoData
  BY DataIsData DEF MutationInv, MutationTypes, O!TypeOK, O!Data
<1>3. /\ request' = request /\ cache' \in {cache, IF cache = NoData THEN NoData ELSE cache \cup {m}}
      /\ {invalid', before'} \subseteq BOOLEAN
  BY <1>2 DEF O!OnSuccess, O!SetQueryData, O!query, MutationInv, MutationTypes, O!TypeOK
<1>4. /\ step'[m] = "answered" /\ "answered" \in O!Steps
      /\ \A n \in Mutations : n # m => step'[n] = step[n]
  BY <1>1, OthersStay DEF MutationInv, O!Steps
<1>5. MutationTypes'
  BY <1>1, <1>2, <1>3, <1>4 DEF MutationInv, MutationTypes, O!TypeOK, Moves
<1>6. NotYetKnown'
  <2>1. cache # NoData => \A n \in Mutations : n \in cache' => n = m \/ n \in cache
    BY <1>3
  <2> QED
    BY <1>1, <1>3, <1>4, <2>1 DEF MutationInv, NotYetKnown
<1>7. ~raced /\ ~overlapped /\ created' = {} => Leaves(m)'
  <2> SUFFICES ASSUME ~raced, ~overlapped, created = {} PROVE Leaves(m)'
    BY <1>1
  <2>1. Exact(cache, accepted) /\ m \in accepted /\ m \notin O!Ended
    BY <1>1 DEF MutationInv, AloneIsExact, Leaves, NotYetKnown, O!Ended
  <2>2. O!Ended' = O!Ended
    BY <1>1, <1>4 DEF O!Ended
  <2>3. CASE cache = NoData
    BY <1>1, <1>3, <1>4, <2>3 DEF Leaves, Exact
  <2>4. CASE cache # NoData
    <3>1. cache' = accepted \/ \E n \in O!Ended : n \in accepted \ cache'
      BY <1>3, <2>1, <2>4 DEF Exact
    <3> QED
      BY <1>1, <1>4, <2>2, <3>1 DEF Leaves, Exact
  <2> QED
    BY <2>3, <2>4
<1> QED
  BY <1>1, <1>3, <1>4, <1>5, <1>6, <1>7, UnderWayKeeps

LEMMA OnSettledKeeps ==
  ASSUME MutationInv, NEW m \in Mutations, O!OnSettled(m)
  PROVE  MutationInv'
<1>1. /\ step[m] = "answered" /\ O!UnderWay(m) /\ Moves(m, "done") /\ cache' = cache /\ invalid'
      /\ UNCHANGED <<accepted, previous, overlapped, created>>
  BY DEF O!OnSettled, O!Advance, Moves, O!UnderWay
<1>2. \/ UNCHANGED <<request, before, raced>>
      \/ /\ request' = Sent /\ before' = TRUE
         /\ raced' = (raced \/ \E n \in Mutations \ {m} : O!UnderWay(n))
  BY DEF O!OnSettled
<1>3. step'[m] = "done" /\ \A n \in Mutations : n # m => step'[n] = step[n]
  BY <1>1, OthersStay DEF MutationInv
<1>4. MutationTypes'
  BY <1>1, <1>2 DEF MutationInv, MutationTypes, O!TypeOK, Moves, O!Steps, O!OnSettled
<1>5. ~raced' => ~raced
  BY <1>2 DEF MutationInv, MutationTypes
<1>6. RequestsAreApart'
  <2>1. CASE UNCHANGED <<request, before, raced>>
    BY <1>1, <2>1 DEF MutationInv, RequestsAreApart, O!Quiet
  <2>2. CASE request' = Sent /\ raced' = (raced \/ \E n \in Mutations \ {m} : O!UnderWay(n))
    <3>1. ~raced' => O!Quiet'
      BY <1>3, <2>2 DEF O!Quiet, O!UnderWay
    <3> QED
      BY <2>2, <3>1 DEF RequestsAreApart
  <2> QED
    BY <1>2, <2>1, <2>2
<1>7. OneAtATime'
  BY <1>1, <1>3 DEF MutationInv, OneAtATime, O!UnderWay
<1>8. NotYetKnown'
  BY <1>1, <1>3 DEF MutationInv, NotYetKnown
<1>9. AloneIsExact'
  <2> SUFFICES ASSUME ~raced, ~overlapped, created = {}
               PROVE  /\ O!Quiet' => Exact(cache, accepted)'
                      /\ \A n \in Mutations : O!UnderWay(n)' => Leaves(n)'
    BY <1>1, <1>5 DEF AloneIsExact
  <2>1. Exact(cache, accepted) \/ m \in accepted \ cache
    BY <1>1 DEF MutationInv, AloneIsExact, Leaves
  <2>2. O!Ended' = O!Ended \cup {m}
    BY <1>3 DEF O!Ended
  <2>3. Exact(cache, accepted)'
    BY <1>1, <2>1, <2>2 DEF Exact
  <2>4. \A n \in Mutations : ~O!UnderWay(n)'
    BY <1>1, <1>3 DEF MutationInv, OneAtATime, O!UnderWay
  <2> QED
    BY <2>3, <2>4
<1>10. StaleIsMarked'
  BY <1>1 DEF StaleIsMarked, O!StaleIsMarked
<1> QED
  BY <1>4, <1>6, <1>7, <1>8, <1>9, <1>10 DEF MutationInv

LEMMA MutationStep == MutationInv /\ [O!Next]_ovars => MutationInv'
<1> SUFFICES ASSUME MutationInv, [O!Next]_ovars PROVE MutationInv'
  OBVIOUS
<1>1. CASE UNCHANGED ovars
  BY <1>1 DEF ovars, MutationInv, MutationTypes, O!TypeOK, RequestsAreApart, OneAtATime, NotYetKnown,
              AloneIsExact, StaleIsMarked, O!StaleIsMarked, O!Quiet, O!UnderWay, O!Ended, Leaves,
              PatchOf, Exact
<1> QED
  BY <1>1, StartFetchKeeps, ServerReadsKeeps, FetchEndsKeeps, OnMutateKeeps, PatchKeeps,
     ServerDecidesKeeps, OnErrorKeeps, OnSuccessKeeps, OnSettledKeeps DEF O!Next

\* The three components are in one of their initial states, and one of them moves.
LEMMA Initially == Init => R!Init /\ B!Init /\ O!Init
BY DEF Init

LEMMA OneMoves == [Next]_vars => [R!Next]_rvars /\ [B!Next]_bvars /\ [O!Next]_ovars
BY DEF Next, vars, rvars, bvars, ovars

\* When no mutation is under way, data that differs from the server's is marked or being
\* fetched, for every number of mutations and fetches, provided no fetch began during one.
THEOREM StaleIsMarkedHolds == Spec => []StaleIsMarked
<1>1. Init => MutationInv
  BY Initially, MutationInit
<1>2. MutationInv /\ [Next]_vars => MutationInv'
  BY OneMoves, MutationStep
<1>3. MutationInv => StaleIsMarked
  BY DEF MutationInv
<1> QED
  BY <1>1, <1>2, <1>3, PTL DEF Spec

\* Mutations that follow each other leave data with exactly the accepted ones, or with a
\* mark where an answer was lost.
THEOREM SequentialIsExactHolds == Spec => []SequentialIsExact
<1>1. Init => MutationInv
  BY Initially, MutationInit
<1>2. MutationInv /\ [Next]_vars => MutationInv'
  BY OneMoves, MutationStep
<1>3. MutationInv => SequentialIsExact
  BY DEF MutationInv, AloneIsExact, Exact, StaleIsMarked, O!StaleIsMarked, SequentialIsExact,
         O!SequentialIsExact
<1> QED
  BY <1>1, <1>2, <1>3, PTL DEF Spec

-------------------------------------------------------------------------------
(* Broadcasts.                                                             *)

LEMMA BroadcastInit == B!Init => BroadcastInv
<1> SUFFICES ASSUME B!Init PROVE BroadcastInv
  OBVIOUS
<1>0. MaxWrites \in Nat
  BY QueryClientAssumption
<1>1. BroadcastTypes
  <2>1. <<>> \in Seq([from : Tabs, key : Keys])
    OBVIOUS
  <2> QED
    BY <1>0, <2>1 DEF B!Init, BroadcastTypes, B!TypeOK, B!Query, B!Versions, B!NoAnswer
<1>2. AnnouncedIsWritten /\ B!NoEndlessEcho
  BY DEF B!Init, AnnouncedIsWritten, B!NoEndlessEcho
<1>3. TabsAreCurrent
  BY DEF B!Init, TabsAreCurrent, NoOlder
<1> QED
  BY <1>1, <1>2, <1>3 DEF BroadcastInv

\* What a request, an answer, an invalidation and a message do to a query.
LEMMA QueryOperations ==
  ASSUME NEW q \in B!Query
  PROVE  /\ B!Fetched(q) \in B!Query /\ B!Cancelled(q) \in B!Query
         /\ \A type : B!Invalidated(q, type) \in B!Query
         /\ B!Received(q) \in B!Query
<1>1. \A p \in B!Query : B!Fetched(p) \in B!Query
  BY DEF B!Query, B!Fetched
<1>2. \A p \in B!Query : B!Cancelled(p) \in B!Query /\ [p EXCEPT !.invalid = TRUE] \in B!Query
  BY DEF B!Query, B!Cancelled
<1>3. \A p \in B!Query : \A type : B!Invalidated(p, type) \in B!Query
  BY <1>1, <1>2 DEF B!Invalidated
<1> QED
  BY <1>1, <1>2, <1>3 DEF B!Received

LEMMA InvalidatedIsNoOlder ==
  ASSUME NEW q \in B!Query, NEW v \in B!Versions, NEW type, NoOlder(q, v)
  PROVE  NoOlder(B!Invalidated(q, type), v)
<1> DEFINE p == [q EXCEPT !.invalid = TRUE]
<1>1. p.invalid /\ p.data = q.data /\ p.request = q.request /\ p.before = q.before /\ p \in B!Query
  BY DEF B!Query
<1> HIDE DEF p
<1>2. NoOlder(p, v)
  BY <1>1 DEF NoOlder
<1>3. NoOlder(B!Fetched(p), v)
  BY <1>1, <1>2, QueryClientAssumption DEF NoOlder, B!Fetched, B!Query
<1> QED
  BY <1>2, <1>3 DEF B!Invalidated, p

\* The installer of matching queries drops what was under way: nothing old stays.
LEMMA ReceivedIsNoOlder ==
  ASSUME NEW q \in B!Query, NEW v \in B!Versions, installed = "scoped"
  PROVE  NoOlder(B!Received(q), v)
<1> DEFINE p == B!Cancelled(q)
           r == [p EXCEPT !.invalid = TRUE]
<1>1. p \in B!Query /\ p.request = NoRequest
  BY QueryOperations DEF B!Cancelled, B!Query
<1> HIDE DEF p
<1>2. r \in B!Query /\ r.invalid /\ r.request = NoRequest
  BY <1>1 DEF B!Query
<1>3. NoOlder(r, v)
  BY <1>2 DEF NoOlder
<1>4. NoOlder(B!Fetched(r), v)
  <2> HIDE DEF r
  <2> QED
    BY <1>2, <1>3, QueryClientAssumption DEF NoOlder, B!Fetched, B!Query
<1>5. NoOlder(B!Invalidated(p, refetch), v)
  BY <1>3, <1>4 DEF B!Invalidated
<1> QED
  BY <1>5 DEF B!Received, p

\* A step of one query.
LEMMA OneQuery ==
  ASSUME BroadcastInv, NEW t \in Tabs, NEW k \in Keys, NEW q \in B!Query,
         query' = [query EXCEPT ![t][k] = q],
         \A v \in B!Versions : v <= server[k] /\ NoOlder(query[t][k], v) => NoOlder(q, v),
         UNCHANGED <<installed, refetch, matching, closed, channel, server, posted, causes,
                     announced>>,
         owed' \subseteq owed
  PROVE  BroadcastInv'
<1>1. BroadcastTypes'
  BY DEF BroadcastInv, BroadcastTypes, B!TypeOK
<1>2. AnnouncedIsWritten' /\ B!NoEndlessEcho'
  BY DEF BroadcastInv, AnnouncedIsWritten, B!NoEndlessEcho
<1>3. TabsAreCurrent'
  <2> SUFFICES ASSUME installed = "scoped", NEW u \in Tabs \ closed, NEW j \in matching[u], ~Told(u, j)
               PROVE  NoOlder(query'[u][j], announced[u][j])
    BY DEF TabsAreCurrent, Told, NoOlder
  <2>1. j \in Keys /\ announced[u][j] \in B!Versions /\ announced[u][j] <= server[j]
    BY DEF BroadcastInv, BroadcastTypes, B!TypeOK, AnnouncedIsWritten
  <2>2. NoOlder(query[u][j], announced[u][j])
    BY DEF BroadcastInv, TabsAreCurrent
  <2>3. query'[u][j] = IF u = t /\ j = k THEN q ELSE query[u][j]
    BY <2>1 DEF BroadcastInv, BroadcastTypes, B!TypeOK
  <2> QED
    BY <2>1, <2>2, <2>3
<1> QED
  BY <1>1, <1>2, <1>3 DEF BroadcastInv

LEMMA QueriesAreQueries ==
  ASSUME BroadcastInv, NEW t \in Tabs, NEW k \in Keys
  PROVE  query[t][k] \in B!Query /\ server[k] \in B!Versions
         /\ query[t] \in [Keys -> B!Query] /\ query \in [Tabs -> [Keys -> B!Query]]
BY DEF BroadcastInv, BroadcastTypes, B!TypeOK

LEMMA RequestsKeep ==
  ASSUME BroadcastInv, NEW t \in Tabs, NEW k \in Keys,
         B!StartFetch(t, k) \/ B!ServerReads(t, k) \/ B!Answer(t, k)
  PROVE  BroadcastInv'
<1> DEFINE old == query[t][k]
<1>1. old \in B!Query /\ server[k] \in B!Versions
  BY QueriesAreQueries
<1>2. CASE B!StartFetch(t, k)
  <2>1. query' = [query EXCEPT ![t][k] = B!Fetched(old)] /\ old.request = NoRequest
    BY <1>2, QueriesAreQueries DEF B!StartFetch
  <2>2. B!Fetched(old) \in B!Query
    BY <1>1, QueryOperations
  <2> HIDE DEF old
  <2>3. \A v \in B!Versions : NoOlder(old, v) => NoOlder(B!Fetched(old), v)
    BY <1>1, <2>1, QueryClientAssumption DEF NoOlder, B!Fetched, B!Query
  <2> QED
    BY <1>2, <2>1, <2>2, <2>3, OneQuery DEF B!StartFetch, old
<1>3. CASE B!ServerReads(t, k)
  <2> DEFINE new == [old EXCEPT !.request = server[k]]
  <2>1. query' = [query EXCEPT ![t][k] = new] /\ old.request = Sent
    BY <1>3, QueriesAreQueries DEF B!ServerReads
  <2> HIDE DEF old
  <2>2. new \in B!Query
    BY <1>1 DEF B!Query
  <2>3. \A v \in B!Versions : v <= server[k] /\ NoOlder(old, v) => NoOlder(new, v)
    BY <1>1, <2>1, QueryClientAssumption DEF NoOlder, B!Query, B!Versions
  <2> HIDE DEF new
  <2> QED
    BY <1>3, <2>1, <2>2, <2>3, OneQuery DEF B!ServerReads, old
<1>4. CASE B!Answer(t, k)
  <2> DEFINE new == [data |-> old.request, invalid |-> FALSE, request |-> NoRequest, before |-> FALSE]
  <2>1. query' = [query EXCEPT ![t][k] = new] /\ old.request \in B!Versions
    BY <1>4, QueriesAreQueries DEF B!Answer
  <2> HIDE DEF old
  <2>2. new \in B!Query
    BY <2>1 DEF B!Query
  <2>3. \A v \in B!Versions : NoOlder(old, v) => NoOlder(new, v)
    BY <2>1, QueryClientAssumption DEF NoOlder, B!Versions
  <2> HIDE DEF new
  <2> QED
    BY <1>4, <2>1, <2>2, <2>3, OneQuery DEF B!Answer, old
<1> QED
  BY <1>2, <1>3, <1>4

\* What a broadcast announces, it tells every open tab.
LEMMA BroadcastTells ==
  ASSUME BroadcastInv, NEW t \in Tabs, NEW k \in Keys, B!Broadcast(t, k)
  PROVE  /\ channel' \in [Tabs -> Seq([from : Tabs, key : Keys])]
         /\ announced' \in [Tabs -> [Keys -> B!Versions]] /\ posted' \in Nat /\ posted' <= posted + 1
         /\ \A u \in Tabs, j \in Keys : announced'[u][j] <= server[j]
         /\ \A u \in Tabs \ closed, j \in Keys :
              /\ Told(u, j) => Told(u, j)'
              /\ announced'[u][j] = announced[u][j] \/ Told(u, j)'
<1>1. /\ channel \in [Tabs -> Seq([from : Tabs, key : Keys])] /\ server \in [Keys -> B!Versions]
      /\ announced \in [Tabs -> [Keys -> B!Versions]] /\ posted \in Nat
      /\ \A u \in Tabs, j \in Keys : announced[u][j] <= server[j]
  BY DEF BroadcastInv, BroadcastTypes, B!TypeOK, AnnouncedIsWritten
<1>2. CASE ~B!MayPost(t, k)
  <2>1. posted' = posted /\ channel' = channel /\ announced' = announced
    BY <1>2 DEF B!Broadcast
  <2>2. \A u \in Tabs \ closed, j \in Keys :
          /\ Told(u, j) => Told(u, j)'
          /\ announced'[u][j] = announced[u][j] \/ Told(u, j)'
    BY <2>1 DEF Told
  <2>3. \A u \in Tabs, j \in Keys : announced'[u][j] <= server[j]
    BY <1>1, <2>1
  <2>4. posted' \in Nat /\ posted' <= posted + 1
    BY <1>1, <2>1
  <2> QED
    BY <1>1, <2>1, <2>2, <2>3, <2>4
<1>3. CASE B!MayPost(t, k)
  <2> DEFINE msg == [from |-> t, key |-> k]
  <2>1. /\ channel' = [u \in Tabs |->
             IF u # t /\ u \notin closed THEN Append(channel[u], msg) ELSE channel[u]]
        /\ announced' = [u \in Tabs |->
             IF u = t THEN announced[u] ELSE [announced[u] EXCEPT ![k] = server[k]]]
        /\ posted' = posted + 1
    BY <1>3 DEF B!Broadcast, B!Deliver
  <2>2. channel' \in [Tabs -> Seq([from : Tabs, key : Keys])]
    <3>1. msg \in [from : Tabs, key : Keys]
      OBVIOUS
    <3> HIDE DEF msg
    <3>2. ASSUME NEW u \in Tabs PROVE Append(channel[u], msg) \in Seq([from : Tabs, key : Keys])
      <4>1. channel[u] \in Seq([from : Tabs, key : Keys])
        BY <1>1
      <4> QED
        BY <3>1, <4>1
    <3> QED
      BY <1>1, <2>1, <3>2
  <2>3. announced' \in [Tabs -> [Keys -> B!Versions]]
    BY <1>1, <2>1
  <2>4. \A u \in Tabs, j \in Keys :
          announced'[u][j] = announced[u][j] \/ (u # t /\ j = k /\ announced'[u][j] = server[k])
    BY <1>1, <2>1
  <2>5. \A u \in Tabs, j \in Keys : announced'[u][j] <= server[j]
    <3>1. \A u \in Tabs, j \in Keys : server[j] \in Int /\ announced[u][j] <= server[j]
      BY <1>1 DEF B!Versions
    <3> QED
      BY <2>4, <3>1
  <2>6. ASSUME NEW u \in Tabs \ closed
        PROVE  /\ \A i \in DOMAIN channel[u] : i \in DOMAIN channel'[u] /\ channel'[u][i] = channel[u][i]
               /\ u # t => Len(channel[u]) + 1 \in DOMAIN channel'[u]
                           /\ channel'[u][Len(channel[u]) + 1].key = k
    <3>1. channel[u] \in Seq([from : Tabs, key : Keys]) /\ msg \in [from : Tabs, key : Keys]
      BY <1>1
    <3>2. CASE u = t
      BY <2>1, <3>2
    <3>3. CASE u # t
      <4>1. channel'[u] = Append(channel[u], msg)
        BY <2>1, <3>3
      <4> HIDE DEF msg
      <4>2. /\ \A i \in DOMAIN channel[u] : i \in DOMAIN channel'[u] /\ channel'[u][i] = channel[u][i]
            /\ Len(channel[u]) + 1 \in DOMAIN channel'[u]
            /\ channel'[u][Len(channel[u]) + 1] = msg
        BY <3>1, <4>1
      <4> QED
        BY <4>2 DEF msg
    <3> QED
      BY <3>2, <3>3
  <2>7. \A u \in Tabs \ closed, j \in Keys :
          /\ Told(u, j) => Told(u, j)'
          /\ announced'[u][j] = announced[u][j] \/ Told(u, j)'
    BY <2>4, <2>6 DEF Told
  <2>8. posted' \in Nat /\ posted' <= posted + 1
    BY <1>1, <2>1
  <2> QED
    BY <2>2, <2>3, <2>5, <2>7, <2>8
<1> QED
  BY <1>2, <1>3

\* An announcement, with or without an invalidation of the tab's own query.
LEMMA AnnouncementKeeps ==
  ASSUME BroadcastInv, NEW t \in Tabs, NEW k \in Keys, NEW q \in B!Query,
         query' = [query EXCEPT ![t][k] = q],
         \A v \in B!Versions : NoOlder(query[t][k], v) => NoOlder(q, v),
         B!Broadcast(t, k), causes' = causes + 1, owed' \subseteq owed,
         UNCHANGED <<installed, refetch, matching, closed, server>>
  PROVE  BroadcastInv'
<1>1. BroadcastTypes'
  <2>1. query' \in [Tabs -> [Keys -> B!Query]]
    BY DEF BroadcastInv, BroadcastTypes, B!TypeOK
  <2>2. causes' \in Nat
    BY DEF BroadcastInv, BroadcastTypes
  <2>3. /\ channel' \in [Tabs -> Seq([from : Tabs, key : Keys])]
        /\ announced' \in [Tabs -> [Keys -> B!Versions]] /\ posted' \in Nat
    BY BroadcastTells
  <2> QED
    BY <2>1, <2>2, <2>3 DEF BroadcastInv, BroadcastTypes, B!TypeOK
<1>2. AnnouncedIsWritten'
  BY BroadcastTells DEF AnnouncedIsWritten
<1>3. B!NoEndlessEcho'
  BY BroadcastTells DEF BroadcastInv, BroadcastTypes, B!NoEndlessEcho
<1>4. TabsAreCurrent'
  <2> SUFFICES ASSUME installed = "scoped", NEW u \in Tabs \ closed, NEW j \in matching[u], ~Told(u, j)'
               PROVE  NoOlder(query'[u][j], announced'[u][j])
    BY DEF TabsAreCurrent, NoOlder
  <2>1. j \in Keys /\ announced[u][j] \in B!Versions
    BY DEF BroadcastInv, BroadcastTypes, B!TypeOK
  <2>2. ~Told(u, j) /\ announced'[u][j] = announced[u][j]
    BY <2>1, BroadcastTells
  <2>3. NoOlder(query[u][j], announced[u][j])
    BY <2>2 DEF BroadcastInv, TabsAreCurrent
  <2>4. query'[u][j] = IF u = t /\ j = k THEN q ELSE query[u][j]
    BY <2>1 DEF BroadcastInv, BroadcastTypes, B!TypeOK
  <2> QED
    BY <2>1, <2>2, <2>3, <2>4
<1> QED
  BY <1>1, <1>2, <1>3, <1>4 DEF BroadcastInv

LEMMA WriteKeeps ==
  ASSUME BroadcastInv, NEW t \in Tabs, NEW k \in Keys, B!Write(t, k)
  PROVE  BroadcastInv'
<1>1. /\ server' = [server EXCEPT ![k] = @ + 1] /\ server[k] \in B!Versions /\ server[k] < MaxWrites
      /\ owed' = owed \cup {<<t, k>>}
      /\ UNCHANGED <<installed, refetch, matching, closed, query, channel, posted, causes, announced>>
  BY QueriesAreQueries DEF B!Write
<1>2. server[k] + 1 \in B!Versions
  BY <1>1, QueryClientAssumption DEF B!Versions
<1>3. server' \in [Keys -> B!Versions] /\ \A j \in Keys : server[j] <= server'[j]
  BY <1>1, <1>2 DEF BroadcastInv, BroadcastTypes, B!TypeOK, B!Versions
<1>4. BroadcastTypes'
  <2>1. B!TypeOK
    BY DEF BroadcastInv, BroadcastTypes
  <2>2. <<t, k>> \in Tabs \X Keys
    OBVIOUS
  <2>3. owed' \subseteq Tabs \X Keys
    BY <1>1, <2>1, <2>2 DEF B!TypeOK
  <2>4. B!TypeOK'
    BY <1>1, <1>3, <2>1, <2>3 DEF B!TypeOK
  <2> QED
    BY <1>1, <2>4 DEF BroadcastInv, BroadcastTypes
<1>5. AnnouncedIsWritten'
  <2>1. \A u \in Tabs, j \in Keys :
          announced[u][j] \in Int /\ server[j] \in Int /\ server'[j] \in Int /\ announced[u][j] <= server[j]
    BY <1>3 DEF BroadcastInv, BroadcastTypes, B!TypeOK, B!Versions, AnnouncedIsWritten
  <2> QED
    BY <1>1, <1>3, <2>1 DEF AnnouncedIsWritten
<1>6. TabsAreCurrent' /\ B!NoEndlessEcho'
  BY <1>1 DEF BroadcastInv, TabsAreCurrent, Told, NoOlder, B!NoEndlessEcho
<1> QED
  BY <1>4, <1>5, <1>6 DEF BroadcastInv

LEMMA AnnounceKeeps ==
  ASSUME BroadcastInv, NEW t \in Tabs, NEW k \in Keys, B!Announce(t, k)
  PROVE  BroadcastInv'
<1>1. query' = [query EXCEPT ![t][k] = query[t][k]]
  BY QueriesAreQueries DEF B!Announce
<1>2. /\ B!Broadcast(t, k) /\ causes' = causes + 1 /\ owed' \subseteq owed
      /\ UNCHANGED <<installed, refetch, matching, closed, server>>
  BY DEF B!Announce
<1> QED
  BY <1>1, <1>2, QueriesAreQueries, AnnouncementKeeps

LEMMA InvalidateKeeps ==
  ASSUME BroadcastInv, NEW t \in Tabs, NEW k \in Keys, NEW type, B!Invalidate(t, k, type)
  PROVE  BroadcastInv'
<1> DEFINE old == query[t][k]
           new == B!Invalidated(old, type)
<1>1. query' = [query EXCEPT ![t][k] = new] /\ old \in B!Query
  BY QueriesAreQueries DEF B!Invalidate
<1>2. new \in B!Query
  BY <1>1, QueryOperations
<1>3. \A v \in B!Versions : NoOlder(old, v) => NoOlder(new, v)
  BY <1>1, InvalidatedIsNoOlder
<1>4. owed' \subseteq owed /\ UNCHANGED <<installed, refetch, matching, closed, server>>
  BY DEF B!Invalidate
<1>5. \/ B!Broadcast(t, k) /\ causes' = causes + 1
      \/ UNCHANGED <<causes, posted, channel, announced>>
  BY DEF B!Invalidate
<1> HIDE DEF new
<1> QED
  BY <1>1, <1>2, <1>3, <1>4, <1>5, AnnouncementKeeps, OneQuery

LEMMA ReceiveKeeps ==
  ASSUME BroadcastInv, NEW t \in Tabs, B!Receive(t)
  PROVE  BroadcastInv'
<1> DEFINE k == Head(channel[t]).key
           new == B!Received(query[t][k])
<1>1. /\ channel \in [Tabs -> Seq([from : Tabs, key : Keys])]
      /\ channel[t] \in Seq([from : Tabs, key : Keys]) /\ channel[t] # <<>>
  BY DEF B!Receive, BroadcastInv, BroadcastTypes, B!TypeOK
<1>2. k \in Keys /\ channel[t][1].key = k /\ Tail(channel[t]) \in Seq([from : Tabs, key : Keys])
  <2> DEFINE M == [from : Tabs, key : Keys]
  <2> HIDE DEF M
  <2>1. channel[t] \in Seq(M) /\ channel[t] # <<>>
    BY <1>1 DEF M
  <2>2. Head(channel[t]) \in M /\ Head(channel[t]) = channel[t][1] /\ Tail(channel[t]) \in Seq(M)
    BY <2>1
  <2>3. Head(channel[t]) \in [from : Tabs, key : Keys]
    BY <2>2 DEF M
  <2>4. Head(channel[t]).key \in Keys
    BY <2>3
  <2> QED
    BY <2>2, <2>4 DEF M
<1>3. new \in B!Query /\ query[t][k] \in B!Query
  BY <1>2, QueriesAreQueries, QueryOperations
<1>4. query' = IF installed = "scoped" /\ k \notin matching[t] THEN query
               ELSE [query EXCEPT ![t][k] = new]
  BY QueriesAreQueries, <1>2 DEF B!Receive
<1>5. /\ posted' = posted /\ channel' = [u \in Tabs |-> IF u = t THEN Tail(channel[t]) ELSE channel[u]]
      /\ UNCHANGED <<installed, refetch, matching, closed, server, owed, causes, announced>>
  BY DEF B!Receive, B!Heard
<1> HIDE DEF k, new
<1>6. \A j \in Keys, u \in Tabs :
        query'[u][j] = IF u = t /\ j = k /\ ~(installed = "scoped" /\ k \notin matching[t])
                         THEN new ELSE query[u][j]
  BY <1>2, <1>4, QueriesAreQueries
<1>7. channel' \in [Tabs -> Seq([from : Tabs, key : Keys])]
  BY <1>1, <1>2, <1>5
<1>8. BroadcastTypes'
  <2>1. query' \in [Tabs -> [Keys -> B!Query]]
    BY <1>2, <1>3, <1>4, QueriesAreQueries
  <2> QED
    BY <1>5, <1>7, <2>1 DEF BroadcastInv, BroadcastTypes, B!TypeOK
<1>9. AnnouncedIsWritten' /\ B!NoEndlessEcho'
  BY <1>5 DEF BroadcastInv, AnnouncedIsWritten, B!NoEndlessEcho
<1>10. TabsAreCurrent'
  <2> SUFFICES ASSUME installed = "scoped", NEW u \in Tabs \ closed, NEW j \in matching[u], ~Told(u, j)'
               PROVE  NoOlder(query'[u][j], announced[u][j])
    BY <1>5 DEF TabsAreCurrent, NoOlder
  <2>1. j \in Keys /\ announced[u][j] \in B!Versions
    BY DEF BroadcastInv, BroadcastTypes, B!TypeOK
  <2>2. CASE u = t /\ j = k
    <3>1. query'[u][j] = new
      BY <1>6, <2>1, <2>2
    <3> QED
      BY <1>3, <2>1, <3>1, ReceivedIsNoOlder DEF new
  <2>3. CASE ~(u = t /\ j = k)
    <3>1. ~Told(u, j)
      <4>1. CASE u = t
        <5>1. \A i \in DOMAIN channel[t] : i # 1 =>
                i - 1 \in DOMAIN channel'[t] /\ channel'[t][i - 1] = channel[t][i]
          BY <1>1, <1>5
        <5> QED
          BY <1>2, <2>3, <4>1, <5>1 DEF Told
      <4>2. CASE u # t
        BY <1>5, <4>2 DEF Told
      <4> QED
        BY <4>1, <4>2
    <3>2. NoOlder(query[u][j], announced[u][j])
      BY <3>1 DEF BroadcastInv, TabsAreCurrent
    <3> QED
      BY <1>6, <2>1, <2>3, <3>2
  <2> QED
    BY <2>2, <2>3
<1> QED
  BY <1>8, <1>9, <1>10 DEF BroadcastInv

LEMMA CleanupKeeps ==
  ASSUME BroadcastInv, NEW t \in Tabs, B!Cleanup(t)
  PROVE  BroadcastInv'
<1>1. <<>> \in Seq([from : Tabs, key : Keys])
  OBVIOUS
<1>2. BroadcastTypes'
  BY <1>1 DEF BroadcastInv, BroadcastTypes, B!TypeOK, B!Cleanup
<1>3. AnnouncedIsWritten' /\ B!NoEndlessEcho'
  BY DEF BroadcastInv, AnnouncedIsWritten, B!NoEndlessEcho, B!Cleanup
<1>4. \A u \in Tabs \ closed' : u \in Tabs \ closed /\ channel'[u] = channel[u]
  BY DEF BroadcastInv, BroadcastTypes, B!TypeOK, B!Cleanup
<1>5. TabsAreCurrent'
  BY <1>4 DEF BroadcastInv, TabsAreCurrent, Told, NoOlder, B!Cleanup
<1> QED
  BY <1>2, <1>3, <1>5 DEF BroadcastInv

LEMMA BroadcastStep == BroadcastInv /\ [B!Next]_bvars => BroadcastInv'
<1> SUFFICES ASSUME BroadcastInv, [B!Next]_bvars PROVE BroadcastInv'
  OBVIOUS
<1>1. CASE UNCHANGED bvars
  BY <1>1 DEF bvars, BroadcastInv, BroadcastTypes, B!TypeOK, AnnouncedIsWritten, TabsAreCurrent, Told,
              NoOlder, B!NoEndlessEcho
<1>2. ASSUME NEW t \in Tabs, NEW k \in Keys,
             \/ B!StartFetch(t, k) \/ B!ServerReads(t, k) \/ B!Answer(t, k)
             \/ B!Write(t, k) \/ B!Announce(t, k)
             \/ \E type \in {"none", "active"} : B!Invalidate(t, k, type)
      PROVE  BroadcastInv'
  BY <1>2, RequestsKeep, WriteKeeps, AnnounceKeeps, InvalidateKeeps
<1> QED
  BY <1>1, <1>2, ReceiveKeeps, CleanupKeeps DEF B!Next

\* No open tab that has its messages takes matching data older than what was announced
\* for fresh, and no message is posted without an invalidation of a tab's own.
THEOREM FreshOrMarkedHolds == Spec => []FreshOrMarked
<1>1. Init => BroadcastInv
  BY Initially, BroadcastInit
<1>2. BroadcastInv /\ [Next]_vars => BroadcastInv'
  BY OneMoves, BroadcastStep
<1>3. BroadcastInv => FreshOrMarked
  <2> SUFFICES ASSUME BroadcastInv, installed = "scoped", NEW t \in Tabs \ closed, NEW k \in matching[t],
                      channel[t] = <<>>, query[t][k].data # B!NoAnswer, ~query[t][k].invalid,
                      query[t][k].request = NoRequest
               PROVE  query[t][k].data >= announced[t][k]
    BY DEF FreshOrMarked, B!FreshOrMarked, BroadcastInv
  <2>1. k \in Keys /\ announced[t][k] \in Int /\ query[t][k] \in B!Query
    BY DEF BroadcastInv, BroadcastTypes, B!TypeOK, B!Versions
  <2>2. ~Told(t, k)
    BY DEF Told
  <2>3. NoOlder(query[t][k], announced[t][k])
    BY <2>2 DEF BroadcastInv, TabsAreCurrent
  <2> QED
    BY <2>1, <2>3 DEF NoOlder, B!Query, B!Versions, B!NoAnswer
<1> QED
  BY <1>1, <1>2, <1>3, PTL DEF Spec


(***************************************************************************)
(* Restores: what an action does to the operations, and the invariant      *)
(* through every action.                                                   *)
(***************************************************************************)

LEMMA CountOfOperations == \A S : R!Cardinality(S) = Cardinality(S)
BY DEF R!Cardinality, Cardinality

LEMMA RestoreInit == R!Init => RestoreInv
<1> SUFFICES ASSUME R!Init PROVE RestoreInv
  OBVIOUS
<1>1. R!Ids = {} /\ R!Ids = 1 .. 0
  BY DEF R!Init, R!Ids
<1>2. Cardinality(R!Ids) = 0
  BY <1>1, FS_EmptySet
<1>3. RestoreTypes
  <2>1. R!Ids = 1 .. Cardinality(R!Ids)
    BY <1>1, <1>2
  <2>2. /\ scope \in Scopes \cup {NoScope} /\ stored \in [Scopes -> R!Qualities \cup {Nothing}]
        /\ current = Nothing /\ data = Nothing /\ stamp = Nothing /\ tasks = {}
    BY DEF R!Init
  <2>3. \A o \in R!Ids : ops[o] \in R!Operation
    BY <1>1
  <2>4. R!Ids = 1 .. R!Cardinality(R!Ids)
    BY <2>1, CountOfOperations
  <2>5. current \in R!Ids \cup {Nothing} /\ stamp \in R!Ids \cup {Nothing}
    BY <2>2
  <2>6. tasks \subseteq R!Ids \X {"refresh", "persist"}
    BY <2>2
  <2>7. R!TypeOK
    BY <2>2, <2>3, <2>4, <2>5, <2>6 DEF R!TypeOK
  <2> QED
    BY <1>2, <2>7 DEF RestoreTypes
<1>4. CurrentIsLast /\ ReadsInSession /\ R!StampOfTheData
  BY <1>1 DEF R!Init, CurrentIsLast, ReadsInSession, R!StampOfTheData
<1> QED
  BY <1>3, <1>4 DEF RestoreInv

\* An operation keeps its scope and its parser for ever.
Continues(o) ==
  ops'[o] \in R!Operation /\ ops'[o].parser = ops[o].parser /\ ops'[o].scope = ops[o].scope

\* No operation begins.
NoneBegins == R!Ids' = R!Ids /\ \A p \in R!Ids : Continues(p)

LEMMA AdvanceContinues ==
  ASSUME RestoreTypes, NEW o \in R!Ids, NEW s \in R!Steps, R!Advance(o, s)
  PROVE  /\ NoneBegins /\ ops'[o].step = s
         /\ \A p \in R!Ids \ {o} : ops'[p] = ops[p]
<1>1. \A p \in R!Ids : ops[p] \in R!Operation
  BY DEF RestoreTypes, R!TypeOK
<1>2. R!Ids' = R!Ids /\ ops'[o] = [ops[o] EXCEPT !.step = s] /\ \A p \in R!Ids \ {o} : ops'[p] = ops[p]
  BY DEF R!Ids, R!Advance
<1>3. ops'[o] \in R!Operation /\ ops'[o].step = s /\ Continues(o)
  BY <1>1, <1>2 DEF R!Operation, Continues
<1> QED
  BY <1>1, <1>2, <1>3 DEF NoneBegins, Continues

LEMMA AbortedContinues ==
  ASSUME RestoreTypes, NEW p \in R!Ids
  PROVE  /\ R!Aborted[p] \in R!Operation
         /\ R!Aborted[p].parser = ops[p].parser /\ R!Aborted[p].scope = ops[p].scope
         /\ R!Aborted[p].step = ops[p].step
<1>1. ops[p] \in R!Operation
  BY DEF RestoreTypes, R!TypeOK
<1>2. R!Aborted[p] = IF R!Running(p) THEN [ops[p] EXCEPT !.aborted = TRUE] ELSE ops[p]
  BY DEF R!Aborted
<1> QED
  BY <1>1, <1>2 DEF R!Operation

\* A call of persisterFn: one more operation, with the next number.
LEMMA PersisterFnBegins ==
  ASSUME RestoreTypes, NEW parser \in BOOLEAN, R!PersisterFn(parser)
  PROVE  \E o \in Int :
           /\ R!Ids' = R!Ids \cup {o} /\ R!Ids' = 1 .. Cardinality(R!Ids') /\ Cardinality(R!Ids') \in Nat
           /\ \A p \in R!Ids : p \in Int /\ p < o /\ Continues(p) /\ ops'[p].step = ops[p].step
           /\ ops'[o] \in R!Operation /\ ops'[o].scope = scope
           /\ ops'[o].step = "reading" => scope # NoScope
           /\ IF scope = NoScope THEN ~ops'[o].parser /\ current' = current
              ELSE ops'[o].parser = parser /\ current' = IF parser THEN o ELSE Nothing
<1> DEFINE n == Cardinality(R!Ids)
           o == n + 1
<1>1. n \in Nat /\ R!Ids = 1 .. n /\ scope \in Scopes \cup {NoScope}
  <2>1. n \in Nat
    BY DEF RestoreTypes
  <2>2. R!Ids = 1 .. n
    BY CountOfOperations DEF RestoreTypes, R!TypeOK
  <2>3. scope \in Scopes \cup {NoScope}
    BY DEF RestoreTypes, R!TypeOK
  <2> QED
    BY <2>1, <2>2, <2>3
<1> DEFINE new == [step |-> IF scope = NoScope THEN "fetching" ELSE IF data = Nothing THEN "reading" ELSE "fallback",
                   scope |-> scope, parser |-> parser /\ scope # NoScope, aborted |-> FALSE, from |-> "network"]
<1>2. /\ ops' = [p \in R!Ids \cup {o} |-> IF p = o THEN new ELSE R!Aborted[p]]
      /\ current' = IF scope = NoScope THEN current ELSE IF parser THEN o ELSE Nothing
  BY CountOfOperations DEF R!PersisterFn
<1> HIDE DEF n
<1>3. R!Ids' = R!Ids \cup {o}
  BY <1>2 DEF R!Ids
<1>4. R!Ids' = 1 .. o
  BY <1>1, <1>3
<1>5. Cardinality(R!Ids') = o
  BY <1>1, <1>4, FS_Interval
<1>6. new \in R!Operation
  BY <1>1 DEF R!Operation, R!Steps
<1>7. ops'[o] = new
  BY <1>2
<1>8. \A p \in R!Ids : p \in Int /\ p < o /\ ops'[p] = R!Aborted[p]
  BY <1>1, <1>2
<1>9. \A p \in R!Ids : Continues(p) /\ ops'[p].step = ops[p].step
  BY <1>8, AbortedContinues DEF Continues
<1>10. /\ new.scope = scope /\ new.parser = (parser /\ scope # NoScope)
       /\ new.step = "reading" => scope # NoScope
  OBVIOUS
<1> HIDE DEF new
<1>11. /\ ops'[o].step = "reading" => scope # NoScope
       /\ IF scope = NoScope THEN ~ops'[o].parser /\ current' = current
          ELSE ops'[o].parser = parser /\ current' = IF parser THEN o ELSE Nothing
  BY <1>2, <1>7, <1>10
<1>12. o \in Int /\ o \in Nat
  BY <1>1
<1> HIDE DEF o
<1> QED
  BY <1>3, <1>4, <1>5, <1>6, <1>7, <1>8, <1>9, <1>10, <1>11, <1>12

\* No operation begins, the entry in restoreOperations stays, and no operation starts
\* to read: what is left to show is about the data and its time.
LEMMA NoneBeginsKeeps ==
  ASSUME RestoreInv, NoneBegins, current' = current,
         scope' \in Scopes \cup {NoScope}, stored' \in [Scopes -> R!Qualities \cup {Nothing}],
         data' = Nothing \/ data' \in [by : R!Ids, from : {"network", "cache"}, scope : Scopes \cup {NoScope}],
         stamp' \in R!Ids \cup {Nothing},
         \A o \in R!Ids : ops'[o].step = "reading" => ops[o].step = "reading",
         tasks' \subseteq R!Ids \X {"refresh", "persist"},
         \A o \in R!Ids : <<o, "refresh">> \in tasks' \ tasks => ops[o].step = "reading",
         R!StampOfTheData'
  PROVE  RestoreInv'
<1>1. RestoreTypes'
  BY DEF RestoreInv, RestoreTypes, R!TypeOK, NoneBegins, Continues
<1>2. CurrentIsLast'
  BY DEF RestoreInv, CurrentIsLast, NoneBegins, Continues, R!Guarded
<1>3. ReadsInSession'
  BY DEF RestoreInv, ReadsInSession, NoneBegins, Continues
<1> QED
  BY <1>1, <1>2, <1>3 DEF RestoreInv

\* Nor does the time of the data change.
LEMMA StampStays ==
  ASSUME RestoreInv, NoneBegins, UNCHANGED <<data, stamp>>
  PROVE  /\ R!StampOfTheData'
         /\ data' = Nothing \/ data' \in [by : R!Ids, from : {"network", "cache"}, scope : Scopes \cup {NoScope}]
         /\ stamp' \in R!Ids \cup {Nothing}
<1>1. data # Nothing => data.by \in R!Ids
  BY DEF RestoreInv, RestoreTypes, R!TypeOK
<1>2. R!StampOfTheData'
  BY <1>1 DEF RestoreInv, R!StampOfTheData, NoneBegins, Continues, R!Guarded
<1> QED
  BY <1>2 DEF RestoreInv, RestoreTypes, R!TypeOK

LEMMA ReadKeeps ==
  ASSUME RestoreInv, NEW o \in R!Ids, R!Read(o)
  PROVE  RestoreInv' /\ NoneBegins /\ ops'[o].step # "fetching" /\ \A p \in R!Ids \ {o} : ops'[p] = ops[p]
<1>1. RestoreTypes /\ R!TypeOK /\ ops[o] \in R!Operation /\ ops[o].step = "reading"
  BY DEF RestoreInv, RestoreTypes, R!TypeOK, R!Read
<1>2. /\ NoneBegins /\ ops'[o].step \in {"fallback", "removing", "returned"}
      /\ \A p \in R!Ids \ {o} : ops'[p] = ops[p]
  <2>1. CASE R!Advance(o, "fallback") \/ R!Advance(o, "removing")
    BY <1>1, <2>1, AdvanceContinues DEF R!Steps
  <2>2. CASE ops' = [ops EXCEPT ![o].step = "returned", ![o].from = "cache"]
    <3>1. /\ R!Ids' = R!Ids /\ ops'[o] = [[ops[o] EXCEPT !.step = "returned"] EXCEPT !.from = "cache"]
          /\ \A p \in R!Ids \ {o} : ops'[p] = ops[p]
      BY <2>2 DEF R!Ids
    <3>2. Continues(o) /\ ops'[o].step = "returned"
      BY <1>1, <3>1 DEF Continues, R!Operation, R!Steps
    <3>3. \A p \in R!Ids : ops[p] \in R!Operation
      BY <1>1 DEF R!TypeOK
    <3> QED
      BY <3>1, <3>2, <3>3 DEF NoneBegins, Continues
  <2> QED
    BY <2>1, <2>2 DEF R!Read
<1>3. /\ \A p \in R!Ids : ops'[p].step = "reading" => ops[p].step = "reading"
      /\ \A p \in R!Ids : <<p, "refresh">> \in tasks' \ tasks => ops[p].step = "reading"
  <2>1. tasks' \subseteq tasks \cup {<<o, "refresh">>}
    BY DEF R!Read
  <2> QED
    BY <1>1, <1>2, <2>1
<1>4. tasks' \subseteq R!Ids \X {"refresh", "persist"}
  <2>1. tasks \subseteq R!Ids \X {"refresh", "persist"} /\ <<o, "refresh">> \in R!Ids \X {"refresh", "persist"}
    BY <1>1 DEF R!TypeOK
  <2> QED
    BY <2>1 DEF R!Read
<1>5. UNCHANGED <<scope, stored, current, data, stamp>>
  BY DEF R!Read
<1>6. scope' \in Scopes \cup {NoScope} /\ stored' \in [Scopes -> R!Qualities \cup {Nothing}]
  BY <1>1, <1>5 DEF R!TypeOK
<1>7. RestoreInv'
  BY <1>2, <1>3, <1>4, <1>5, <1>6, StampStays, NoneBeginsKeeps
<1> QED
  BY <1>2, <1>7

\* An operation takes a step of its own and leaves the data alone.
LEMMA AdvanceKeeps ==
  ASSUME RestoreInv, NEW o \in R!Ids, NEW s \in R!Steps \ {"reading"}, R!Advance(o, s),
         UNCHANGED <<scope, current, data, stamp>>,
         stored' \in [Scopes -> R!Qualities \cup {Nothing}],
         tasks' \subseteq tasks \cup {<<o, "persist">>}
  PROVE  RestoreInv'
<1>1. RestoreTypes /\ R!TypeOK
  BY DEF RestoreInv, RestoreTypes
<1>2. NoneBegins /\ ops'[o].step = s /\ \A p \in R!Ids \ {o} : ops'[p] = ops[p]
  BY <1>1, AdvanceContinues
<1>3. \A p \in R!Ids : ops'[p].step = "reading" => ops[p].step = "reading"
  BY <1>2
<1>4. \A p \in R!Ids : <<p, "refresh">> \notin tasks' \ tasks
  <2>1. \A p \in R!Ids : <<p, "refresh">> # <<o, "persist">>
    OBVIOUS
  <2> QED
    BY <2>1
<1>5. tasks' \subseteq R!Ids \X {"refresh", "persist"}
  <2>1. tasks \subseteq R!Ids \X {"refresh", "persist"} /\ <<o, "persist">> \in R!Ids \X {"refresh", "persist"}
    BY <1>1 DEF R!TypeOK
  <2> QED
    BY <2>1
<1>6. scope' \in Scopes \cup {NoScope}
  BY <1>1 DEF R!TypeOK
<1> QED
  BY <1>2, <1>3, <1>4, <1>5, <1>6, StampStays, NoneBeginsKeeps

LEMMA OperationStepsKeep ==
  ASSUME RestoreInv, NEW o \in R!Ids, R!Remove(o) \/ R!Fallback(o) \/ R!Answer(o)
  PROVE  RestoreInv'
<1>1. R!TypeOK
  BY DEF RestoreInv, RestoreTypes
<1>2. \E s \in {"fallback", "fetching", "cancelled", "returned"} : R!Advance(o, s)
  BY DEF R!Remove, R!Fallback, R!Answer
<1>3. UNCHANGED <<scope, current, data, stamp>>
  BY DEF R!Remove, R!Fallback, R!Answer
<1>4. tasks' \subseteq tasks \cup {<<o, "persist">>}
  BY DEF R!Remove, R!Fallback, R!Answer
<1>5. stored' \in [Scopes -> R!Qualities \cup {Nothing}]
  BY <1>1 DEF R!TypeOK, R!Remove, R!Fallback, R!Answer
<1>6. {"fallback", "fetching", "cancelled", "returned"} \subseteq R!Steps \ {"reading"}
  BY DEF R!Steps
<1> QED
  BY <1>2, <1>3, <1>4, <1>5, <1>6, AdvanceKeeps

LEMMA PublishKeeps ==
  ASSUME RestoreInv, NEW o \in R!Ids, R!Publish(o)
  PROVE  RestoreInv'
<1>1. RestoreTypes /\ R!TypeOK /\ ops[o] \in R!Operation
  BY DEF RestoreInv, RestoreTypes, R!TypeOK
<1>2. UNCHANGED <<scope, stored, current, tasks>>
  BY DEF R!Publish
<1>3. CASE R!Advance(o, "cancelled") /\ UNCHANGED <<data, stamp>>
  <2>1. stored' \in [Scopes -> R!Qualities \cup {Nothing}] /\ "cancelled" \in R!Steps \ {"reading"}
    BY <1>1, <1>2 DEF R!TypeOK, R!Steps
  <2> QED
    BY <1>2, <1>3, <2>1, AdvanceKeeps
<1>4. CASE /\ R!Advance(o, "done")
           /\ data' = [by |-> o, from |-> ops[o].from, scope |-> ops[o].scope]
           /\ stamp' = o
  <2>1. "done" \in R!Steps
    BY DEF R!Steps
  <2>2. NoneBegins /\ ops'[o].step = "done" /\ \A p \in R!Ids \ {o} : ops'[p] = ops[p]
    BY <1>1, <1>4, <2>1, AdvanceContinues
  <2>3. \A p \in R!Ids : ops'[p].step = "reading" => ops[p].step = "reading"
    BY <2>2
  <2>4. data' \in [by : R!Ids, from : {"network", "cache"}, scope : Scopes \cup {NoScope}]
    BY <1>1, <1>4 DEF R!Operation
  <2>5. o \in Int
    BY <1>1, CountOfOperations DEF R!TypeOK, RestoreTypes
  <2>6. R!StampOfTheData'
    BY <1>4, <2>5 DEF R!StampOfTheData
  <2>7. /\ scope' \in Scopes \cup {NoScope} /\ stored' \in [Scopes -> R!Qualities \cup {Nothing}]
        /\ stamp' \in R!Ids \cup {Nothing} /\ tasks' \subseteq R!Ids \X {"refresh", "persist"}
    BY <1>1, <1>2, <1>4 DEF R!TypeOK
  <2> QED
    BY <1>2, <2>2, <2>3, <2>4, <2>6, <2>7, NoneBeginsKeeps
<1> QED
  BY <1>3, <1>4 DEF R!Publish

\* A call of persisterFn with the data, and a time that is no older than guarded data.
LEMMA BeginningKeeps ==
  ASSUME RestoreInv, NEW parser \in BOOLEAN, R!PersisterFn(parser),
         UNCHANGED <<scope, stored, data>>, tasks' \subseteq tasks, stamp' \in R!Ids \cup {Nothing},
         (/\ \A o \in R!Ids : R!Guarded(o) \/ ops[o].scope = NoScope
          /\ data # Nothing /\ stamp' # Nothing /\ R!Guarded(data.by)) => stamp' >= data.by
  PROVE  RestoreInv' /\ \A p \in R!Ids : p \in R!Ids' /\ ops'[p].step = ops[p].step
<1>1. RestoreTypes /\ R!TypeOK
  BY DEF RestoreInv, RestoreTypes
<1>2. PICK new \in Int :
           /\ R!Ids' = R!Ids \cup {new} /\ R!Ids' = 1 .. Cardinality(R!Ids') /\ Cardinality(R!Ids') \in Nat
           /\ \A p \in R!Ids : p \in Int /\ p < new /\ Continues(p) /\ ops'[p].step = ops[p].step
           /\ ops'[new] \in R!Operation /\ ops'[new].scope = scope
           /\ ops'[new].step = "reading" => scope # NoScope
           /\ IF scope = NoScope THEN ~ops'[new].parser /\ current' = current
              ELSE ops'[new].parser = parser /\ current' = IF parser THEN new ELSE Nothing
  BY <1>1, PersisterFnBegins
<1>3. RestoreTypes'
  <2>1. \A p \in R!Ids' : ops'[p] \in R!Operation
    BY <1>2 DEF Continues
  <2>2. current' \in R!Ids' \cup {Nothing} /\ stamp' \in R!Ids' \cup {Nothing}
    BY <1>1, <1>2 DEF R!TypeOK
  <2>3. data' = Nothing \/ data' \in [by : R!Ids', from : {"network", "cache"}, scope : Scopes \cup {NoScope}]
    BY <1>1, <1>2 DEF R!TypeOK
  <2>4. tasks' \subseteq R!Ids' \X {"refresh", "persist"}
    <3>1. tasks \subseteq R!Ids \X {"refresh", "persist"} /\ R!Ids \subseteq R!Ids'
      BY <1>1, <1>2 DEF R!TypeOK
    <3> QED
      BY <3>1
  <2>5. R!Ids' = 1 .. R!Cardinality(R!Ids')
    BY <1>2, CountOfOperations
  <2>6. scope' \in Scopes \cup {NoScope} /\ stored' \in [Scopes -> R!Qualities \cup {Nothing}]
    BY <1>1 DEF R!TypeOK
  <2>7. R!TypeOK'
    BY <2>1, <2>2, <2>3, <2>4, <2>5, <2>6 DEF R!TypeOK
  <2> QED
    BY <1>2, <2>7 DEF RestoreTypes
<1>4. CurrentIsLast'
  <2> SUFFICES ASSUME NEW c \in R!Ids', NEW p \in R!Ids', current' = c, p > c PROVE ~ops'[p].parser
    BY DEF CurrentIsLast, R!Guarded
  <2>1. CASE scope = NoScope /\ p = new
    BY <1>2, <2>1
  <2>2. CASE scope = NoScope /\ p # new
    <3>1. c \in R!Ids /\ p \in R!Ids /\ current = c
      BY <1>1, <1>2, <2>2, QueryClientAssumption DEF R!TypeOK
    <3> QED
      BY <1>2, <3>1 DEF RestoreInv, CurrentIsLast, R!Guarded, Continues
  <2>3. CASE scope # NoScope
    <3>1. c = new
      BY <1>2, <2>3, QueryClientAssumption
    <3> QED
      BY <1>2, <3>1
  <2> QED
    BY <2>1, <2>2, <2>3
<1>5. ReadsInSession'
  <2>1. \A p \in R!Ids' : ops'[p].step = "reading" => ops'[p].scope # NoScope
    BY <1>2 DEF RestoreInv, ReadsInSession, Continues
  <2>2. \A p : <<p, "refresh">> \in tasks => p \in R!Ids
    BY <1>1 DEF R!TypeOK
  <2>3. \A p \in R!Ids' : <<p, "refresh">> \in tasks' => ops'[p].scope # NoScope
    BY <1>2, <2>2 DEF RestoreInv, ReadsInSession, Continues
  <2> QED
    BY <2>1, <2>3 DEF ReadsInSession
<1>6. R!StampOfTheData'
  <2>1. data # Nothing => data.by \in R!Ids
    BY <1>1 DEF R!TypeOK
  <2>2. \A p \in R!Ids : p \in R!Ids' /\ ops'[p].parser = ops[p].parser /\ ops'[p].scope = ops[p].scope
    BY <1>2 DEF Continues
  <2> QED
    BY <2>1, <2>2 DEF R!StampOfTheData, R!Guarded
<1> QED
  BY <1>2, <1>3, <1>4, <1>5, <1>6 DEF RestoreInv

LEMMA FetchKeeps ==
  ASSUME RestoreInv, NEW parser \in BOOLEAN, R!Fetch(parser)
  PROVE  RestoreInv' /\ \A p \in R!Ids : p \in R!Ids' /\ ops'[p].step = ops[p].step
<1>1. R!PersisterFn(parser) /\ UNCHANGED <<scope, stored, data, stamp, tasks>>
  BY DEF R!Fetch
<1>2. stamp' \in R!Ids \cup {Nothing} /\ R!StampOfTheData
  BY <1>1 DEF RestoreInv, RestoreTypes, R!TypeOK
<1> QED
  BY <1>1, <1>2, BeginningKeeps DEF R!StampOfTheData

\* A restore whose macrotask may go on is the latest guarded operation.
LEMMA RefreshIsLatest ==
  ASSUME RestoreInv, NEW o \in R!Ids, <<o, "refresh">> \in tasks, R!MayGoOn(o),
         \A p \in R!Ids : R!Guarded(p) \/ ops[p].scope = NoScope,
         data # Nothing, R!Guarded(data.by)
  PROVE  o >= data.by
<1>1. R!Guarded(o)
  BY DEF RestoreInv, ReadsInSession
<1>2. current = o
  BY <1>1 DEF R!MayGoOn, R!Current, R!Guarded
<1>3. data.by \in R!Ids /\ R!Ids \subseteq Int
  BY CountOfOperations DEF RestoreInv, RestoreTypes, R!TypeOK
<1>4. ~(data.by > o)
  BY <1>2, <1>3 DEF RestoreInv, CurrentIsLast, R!Guarded
<1>5. data.by \in Int /\ o \in Int
  BY <1>3
<1> QED
  BY <1>4, <1>5

LEMMA RefreshKeeps ==
  ASSUME RestoreInv, NEW o \in R!Ids, R!Refresh(o)
  PROVE  RestoreInv' /\ \A p \in R!Ids : p \in R!Ids' /\ ops'[p].step = ops[p].step
<1>1. RestoreTypes /\ R!TypeOK /\ ops[o] \in R!Operation
  BY DEF RestoreInv, RestoreTypes, R!TypeOK
<1>2. <<o, "refresh">> \in tasks /\ tasks' \subseteq tasks /\ UNCHANGED <<scope, stored, data>>
  BY DEF R!Refresh
<1>3. CASE R!MayGoOn(o) /\ stamp' = o /\ R!PersisterFn(ops[o].parser)
  <2>1. ops[o].parser \in BOOLEAN /\ stamp' \in R!Ids \cup {Nothing}
    BY <1>1, <1>3 DEF R!Operation
  <2> QED
    BY <1>2, <1>3, <2>1, BeginningKeeps, RefreshIsLatest
<1>4. CASE /\ UNCHANGED <<ops, current>>
           /\ UNCHANGED stamp \/ (R!MayGoOn(o) /\ stamp' = o)
  <2>1. NoneBegins /\ \A p \in R!Ids : ops'[p] = ops[p] /\ p \in R!Ids'
    BY <1>1, <1>4 DEF NoneBegins, Continues, R!Ids, R!TypeOK
  <2>2. R!StampOfTheData'
    <3>1. CASE UNCHANGED stamp
      BY <1>2, <2>1, <3>1, StampStays
    <3>2. CASE R!MayGoOn(o) /\ stamp' = o
      <4> SUFFICES ASSUME \A p \in R!Ids : R!Guarded(p) \/ ops[p].scope = NoScope,
                          data # Nothing, R!Guarded(data.by)
                   PROVE  o >= data.by
        BY <1>2, <1>4, <2>1, <3>2 DEF R!StampOfTheData, R!Guarded
      <4> QED
        BY <1>2, <3>2, RefreshIsLatest
    <3> QED
      BY <1>4, <3>1, <3>2
  <2>3. stamp' \in R!Ids \cup {Nothing}
    BY <1>1, <1>4 DEF R!TypeOK
  <2>4. /\ scope' \in Scopes \cup {NoScope} /\ stored' \in [Scopes -> R!Qualities \cup {Nothing}]
        /\ data' = Nothing \/ data' \in [by : R!Ids, from : {"network", "cache"}, scope : Scopes \cup {NoScope}]
        /\ tasks' \subseteq R!Ids \X {"refresh", "persist"}
    BY <1>1, <1>2 DEF R!TypeOK
  <2>5. /\ \A p \in R!Ids : ops'[p].step = "reading" => ops[p].step = "reading"
        /\ \A p \in R!Ids : <<p, "refresh">> \notin tasks' \ tasks
    BY <1>2, <2>1
  <2>6. RestoreInv'
    BY <1>4, <2>1, <2>2, <2>3, <2>4, <2>5, NoneBeginsKeeps
  <2> QED
    BY <2>1, <2>6
<1> QED
  BY <1>3, <1>4 DEF R!Refresh

LEMMA PersistKeeps ==
  ASSUME RestoreInv, NEW o \in R!Ids, R!Persist(o)
  PROVE  RestoreInv'
<1>1. RestoreTypes /\ R!TypeOK
  BY DEF RestoreInv, RestoreTypes
<1>2. tasks' \subseteq tasks /\ UNCHANGED <<scope, ops, current, data, stamp>>
  BY DEF R!Persist
<1>3. NoneBegins /\ \A p \in R!Ids : ops'[p] = ops[p]
  BY <1>1, <1>2 DEF NoneBegins, Continues, R!Ids, R!TypeOK
<1>4. stored' \in [Scopes -> R!Qualities \cup {Nothing}]
  BY <1>1 DEF R!Persist, R!TypeOK, R!Qualities
<1>5. scope' \in Scopes \cup {NoScope} /\ tasks' \subseteq R!Ids \X {"refresh", "persist"}
  BY <1>1, <1>2 DEF R!TypeOK
<1> QED
  BY <1>2, <1>3, <1>4, <1>5, StampStays, NoneBeginsKeeps

LEMMA AbortKeeps ==
  ASSUME RestoreInv, NEW o \in R!Ids, R!Abort(o)
  PROVE  RestoreInv' /\ \A p \in R!Ids : ops'[p].step = ops[p].step
<1>1. RestoreTypes /\ R!TypeOK /\ \A p \in R!Ids : ops[p] \in R!Operation
  BY DEF RestoreInv, RestoreTypes, R!TypeOK
<1>2. UNCHANGED <<scope, stored, current, data, stamp, tasks>>
  BY DEF R!Abort
<1>3. /\ R!Ids' = R!Ids /\ ops'[o] = [ops[o] EXCEPT !.aborted = TRUE]
      /\ \A p \in R!Ids \ {o} : ops'[p] = ops[p]
  BY DEF R!Abort, R!Ids
<1>4. Continues(o) /\ ops'[o].step = ops[o].step
  BY <1>1, <1>3 DEF Continues, R!Operation
<1>5. NoneBegins /\ \A p \in R!Ids : ops'[p].step = ops[p].step
  BY <1>1, <1>3, <1>4 DEF NoneBegins, Continues
<1>6. /\ scope' \in Scopes \cup {NoScope} /\ stored' \in [Scopes -> R!Qualities \cup {Nothing}]
      /\ tasks' \subseteq R!Ids \X {"refresh", "persist"}
  BY <1>1, <1>2 DEF R!TypeOK
<1> QED
  BY <1>2, <1>5, <1>6, StampStays, NoneBeginsKeeps

LEMMA ResetQueryKeeps ==
  ASSUME RestoreInv, R!ResetQuery
  PROVE  RestoreInv' /\ \A p \in R!Ids : ops'[p].step = ops[p].step
<1>1. RestoreTypes /\ R!TypeOK
  BY DEF RestoreInv, RestoreTypes
<1>2. UNCHANGED <<scope, stored, current, tasks>> /\ data' = Nothing /\ stamp' = Nothing /\ ops' = R!Aborted
  BY DEF R!ResetQuery
<1>3. R!Ids' = R!Ids
  BY <1>2 DEF R!Ids, R!Aborted
<1>4. NoneBegins /\ \A p \in R!Ids : ops'[p].step = ops[p].step
  BY <1>1, <1>2, <1>3, AbortedContinues DEF NoneBegins, Continues
<1>5. R!StampOfTheData'
  BY <1>2 DEF R!StampOfTheData
<1>6. /\ scope' \in Scopes \cup {NoScope} /\ stored' \in [Scopes -> R!Qualities \cup {Nothing}]
      /\ tasks' \subseteq R!Ids \X {"refresh", "persist"} /\ stamp' \in R!Ids \cup {Nothing}
  BY <1>1, <1>2 DEF R!TypeOK
<1> QED
  BY <1>2, <1>4, <1>5, <1>6, NoneBeginsKeeps

LEMMA SurroundingsKeep ==
  ASSUME RestoreInv,
         \/ \E s \in Scopes \cup {NoScope} : R!SwitchScope(s)
         \/ \E s \in Scopes : R!OthersStore(s)
         \/ UNCHANGED rvars
  PROVE  RestoreInv'
<1>1. RestoreTypes /\ R!TypeOK
  BY DEF RestoreInv, RestoreTypes
<1>2. UNCHANGED <<ops, current, data, stamp, tasks>>
  BY DEF R!SwitchScope, R!OthersStore, rvars
<1>3. NoneBegins /\ \A p \in R!Ids : ops'[p] = ops[p]
  BY <1>1, <1>2 DEF NoneBegins, Continues, R!Ids, R!TypeOK
<1>4. /\ scope' \in Scopes \cup {NoScope} /\ stored' \in [Scopes -> R!Qualities \cup {Nothing}]
      /\ tasks' \subseteq R!Ids \X {"refresh", "persist"}
  BY <1>1, <1>2 DEF R!TypeOK, R!SwitchScope, R!OthersStore, R!Qualities, rvars
<1> QED
  BY <1>2, <1>3, <1>4, StampStays, NoneBeginsKeeps

LEMMA RestoreStep == RestoreInv /\ [R!Next]_rvars => RestoreInv'
<1> SUFFICES ASSUME RestoreInv, [R!Next]_rvars PROVE RestoreInv'
  OBVIOUS
<1>1. ASSUME NEW o \in R!Ids, R!Step(o) PROVE RestoreInv'
  BY <1>1, ReadKeeps, OperationStepsKeep, PublishKeeps, RefreshKeeps, PersistKeeps DEF R!Step
<1> QED
  BY <1>1, FetchKeeps, AbortKeeps, ResetQueryKeeps, SurroundingsKeep DEF R!Next

-------------------------------------------------------------------------------
(* What a step of the restores may do.                                     *)

\* The request is made only in the session of the operation.
LEMMA FetchingInSession ==
  ASSUME RestoreInv, [R!Next]_rvars, NEW o \in R!Ids, R!Guarded(o),
         ops'[o].step = "fetching", ops[o].step # "fetching"
  PROVE  scope = ops[o].scope /\ ~ops[o].aborted
<1>1. RestoreTypes /\ \A p \in R!Ids : ops[p] \in R!Operation
  BY DEF RestoreInv, RestoreTypes, R!TypeOK
<1>2. CASE \E p \in R!Ids : R!Fallback(p)
  <2> PICK p \in R!Ids : R!Fallback(p)
    BY <1>2
  <2>1. R!Advance(p, IF R!MayGoOn(p) THEN "fetching" ELSE "cancelled")
    BY DEF R!Fallback
  <2>2. p = o /\ R!MayGoOn(p)
    <3>1. (IF R!MayGoOn(p) THEN "fetching" ELSE "cancelled") \in R!Steps
      BY DEF R!Steps
    <3>2. /\ ops'[p].step = IF R!MayGoOn(p) THEN "fetching" ELSE "cancelled"
          /\ \A q \in R!Ids \ {p} : ops'[q] = ops[q]
      BY <1>1, <2>1, <3>1, AdvanceContinues
    <3> QED
      BY <3>2
  <2> QED
    BY <2>2 DEF R!MayGoOn, R!Guarded, R!Current
<1>3. ASSUME NEW p \in R!Ids, R!Remove(p) \/ R!Answer(p) \/ R!Publish(p)
      PROVE  FALSE
  <2>1. PICK s \in {"fallback", "returned", "cancelled", "done"} : R!Advance(p, s)
    BY <1>3 DEF R!Remove, R!Answer, R!Publish
  <2>2. ops'[p].step = s /\ \A q \in R!Ids \ {p} : ops'[q] = ops[q]
    BY <1>1, <2>1, AdvanceContinues DEF R!Steps
  <2> QED
    BY <2>1, <2>2
<1>4. ASSUME NEW p \in R!Ids, R!Read(p) PROVE FALSE
  BY <1>4, ReadKeeps
<1>5. ASSUME NEW p \in R!Ids, R!Refresh(p) \/ R!Abort(p) PROVE FALSE
  BY <1>5, RefreshKeeps, AbortKeeps
<1>6. ASSUME \/ \E p \in R!Ids : R!Persist(p)
             \/ \E s \in Scopes \cup {NoScope} : R!SwitchScope(s)
             \/ \E s \in Scopes : R!OthersStore(s)
             \/ UNCHANGED rvars
      PROVE  FALSE
  <2>1. ops' = ops
    BY <1>6 DEF R!Persist, R!SwitchScope, R!OthersStore, rvars
  <2> QED
    BY <2>1
<1>7. ASSUME R!ResetQuery \/ \E parser \in BOOLEAN : R!Fetch(parser) PROVE FALSE
  BY <1>7, ResetQueryKeeps, FetchKeeps
<1> QED
  BY <1>2, <1>3, <1>4, <1>5, <1>6, <1>7 DEF R!Next, R!Step

\* Only Publish and ResetQuery write the data.
LEMMA PublishesInSession ==
  ASSUME RestoreInv, [R!Next]_rvars, NEW o \in R!Ids, R!Guarded(o),
         data' # data, data' # Nothing, data'.by = o
  PROVE  scope = ops[o].scope /\ \A p \in R!Ids : p > o => ~R!Guarded(p)
<1>1. PICK p \in R!Ids : R!Publish(p)
  BY DEF R!Next, R!Step, R!Fetch, R!Read, R!Remove, R!Fallback, R!Answer, R!Refresh, R!Persist, R!Abort,
         R!SwitchScope, R!ResetQuery, R!OthersStore, rvars
<1>2. R!MayGoOn(p) /\ data' = [by |-> p, from |-> ops[p].from, scope |-> ops[p].scope]
  BY <1>1 DEF R!Publish
<1>3. p = o
  BY <1>2
<1>4. current = o /\ scope = ops[o].scope
  BY <1>2, <1>3 DEF R!MayGoOn, R!Guarded, R!Current
<1> QED
  BY <1>4 DEF RestoreInv, CurrentIsLast

\* Only Remove takes an entry away.
LEMMA RemovesInSession ==
  ASSUME RestoreInv, [R!Next]_rvars, NEW s \in Scopes, stored[s] # Nothing, stored'[s] = Nothing
  PROVE  \E o \in R!Ids : /\ ops[o].scope = s /\ ops[o].step = "removing"
                          /\ R!Guarded(o) => ~ops[o].aborted /\ scope = s
<1>1. stored \in [Scopes -> R!Qualities \cup {Nothing}]
  BY DEF RestoreInv, RestoreTypes, R!TypeOK
<1>2. ~\E q \in Scopes : R!OthersStore(q)
  BY <1>1, QueryClientAssumption DEF R!OthersStore
<1>3. ~\E p \in R!Ids : R!Persist(p)
  BY <1>1, QueryClientAssumption DEF R!Persist
<1>4. PICK o \in R!Ids : R!Remove(o)
  BY <1>2, <1>3 DEF R!Next, R!Step, R!Fetch, R!Read, R!Publish, R!Fallback, R!Answer, R!Refresh, R!Abort,
         R!SwitchScope, R!ResetQuery, rvars
<1>5. R!MayGoOn(o) /\ ops[o].scope = s /\ ops[o].step = "removing"
  BY <1>1, <1>4 DEF R!Remove
<1> QED
  BY <1>5 DEF R!MayGoOn, R!Guarded, R!Current

\* A guarded operation publishes and asks the network only in its session, only when
\* no newer one is under way; no old macrotask gives its time to newer data; and only
\* a restore that was not cancelled takes a snapshot away.
THEOREM RestoresAreCurrentHolds == Spec => RestoresAreCurrent
<1>1. Init => RestoreInv
  BY Initially, RestoreInit
<1>2. RestoreInv /\ [Next]_vars => RestoreInv'
  BY OneMoves, RestoreStep
<1>3. RestoreInv => R!StampOfTheData
  BY DEF RestoreInv
<1> DEFINE Session == \A o \in R!Ids : R!Guarded(o) =>
             /\ data' # data /\ data' # Nothing /\ data'.by = o
                  => scope = ops[o].scope /\ \A p \in R!Ids : p > o => ~R!Guarded(p)
             /\ ops'[o].step = "fetching" /\ ops[o].step # "fetching"
                  => scope = ops[o].scope /\ ~ops[o].aborted
           Removal == \A s \in Scopes : stored[s] # Nothing /\ stored'[s] = Nothing =>
             \E o \in R!Ids : /\ ops[o].scope = s /\ ops[o].step = "removing"
                              /\ R!Guarded(o) => ~ops[o].aborted /\ scope = s
<1>4. RestoreInv /\ [Next]_vars => [Session]_rvars
  <2> SUFFICES ASSUME RestoreInv, [R!Next]_rvars PROVE Session
    BY OneMoves
  <2> QED
    BY FetchingInSession, PublishesInSession
<1>5. RestoreInv /\ [Next]_vars => [Removal]_rvars
  <2> SUFFICES ASSUME RestoreInv, [R!Next]_rvars PROVE Removal
    BY OneMoves
  <2> QED
    BY RemovesInSession
<1>6. [][Session]_rvars => R!NothingForeign
  BY DEF R!NothingForeign, R!vars, rvars
<1>7. [][Removal]_rvars => R!SnapshotOutlivesCancel
  BY DEF R!SnapshotOutlivesCancel, R!vars, rvars
<1> QED
  BY <1>1, <1>2, <1>3, <1>4, <1>5, <1>6, <1>7, PTL DEF Spec, RestoresAreCurrent

\* Every component keeps its types, whichever of them runs.
THEOREM TypesHold == Spec => []TypeOK
<1>1. Init => RestoreInv /\ BroadcastInv /\ MutationInv
  BY Initially, RestoreInit, BroadcastInit, MutationInit
<1>2. RestoreInv /\ BroadcastInv /\ MutationInv /\ [Next]_vars => (RestoreInv /\ BroadcastInv /\ MutationInv)'
  BY OneMoves, RestoreStep, BroadcastStep, MutationStep
<1>3. RestoreInv /\ BroadcastInv /\ MutationInv => TypeOK
  BY DEF TypeOK, RestoreInv, RestoreTypes, BroadcastInv, BroadcastTypes, MutationInv, MutationTypes
<1> QED
  BY <1>1, <1>2, <1>3, PTL DEF Spec
===============================================================================
