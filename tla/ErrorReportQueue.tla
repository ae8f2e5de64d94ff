---------------------------- MODULE ErrorReportQueue ----------------------------
(***************************************************************************)
(* The durable queue of error reports shared by the tabs of a browser.     *)
(* All tabs change one IndexedDB record, each operation in a transaction   *)
(* of its own; what an operation knows of the time is captured when it is  *)
(* called and may be MaxLag old when its transaction runs.  The tabs       *)
(* follow the lease flow of the README: lease a report, deliver it, then   *)
(* acknowledge, discard or reschedule it; a tab may be closed meanwhile,   *)
(* and a delivery may outlast its lease.                                   *)
(* Data left out: the payload, attemptCount and lastFailure, which decide  *)
(* nothing here, and the order of records with equal timestamps.           *)
(***************************************************************************)
EXTENDS Integers, FiniteSets

CONSTANTS
  Reports,     \* report ids
  Owners,      \* lease owners: tabs
  NoReport, NoOwner,
  Capacity,    \* ERROR_REPORT_QUEUE_MAX_ITEMS
  Ttl,         \* ERROR_REPORT_QUEUE_TTL_MS
  Lease,       \* ERROR_REPORT_QUEUE_LEASE_MS
  MaxLag,      \* bound on the time between a call and its transaction
  MaxQueueTime \* bound on the clock

ASSUME QueueAssumption ==
  /\ NoReport \notin Reports /\ NoOwner \notin Owners
  /\ IsFiniteSet(Reports)
  /\ Capacity \in Nat \ {0} /\ Ttl \in Nat \ {0} /\ Lease \in Nat \ {0}
  /\ MaxLag \in Nat /\ MaxLag < Ttl
  /\ MaxQueueTime \in Nat

VARIABLES
  now,   \* the clock of the browser
  queue, \* the stored envelope: report -> record, Empty if it has none
  held   \* what leaseNext() returned to a tab, until it settles the report

queueVars == <<now, queue, held>>

Never == -1
Empty == [enqueued |-> Never, next |-> 0, owner |-> NoOwner, until |-> 0]
Idle == [report |-> NoReport, enqueued |-> 0, until |-> 0]

QueueRecord ==
  [enqueued : Nat, next : Nat, owner : Owners \cup {NoOwner}, until : Nat]
Grant == [report : Reports, enqueued : Nat, until : Nat]

Stored == {r \in Reports : queue[r] # Empty}

QueueTypeOK ==
  /\ now \in 0 .. MaxQueueTime
  /\ queue \in [Reports -> QueueRecord \cup {Empty}]
  /\ held \in [Owners -> Grant \cup {Idle}]
  /\ Cardinality(Stored) <= Capacity

QueueInit ==
  /\ now = 0
  /\ queue = [r \in Reports |-> Empty]
  /\ held = [o \in Owners |-> Idle]

-------------------------------------------------------------------------------
\* The moments at which a call whose transaction runs now may have been made.
Recent == {t \in 0 .. now : now - MaxLag <= t}

\* normalizeErrorReportQueueRecords: the records that have not expired.
Live(t) == {r \in Stored : queue[r].enqueued + Ttl > t}

Normalized(t) == [r \in Reports |-> IF r \in Live(t) THEN queue[r] ELSE Empty]

NewRecord(t) ==
  [enqueued |-> t, next |-> t, owner |-> NoOwner, until |-> 0]

IsFull(t) == Cardinality(Live(t)) >= Capacity

WrongUnleased(t) == Live(t) \* a leased report may be evicted

Unleased(t) == {r \in Live(t) : queue[r].owner = NoOwner}

\* The first of the unleased records by the time of enqueue.
Evictable(t) ==
  {r \in Unleased(t) :
     \A s \in Unleased(t) : queue[r].enqueued <= queue[s].enqueued}

Enqueue(r, t) ==
  /\ \/ /\ r \in Live(t)
        /\ queue' = Normalized(t)
     \/ /\ r \notin Live(t) /\ ~IsFull(t)
        /\ queue' = [Normalized(t) EXCEPT ![r] = NewRecord(t)]
     \/ /\ r \notin Live(t) /\ IsFull(t)
        /\ \E e \in Evictable(t) :
             queue' = [Normalized(t) EXCEPT ![e] = Empty, ![r] = NewRecord(t)]
     \/ /\ r \notin Live(t) /\ IsFull(t) /\ Evictable(t) = {}
        /\ queue' = Normalized(t)
  /\ UNCHANGED <<now, held>>

WrongIsFree(r, t) == TRUE \* the lease of another tab is not looked at

IsFree(r, t) == queue[r].owner = NoOwner \/ queue[r].until <= t

Due(t) == {r \in Live(t) : queue[r].next <= t /\ IsFree(r, t)}

\* compareQueueOrder: by the next attempt, then by the time of enqueue.
Before(r, s) ==
  \/ queue[r].next < queue[s].next
  \/ queue[r].next = queue[s].next /\ queue[r].enqueued < queue[s].enqueued

LeaseNext(o, t) ==
  /\ held[o] = Idle
  /\ \/ /\ Due(t) = {}
        /\ queue' = Normalized(t)
        /\ UNCHANGED held
     \/ \E r \in Due(t) :
          /\ \A s \in Due(t) : ~Before(s, r)
          /\ queue' = [Normalized(t) EXCEPT
                         ![r].owner = o, ![r].until = t + Lease]
          /\ held' = [held EXCEPT ![o] =
                        [report |-> r, enqueued |-> queue[r].enqueued,
                         until |-> t + Lease]]
  /\ UNCHANGED now

\* resolveTransition
OwnsLease(o, r, t) == r \in Live(t) /\ queue[r].owner = o

\* acknowledge() and discard(), which change the queue in the same way.
RemoveReport(o, t) ==
  LET r == held[o].report IN
  /\ held[o] # Idle
  /\ queue' = IF OwnsLease(o, r, t)
                THEN [Normalized(t) EXCEPT ![r] = Empty] ELSE Normalized(t)
  /\ held' = [held EXCEPT ![o] = Idle]
  /\ UNCHANGED now

\* The queue is normalized at failure.utc, which is t.
Reschedule(o, t, attempt) ==
  LET r == held[o].report IN
  /\ held[o] # Idle
  /\ queue' = IF OwnsLease(o, r, t)
                THEN [Normalized(t) EXCEPT ![r].next = attempt,
                                           ![r].owner = NoOwner, ![r].until = 0]
                ELSE Normalized(t)
  /\ held' = [held EXCEPT ![o] = Idle]
  /\ UNCHANGED now

\* A tab is closed, or its call fails in the storage.
Crash(o) ==
  /\ held[o] # Idle
  /\ held' = [held EXCEPT ![o] = Idle]
  /\ UNCHANGED <<now, queue>>

QueueTick ==
  /\ now < MaxQueueTime
  /\ now' = now + 1
  /\ UNCHANGED <<queue, held>>

QueueNext ==
  \/ QueueTick
  \/ \E t \in Recent :
       \/ \E r \in Reports : Enqueue(r, t)
       \/ \E o \in Owners :
            \/ LeaseNext(o, t) \/ RemoveReport(o, t)
            \/ \E attempt \in t .. MaxQueueTime : Reschedule(o, t, attempt)
  \/ \E o \in Owners : Crash(o)

QueueSpec == QueueInit /\ [][QueueNext]_queueVars

-------------------------------------------------------------------------------
WrongWakeOf(r) == queue[r].next \* the lease is not looked at

WakeOf(r) ==
  IF queue[r].owner # NoOwner /\ queue[r].until > queue[r].next
    THEN queue[r].until ELSE queue[r].next

\* getNextWakeUtc() is at or before t.
WakesBy(t) == \E r \in Live(now) : WakeOf(r) <= t

\* The wake-up a coordinator schedules is exact: until the first record
\* expires, leaseNext() finds a report from that moment on and never before.
WakeIsExact ==
  \A t \in now .. now + Ttl :
    Live(t) = Live(now) => (Due(t) # {} <=> WakesBy(t))

\* A report is delivered by one tab at a time: two tabs never hold unexpired
\* leases of one enqueued report, although no tab sees the other and each
\* decides by a time read before its transaction.
ExclusiveDelivery ==
  \A o, p \in Owners :
    /\ o # p
    /\ held[o] # Idle /\ held[p] # Idle
    /\ held[o].report = held[p].report
    /\ held[o].enqueued = held[p].enqueued
    => held[o].until <= now \/ held[p].until <= now

\* A lease that has not run out ends by the hand of its owner only: not by a
\* tab whose own lease of the report ran out, not by a newcomer to a full queue.
LeaseEndsByOwner ==
  [][\A r \in Reports :
       LET o == queue[r].owner IN
       /\ r \in Live(now) /\ o # NoOwner /\ queue[r].until > now
       /\ queue'[r] # queue[r]
       => held[o].report = r /\ held'[o] = Idle]_queueVars

\* No accepted report is lost: it leaves the queue when it expires, when the tab
\* that leased it last settles it, or unleased to a newcomer to a full queue.
NoSilentLoss ==
  [][\A r \in Stored : queue'[r] = Empty
       => \/ queue[r].enqueued + Ttl <= now
          \/ \E o \in Owners : queue[r].owner = o /\ held[o].report = r
                                 /\ held'[o] = Idle
          \/ /\ queue[r].owner = NoOwner
             /\ \E s \in Reports : queue'[s].enqueued > queue[s].enqueued]_queueVars

\* README, "Durable IndexedDB queue": a full queue gives up its oldest report
\* without an active lease, so a newcomer is refused for active leases only.
RefusesForActiveLeases ==
  \A t \in Recent :
    IsFull(t) /\ Evictable(t) = {} => \A r \in Live(t) : queue[r].until > t
===============================================================================
