------------------------------ MODULE SessionCache ------------------------------
(***************************************************************************)
(* Persistence of session-scoped queries in IndexedDB: the scope of every  *)
(* tab, the bounded storage of a session cache with its prune queue, and   *)
(* the cleanup that follows a change of scope.                             *)
(*                                                                         *)
(* IndexedDB is used through one object store, so its transactions run one *)
(* at a time in the order they were created, whatever tab created them.    *)
(* A transaction and the code that its completion resumes are one step.    *)
(* The removals of one Promise.all are one transaction that may fail half  *)
(* way.                                                                    *)
(***************************************************************************)
EXTENDS Integers, Sequences, FiniteSets

CONSTANTS
  Tabs, Scopes, Caches, Keys,
  Busters,      \* builds of the application, by their persistenceBuster
  NoScope,
  NameExtends,  \* <<c, d>>: the name of d is the name of c, a dash and more
  MaxEntries,   \* the policy's limit of a cache
  Monotonic,    \* the policy names a monotonicRevisionField
  MaxRevision,  \* bound on the revisions the server answers with, 0 for none that can be read
  MaxWrites, MaxSwitches, MaxFailures \* bounds on the behaviours

ASSUME SessionCacheAssumption ==
  /\ NoScope \notin Scopes
  /\ NameExtends \in SUBSET (Caches \X Caches)
  /\ MaxEntries \in Nat \ {0} /\ Monotonic \in BOOLEAN
  /\ {MaxRevision, MaxWrites, MaxSwitches, MaxFailures} \subseteq Nat

VARIABLES
  buster,    \* the build that every tab runs
  scope,     \* activeSessionPersistenceScope of every tab
  store,     \* the entries of the object store
  queue,     \* transactions created and not run yet
  opening,   \* cleanups of a tab that wait for their database to open
  pruning,   \* prunes in the pruneQueue of a persister, the running one first
  poisoned,  \* persisters whose pruneQueue is rejected
  writes,    \* results fetched so far, the clock of dataUpdatedAt
  switches, failures

vars == <<buster, scope, store, queue, opening, pruning, poisoned, writes, switches, failures>>

Persisters == Tabs \X Scopes \X Caches
Names == Scopes \X Caches \X Keys
Entry ==
  [name : Names, updatedAt : 1 .. MaxWrites, buster : Busters, revision : 0 .. MaxRevision]
Transaction ==
  [op : {"put"}, by : Persisters, entry : Entry] \cup
  [op : {"list"}, by : Persisters] \cup
  [op : {"delete"}, by : Persisters, names : SUBSET Names] \cup
  [op : {"listAll"}, keep : Scopes \cup {NoScope}] \cup
  [op : {"deleteAll"}, names : SUBSET Names]

TypeOK ==
  /\ buster \in [Tabs -> Busters]
  /\ scope \in [Tabs -> Scopes \cup {NoScope}]
  /\ store \in SUBSET Entry
  /\ queue \in Seq(Transaction)
  /\ opening \in [Tabs -> Seq(Scopes \cup {NoScope})]
  /\ pruning \in [Persisters -> 0 .. MaxWrites]
  /\ poisoned \in SUBSET Persisters
  /\ writes \in 0 .. MaxWrites
  /\ switches \in 0 .. MaxSwitches
  /\ failures \in 0 .. MaxFailures
  \* One value per storage key.
  /\ \A e, f \in store : e.name = f.name => e = f

Init ==
  /\ buster \in [Tabs -> Busters]
  /\ \E s \in Scopes : scope = [t \in Tabs |-> s]
  /\ store = {} /\ queue = <<>>
  /\ opening = [t \in Tabs |-> <<>>]
  /\ pruning = [p \in Persisters |-> 0] /\ poisoned = {}
  /\ writes = 0 /\ switches = 0 /\ failures = 0

-------------------------------------------------------------------------------
\* persisterFn: the result of a query is handed to boundedStorage.setItem of the
\* persister the query was started with.
WrongMayWrite(t, s) == TRUE \* the request outlives the scope it was started in

MayWrite(t, s) == scope[t] = s

SetItem(t, s, c, k) ==
  /\ writes < MaxWrites
  /\ MayWrite(t, s)
  /\ writes' = writes + 1
  /\ \E r \in 0 .. MaxRevision :
       queue' = Append(queue,
         [op |-> "put", by |-> <<t, s, c>>,
          entry |-> [name |-> <<s, c, k>>, updatedAt |-> writes + 1,
                     buster |-> buster[t], revision |-> r]])
  /\ UNCHANGED <<buster, scope, store, opening, pruning, poisoned, switches, failures>>

\* setSessionQueryPersistenceScope: the boundary moves at once, the cleanup opens
\* a database of its own.
SwitchScope(t, s) ==
  /\ switches < MaxSwitches
  /\ switches' = switches + 1
  /\ scope' = [scope EXCEPT ![t] = s]
  /\ opening' = [opening EXCEPT ![t] = Append(@, s)]
  /\ UNCHANGED <<buster, store, queue, pruning, poisoned, writes, failures>>

\* The scopes whose entries a cleanup leaves alone.
Kept(s) == {s}

DatabaseOpens(t) ==
  /\ opening[t] # <<>>
  /\ queue' = Append(queue, [op |-> "listAll", keep |-> Head(opening[t])])
  /\ opening' = [opening EXCEPT ![t] = Tail(@)]
  /\ UNCHANGED <<buster, scope, store, pruning, poisoned, writes, switches, failures>>

-------------------------------------------------------------------------------
\* The transactions.

Key(e) == e.name[3]
Without(names) == {e \in store : e.name \notin names}

WrongKeepsStored(stored, new) == FALSE \* setItem instead of updateItem

\* The decision of updateItem: revisions are compared within one build, and only when
\* both can be read.
KeepsStored(stored, new) ==
  /\ Monotonic /\ stored.buster = new.buster
  /\ stored.revision # 0 /\ new.revision # 0
  /\ stored.revision > new.revision

Put(e) ==
  IF \E f \in store : f.name = e.name /\ KeepsStored(f, e)
    THEN store
    ELSE Without({e.name}) \cup {e}

\* entryKey.startsWith(`${prefix}-`)
HasPrefix(e, p) ==
  e.name[1] = p[2] /\ (e.name[2] = p[3] \/ <<p[3], e.name[2]>> \in NameExtends)

WrongSurvives(e, listed) == \* one entry too many is kept
  Cardinality({f \in listed : f.updatedAt > e.updatedAt}) <= MaxEntries

Survives(e, listed) ==
  Cardinality({f \in listed : f.updatedAt > e.updatedAt}) < MaxEntries

\* entries.slice(maxEntries) of the entries listed, latest first.
Victims(p) ==
  LET listed == {e \in store : HasPrefix(e, p)}
  IN  {e.name : e \in {f \in listed : ~Survives(f, listed)}}

List(p) == [op |-> "list", by |-> p]

\* The prune that follows the running one in the pruneQueue.
NextPrune(p) == IF pruning[p] > 1 THEN <<List(p)>> ELSE <<>>

Join(p) == IF pruning[p] = 0 THEN <<List(p)>> ELSE <<>>

\* The first transaction commits and its owner goes on.
Commit ==
  /\ queue # <<>>
  /\ LET x == Head(queue) IN
     \/ /\ x.op = "put"
        /\ store' = Put(x.entry)
        /\ IF x.by \in poisoned
             THEN pruning' = pruning /\ queue' = Tail(queue)
             ELSE /\ pruning' = [pruning EXCEPT ![x.by] = @ + 1]
                  /\ queue' = Tail(queue) \o Join(x.by)
     \/ /\ x.op = "list"
        /\ IF Victims(x.by) = {}
             THEN /\ pruning' = [pruning EXCEPT ![x.by] = @ - 1]
                  /\ queue' = Tail(queue) \o NextPrune(x.by)
             ELSE /\ pruning' = pruning
                  /\ queue' = Append(Tail(queue),
                       [op |-> "delete", by |-> x.by, names |-> Victims(x.by)])
        /\ store' = store
     \/ /\ x.op = "delete"
        /\ store' = Without(x.names)
        /\ pruning' = [pruning EXCEPT ![x.by] = @ - 1]
        /\ queue' = Tail(queue) \o NextPrune(x.by)
     \/ /\ x.op = "listAll"
        /\ LET old == {e \in store : e.name[1] \notin Kept(x.keep)} IN
           queue' = Append(Tail(queue), [op |-> "deleteAll", names |-> {e.name : e \in old}])
        /\ UNCHANGED <<store, pruning>>
     \/ /\ x.op = "deleteAll"
        /\ store' = Without(x.names)
        /\ queue' = Tail(queue) /\ pruning' = pruning
  /\ UNCHANGED <<buster, scope, opening, poisoned, writes, switches, failures>>

\* The first transaction fails: a put rejects its setItem, a failed prune leaves
\* the pruneQueue rejected, and with it every prune that waits or comes later.
Fail ==
  /\ queue # <<>> /\ failures < MaxFailures
  /\ failures' = failures + 1
  /\ queue' = Tail(queue)
  /\ LET x == Head(queue) IN
     /\ IF x.op \in {"delete", "deleteAll"}
          THEN \E done \in SUBSET x.names : done # x.names /\ store' = Without(done)
          ELSE store' = store
     /\ IF x.op \in {"list", "delete"}
          THEN /\ poisoned' = poisoned \cup {x.by}
               /\ pruning' = [pruning EXCEPT ![x.by] = 0]
          ELSE UNCHANGED <<poisoned, pruning>>
  /\ UNCHANGED <<buster, scope, opening, writes, switches>>

Next ==
  \/ \E t \in Tabs :
       \/ \E s \in Scopes, c \in Caches, k \in Keys : SetItem(t, s, c, k)
       \/ \E s \in Scopes \cup {NoScope} : SwitchScope(t, s)
       \/ DatabaseOpens(t)
  \/ Commit
  \/ Fail

Spec == Init /\ [][Next]_vars

-------------------------------------------------------------------------------
Quiet == queue = <<>> /\ \A t \in Tabs : opening[t] = <<>>

\* When the storage is quiet, it holds no snapshot of a session that no tab is in
\* any more, however writes, changes of scope and cleanups of the tabs raced.
NoForeignSnapshot ==
  Quiet /\ failures = 0 => \A e \in store : \E t \in Tabs : scope[t] = e.name[1]

InCache(s, c) == {e \in store : e.name[1] = s /\ e.name[2] = c}

\* When the storage is quiet, a cache holds at most maxEntries entries, although
\* tabs put and prune at the same time and other transactions fail.
CacheBounded ==
  Quiet => \A s \in Scopes, c \in Caches :
    \/ Cardinality(InCache(s, c)) <= MaxEntries
    \/ \E t \in Tabs : <<t, s, c>> \in poisoned

\* What a put may leave in the place of e.
MayFollow(e, f) ==
  e.buster = f.buster /\ e.revision # 0 /\ f.revision # 0 => e.revision <= f.revision

\* A late tab cannot put a smaller revision over a larger one that its own build has
\* stored.  The order holds from one entry to the next only: an entry of another build,
\* or without a revision that can be read, replaces what is stored and is replaced by
\* whatever comes, so that the revisions may go back across it.
RevisionsGrow ==
  [][\A e \in store, f \in store' : e.name = f.name => MayFollow(e, f)]_vars

-------------------------------------------------------------------------------
(* What the documentation says and the code does not keep.                 *)

\* maxEntries is the number of the LAST queries a cache keeps (queryMeta.ts): the
\* last result of a scope that nobody left is in the quiet storage.
KeepsTheLast ==
  Quiet /\ switches = 0 /\ writes > 0 => \E e \in store : e.updatedAt = writes

\* maxEntries bounds the cache (queryMeta.ts): each failed transaction leaves at
\* most one entry too many.
BoundedAfterFailure ==
  Quiet => \A s \in Scopes, c \in Caches :
             Cardinality(InCache(s, c)) <= MaxEntries + failures
===============================================================================
