--------------------------- MODULE SessionCacheProofs ---------------------------
(***************************************************************************)
(* The session cache proved for every number of tabs, scopes, caches and   *)
(* queries, every policy, and every number of writes, changes of scope and *)
(* failures.                                                               *)
(***************************************************************************)
EXTENDS SessionCache, FiniteSetTheorems, WellFoundedInduction, TLAPS

(***************************************************************************)
(* The transactions in their queue.                                        *)
(***************************************************************************)

\* The first transaction leaves the queue, and those of "new", at most one, join it.
Shifted(new) ==
  /\ queue' \in Seq(Transaction)
  /\ \A j \in DOMAIN queue' :
       \/ j + 1 \in DOMAIN queue /\ queue'[j] = queue[j + 1]
       \/ j = Len(queue) /\ queue'[j] \in new
  /\ \A j \in DOMAIN queue : j # 1 => j - 1 \in DOMAIN queue' /\ queue'[j - 1] = queue[j]
  /\ \A y \in new : Len(queue) \in DOMAIN queue' /\ queue'[Len(queue)] = y

LEMMA DropFirst ==
  ASSUME queue \in Seq(Transaction), queue # <<>>, queue' = Tail(queue)
  PROVE  Shifted({})
<1>1. Len(queue) \in Nat \ {0} /\ DOMAIN queue = 1 .. Len(queue)
  OBVIOUS
<1>2. /\ queue' \in Seq(Transaction) /\ DOMAIN queue' = 1 .. Len(queue) - 1
      /\ \A j \in 1 .. Len(queue) - 1 : queue'[j] = queue[j + 1]
  OBVIOUS
<1> QED
  BY <1>1, <1>2 DEF Shifted

LEMMA Replace ==
  ASSUME queue \in Seq(Transaction), queue # <<>>, NEW y \in Transaction,
         queue' = Append(Tail(queue), y)
  PROVE  Shifted({y})
<1>1. Len(queue) \in Nat \ {0} /\ DOMAIN queue = 1 .. Len(queue)
  OBVIOUS
<1>2. /\ queue' \in Seq(Transaction) /\ DOMAIN queue' = 1 .. Len(queue)
      /\ \A j \in 1 .. Len(queue) - 1 : queue'[j] = queue[j + 1]
      /\ queue'[Len(queue)] = y
  OBVIOUS
<1> QED
  BY <1>1, <1>2 DEF Shifted

\* A transaction joins the queue.
Joined(y) ==
  /\ queue' \in Seq(Transaction)
  /\ \A j \in DOMAIN queue' :
       \/ j \in DOMAIN queue /\ queue'[j] = queue[j]
       \/ j = Len(queue) + 1 /\ queue'[j] = y
  /\ \A j \in DOMAIN queue : j \in DOMAIN queue' /\ queue'[j] = queue[j]
  /\ Len(queue) + 1 \in DOMAIN queue' /\ queue'[Len(queue) + 1] = y

LEMMA AppendJoins ==
  ASSUME queue \in Seq(Transaction), NEW y \in Transaction, queue' = Append(queue, y)
  PROVE  Joined(y)
BY DEF Joined

\* The entries that survive a prune are no more than maxEntries.
LEMMA SurvivorsAreFew ==
  ASSUME NEW listed, IsFiniteSet(listed),
         \A e \in listed : e.updatedAt \in Nat,
         \A e, f \in listed : e.updatedAt = f.updatedAt => e = f
  PROVE  Cardinality({e \in listed : Survives(e, listed)}) <= MaxEntries
<1> DEFINE S == {e \in listed : Survives(e, listed)}
           times == {e.updatedAt : e \in S}
<1>1. IsFiniteSet(S) /\ Cardinality(S) \in Nat
  BY FS_Subset, FS_CardinalityType
<1>2. MaxEntries \in Nat
  BY SessionCacheAssumption
<1>3. CASE S = {}
  <2>1. Cardinality(S) = 0
    BY <1>3, FS_EmptySet
  <2> QED
    BY <1>2, <2>1
<1>4. CASE S # {}
  <2>1. times \subseteq Nat /\ times # {}
    BY <1>4
  <2>2. PICK u \in times : \A v \in times : ~(<<v, u>> \in OpToRel(<, Nat))
    BY <2>1, WFMin, NatLessThanWellFounded
  <2>3. PICK m \in S : m.updatedAt = u
    BY <2>2
  <2>4. \A v \in times : ~(v < u)
    BY <2>1, <2>2 DEF OpToRel
  <2>5. ASSUME NEW e \in S, e # m PROVE e.updatedAt > m.updatedAt
    <3>1. e.updatedAt \in times /\ e.updatedAt \in Nat /\ u \in Nat
      BY <2>1
    <3>2. e.updatedAt # m.updatedAt
      BY <2>5
    <3> QED
      BY <2>3, <2>4, <3>1, <3>2
  <2> DEFINE later == {f \in listed : f.updatedAt > m.updatedAt}
  <2>6. S \ {m} \subseteq later /\ IsFiniteSet(later) /\ Cardinality(later) \in Nat
    BY <2>5, FS_Subset, FS_CardinalityType
  <2>7. Cardinality(S \ {m}) <= Cardinality(later)
    BY <2>6, FS_Subset
  <2>8. Cardinality(later) < MaxEntries
    BY DEF Survives
  <2>9. Cardinality(S \ {m}) = Cardinality(S) - 1
    BY <1>1, FS_RemoveElement
  <2>10. Cardinality(S) <= MaxEntries
    <3> HIDE DEF S, later
    <3> QED
      BY <1>1, <1>2, <2>6, <2>7, <2>8, <2>9
  <2> QED
    BY <2>10
<1> QED
  BY <1>3, <1>4

(***************************************************************************)
(* The steps of the transactions, one by one.                              *)
(***************************************************************************)

Written(x) ==
  /\ x.op = "put" /\ store' = Put(x.entry)
  /\ \/ /\ x.by \in poisoned /\ pruning' = pruning /\ Shifted({})
     \/ /\ pruning' = [pruning EXCEPT ![x.by] = @ + 1]
        /\ Shifted(IF pruning[x.by] = 0 THEN {List(x.by)} ELSE {})

\* A prune ends and the next one of the pruneQueue begins.
PruneEnds(x) ==
  /\ pruning' = [pruning EXCEPT ![x.by] = @ - 1]
  /\ Shifted(IF pruning[x.by] > 1 THEN {List(x.by)} ELSE {})

NothingToPrune(x) == x.op = "list" /\ Victims(x.by) = {} /\ store' = store /\ PruneEnds(x)

Deletion(x) == [op |-> "delete", by |-> x.by, names |-> Victims(x.by)]

VictimsFound(x) ==
  x.op = "list" /\ store' = store /\ pruning' = pruning /\ Shifted({Deletion(x)})

Deleted(x) == x.op = "delete" /\ store' = Without(x.names) /\ PruneEnds(x)

Cleanup(x) ==
  [op |-> "deleteAll", names |-> {e.name : e \in {f \in store : f.name[1] \notin Kept(x.keep)}}]

CleanupFound(x) ==
  x.op = "listAll" /\ store' = store /\ pruning' = pruning /\ Shifted({Cleanup(x)})

CleanedUp(x) ==
  x.op = "deleteAll" /\ store' = Without(x.names) /\ pruning' = pruning /\ Shifted({})

CommitsAs(x) ==
  /\ \/ Written(x) \/ NothingToPrune(x) \/ VictimsFound(x) \/ Deleted(x)
     \/ CleanupFound(x) \/ CleanedUp(x)
  /\ UNCHANGED <<buster, scope, opening, poisoned, writes, failures>>

FailsAs(x) ==
  /\ store' \subseteq store /\ failures' = failures + 1 /\ Shifted({})
  /\ \/ /\ x.op \in {"list", "delete"} /\ poisoned' = poisoned \cup {x.by}
        /\ pruning' = [pruning EXCEPT ![x.by] = 0]
     \/ x.op \notin {"list", "delete"} /\ UNCHANGED <<poisoned, pruning>>
  /\ UNCHANGED <<buster, scope, opening, writes>>

(***************************************************************************)
(* The inductive invariant.                                                *)
(***************************************************************************)

Types ==
  /\ buster \in [Tabs -> Busters]
  /\ scope \in [Tabs -> Scopes \cup {NoScope}]
  /\ store \subseteq Entry /\ IsFiniteSet(store)
  /\ queue \in Seq(Transaction)
  /\ opening \in [Tabs -> Seq(Scopes \cup {NoScope})]
  /\ pruning \in [Persisters -> Nat]
  /\ poisoned \subseteq Persisters
  /\ writes \in Nat /\ failures \in Nat

Puts(i) == i \in DOMAIN queue /\ queue[i].op = "put"

\* A name has one entry, a result one time, and a persister its own cache.
Apart ==
  /\ \A e, f \in store : e.name = f.name \/ e.updatedAt = f.updatedAt => e = f
  /\ \A e \in store : e.updatedAt <= writes
  /\ \A i \in DOMAIN queue : Puts(i) =>
       /\ queue[i].entry.updatedAt <= writes
       /\ queue[i].entry.name[1] = queue[i].by[2] /\ queue[i].entry.name[2] = queue[i].by[3]
       /\ \A e \in store : e.updatedAt # queue[i].entry.updatedAt
       /\ \A j \in DOMAIN queue : Puts(j) /\ j # i =>
            queue[j].entry.updatedAt # queue[i].entry.updatedAt

\* Somebody is in the session, or a cleanup that comes after the i-th transaction
\* will list its entries.
Watched(s, i) ==
  \/ \E t \in Tabs : scope[t] = s
  \/ \E t \in Tabs : \E k \in DOMAIN opening[t] : opening[t][k] # s
  \/ \E j \in DOMAIN queue : j > i /\ queue[j].op = "listAll" /\ queue[j].keep # s

\* A cleanup has listed the entry and will remove it.
Condemned(e) == \E j \in DOMAIN queue : queue[j].op = "deleteAll" /\ e.name \in queue[j].names

WatchedPut(i) == Puts(i) => Watched(queue[i].entry.name[1], i)

Cleaned ==
  /\ \A i \in DOMAIN queue : WatchedPut(i)
  /\ \A e \in store : Watched(e.name[1], 0) \/ Condemned(e)

Prunes(i, p) == i \in DOMAIN queue /\ queue[i].op \in {"list", "delete"} /\ queue[i].by = p

\* A persister has one transaction of a prune in the queue while it prunes.
RunsOf(p) ==
  /\ pruning[p] > 0 <=> \E i \in DOMAIN queue : Prunes(i, p)
  /\ \A i, j \in DOMAIN queue : Prunes(i, p) /\ Prunes(j, p) => i = j

PruneRuns == \A p \in Persisters : RunsOf(p)

\* The entries of a cache that are not among the names.
Left(s, c, names) == {e \in InCache(s, c) : e.name \notin names}

\* The prunes of p to come leave no more than maxEntries of its cache.
WillPrune(p) ==
  \/ pruning[p] > 1
  \/ \E i \in DOMAIN queue : queue[i].op = "list" /\ queue[i].by = p
  \/ \E i \in DOMAIN queue :
       /\ queue[i].op = "delete" /\ queue[i].by = p
       /\ Cardinality(Left(p[2], p[3], queue[i].names)) <= MaxEntries

\* The persister has stopped pruning, or it will prune its cache.
Answers(p) == p \in poisoned \/ WillPrune(p)

\* A cache over its limit has a persister that answers for it.
PrunedOf(s, c) ==
  \/ Cardinality(InCache(s, c)) <= MaxEntries
  \/ \E p \in Persisters : p[2] = s /\ p[3] = c /\ Answers(p)

Pruned == \A s \in Scopes, c \in Caches : PrunedOf(s, c)

IInv == Types /\ Apart /\ (failures = 0 => Cleaned) /\ PruneRuns /\ Pruned

-------------------------------------------------------------------------------

\* The fields of a transaction of every kind.
LEMMA Fields ==
  ASSUME NEW x \in Transaction
  PROVE  /\ x.op = "put" => x.by \in Persisters /\ x.entry \in Entry
         /\ x.op = "list" => x.by \in Persisters
         /\ x.op = "delete" => x.by \in Persisters /\ x.names \in SUBSET Names
         /\ x.op = "listAll" => x.keep \in Scopes \cup {NoScope}
         /\ x.op = "deleteAll" => x.names \in SUBSET Names
BY DEF Transaction

LEMMA VictimsAreNames == ASSUME Types, NEW p PROVE Victims(p) \in SUBSET Names
BY DEF Types, Victims, Entry

\* A result that is handed to a persister joins the queue, and so does a cleanup whose
\* database opens.
LEMMA SetItemJoins ==
  ASSUME Types, NEW t \in Tabs, NEW s \in Scopes, NEW c \in Caches, NEW k \in Keys,
         SetItem(t, s, c, k)
  PROVE  \E y \in Transaction :
           /\ Joined(y) /\ y.op = "put" /\ y.by[2] = s /\ y.by[3] = c
           /\ y.entry.name[1] = s /\ y.entry.name[2] = c /\ y.entry.updatedAt = writes + 1
<1>1. PICK r \in 0 .. MaxRevision :
        queue' = Append(queue, [op |-> "put", by |-> <<t, s, c>>,
          entry |-> [name |-> <<s, c, k>>, updatedAt |-> writes + 1,
                     buster |-> buster[t], revision |-> r]])
  BY DEF SetItem
<1> DEFINE y == [op |-> "put", by |-> <<t, s, c>>,
                 entry |-> [name |-> <<s, c, k>>, updatedAt |-> writes + 1,
                            buster |-> buster[t], revision |-> r]]
<1>2. writes + 1 \in 1 .. MaxWrites
  BY SessionCacheAssumption DEF SetItem, Types
<1>3. y \in Transaction
  BY <1>2 DEF Transaction, Entry, Names, Persisters, Types
<1>4. Joined(y)
  BY <1>1, <1>3, AppendJoins DEF Types
<1> QED
  BY <1>3, <1>4

LEMMA OpeningJoins ==
  ASSUME Types, NEW t \in Tabs, DatabaseOpens(t)
  PROVE  \E y \in Transaction : Joined(y) /\ y.op = "listAll" /\ y.keep = opening[t][1]
<1> DEFINE y == [op |-> "listAll", keep |-> Head(opening[t])]
<1>1. opening[t] \in Seq(Scopes \cup {NoScope}) /\ opening[t] # <<>>
  BY DEF DatabaseOpens, Types
<1>2. y \in Transaction /\ y.keep = opening[t][1]
  BY <1>1 DEF Transaction
<1>3. Joined(y)
  BY <1>2, AppendJoins DEF Types, DatabaseOpens
<1> QED
  BY <1>2, <1>3

LEMMA CommitCases ==
  ASSUME Types, Commit
  PROVE  1 \in DOMAIN queue /\ queue[1] \in Transaction /\ CommitsAs(queue[1])
<1> DEFINE x == queue[1]
<1>1. queue \in Seq(Transaction) /\ queue # <<>>
  BY DEF Types, Commit
<1>2. x = Head(queue) /\ 1 \in DOMAIN queue /\ x \in Transaction /\ Tail(queue) \in Seq(Transaction)
  BY <1>1
<1>3. Tail(queue) \o <<>> = Tail(queue)
      /\ \A y : Tail(queue) \o <<y>> = Append(Tail(queue), y)
  BY <1>2
<1>4. \A p \in Persisters : List(p) \in Transaction
  BY DEF List, Transaction
<1>5. ASSUME x.op = "put", store' = Put(x.entry),
             IF x.by \in poisoned
             THEN pruning' = pruning /\ queue' = Tail(queue)
             ELSE /\ pruning' = [pruning EXCEPT ![x.by] = @ + 1]
                  /\ queue' = Tail(queue) \o Join(x.by)
      PROVE  Written(x)
  <2>1. x.by \in Persisters
    BY <1>2, <1>5, Fields
  <2>2. CASE x.by \in poisoned
    BY <1>1, <1>5, <2>2, DropFirst DEF Written
  <2>3. CASE x.by \notin poisoned /\ pruning[x.by] = 0
    <3>1. queue' = Append(Tail(queue), List(x.by))
      BY <1>3, <1>5, <2>3 DEF Join
    <3>2. Shifted({List(x.by)})
      BY <1>1, <1>4, <2>1, <3>1, Replace
    <3> QED
      BY <1>5, <2>3, <3>2 DEF Written
  <2>4. CASE x.by \notin poisoned /\ pruning[x.by] # 0
    <3>1. queue' = Tail(queue)
      BY <1>3, <1>5, <2>4 DEF Join
    <3>2. Shifted({})
      BY <1>1, <3>1, DropFirst
    <3> QED
      BY <1>5, <2>4, <3>2 DEF Written
  <2> QED
    BY <2>2, <2>3, <2>4
<1>6. ASSUME x.by \in Persisters, pruning' = [pruning EXCEPT ![x.by] = @ - 1],
             queue' = Tail(queue) \o NextPrune(x.by)
      PROVE  PruneEnds(x)
  <2>1. CASE pruning[x.by] > 1
    <3>1. queue' = Append(Tail(queue), List(x.by))
      BY <1>3, <1>6, <2>1 DEF NextPrune
    <3>2. Shifted({List(x.by)})
      BY <1>1, <1>4, <1>6, <3>1, Replace
    <3> QED
      BY <1>6, <2>1, <3>2 DEF PruneEnds
  <2>2. CASE ~(pruning[x.by] > 1)
    <3>1. queue' = Tail(queue)
      BY <1>3, <1>6, <2>2 DEF NextPrune
    <3>2. Shifted({})
      BY <1>1, <3>1, DropFirst
    <3> QED
      BY <1>6, <2>2, <3>2 DEF PruneEnds
  <2> QED
    BY <2>1, <2>2
<1>7. ASSUME x.op = "list", queue' = Append(Tail(queue), Deletion(x))
      PROVE  Shifted({Deletion(x)})
  <2>1. Deletion(x) \in Transaction
    BY <1>2, <1>7, Fields, VictimsAreNames DEF Deletion, Transaction
  <2> QED
    BY <1>1, <1>7, <2>1, Replace
<1>8. ASSUME queue' = Append(Tail(queue), Cleanup(x))
      PROVE  Shifted({Cleanup(x)})
  <2>1. Cleanup(x) \in Transaction
    BY DEF Cleanup, Transaction, Types, Entry
  <2> QED
    BY <1>1, <1>8, <2>1, Replace
<1>9. ASSUME queue' = Tail(queue) PROVE Shifted({})
  BY <1>1, <1>9, DropFirst
<1>10. /\ x.op = "list" => x.by \in Persisters
       /\ x.op = "delete" => x.by \in Persisters
  BY <1>2, Fields
<1> HIDE DEF x
<1>11. UNCHANGED <<buster, scope, opening, poisoned, writes, failures>>
  BY DEF Commit
<1>12. \/ Written(x) \/ NothingToPrune(x) \/ VictimsFound(x) \/ Deleted(x)
       \/ CleanupFound(x) \/ CleanedUp(x)
  BY <1>2, <1>5, <1>6, <1>7, <1>8, <1>9, <1>10
     DEF Commit, NothingToPrune, VictimsFound, Deletion, Deleted, CleanupFound, Cleanup, CleanedUp
<1>13. CommitsAs(x)
  BY <1>11, <1>12 DEF CommitsAs
<1> QED
  BY <1>2, <1>13 DEF x

LEMMA FailCases ==
  ASSUME Types, Fail
  PROVE  1 \in DOMAIN queue /\ queue[1] \in Transaction /\ FailsAs(queue[1])
<1>1. queue \in Seq(Transaction) /\ queue # <<>> /\ queue' = Tail(queue)
  BY DEF Types, Fail
<1>2. queue[1] = Head(queue) /\ 1 \in DOMAIN queue /\ queue[1] \in Transaction
  BY <1>1
<1>3. Shifted({})
  BY <1>1, DropFirst
<1>4. store' \subseteq store
  BY DEF Fail, Without
<1> QED
  BY <1>2, <1>3, <1>4 DEF Fail, FailsAs

-------------------------------------------------------------------------------
(* Every part of the invariant is kept.                                    *)

LEMMA PutIsOneMore ==
  ASSUME NEW e
  PROVE  Put(e) \subseteq store \cup {e} /\ \A f \in Put(e) : f.name = e.name => f = e \/ Put(e) = store
BY DEF Put, Without

LEMMA TypesKept ==
  ASSUME Types, PruneRuns, [Next]_vars
  PROVE  Types'
<1>1. ASSUME NEW t \in Tabs, NEW s \in Scopes, NEW c \in Caches, NEW k \in Keys,
             SetItem(t, s, c, k)
      PROVE  Types'
  <2>1. queue' \in Seq(Transaction)
    BY <1>1, SetItemJoins DEF Joined
  <2>2. writes' \in Nat
    BY <1>1 DEF SetItem, Types
  <2> QED
    BY <1>1, <2>1, <2>2 DEF SetItem, Types
<1>2. ASSUME NEW t \in Tabs, NEW s \in Scopes \cup {NoScope}, SwitchScope(t, s) PROVE Types'
  BY <1>2 DEF SwitchScope, Types
<1>3. ASSUME NEW t \in Tabs, DatabaseOpens(t) PROVE Types'
  <2>1. queue' \in Seq(Transaction)
    BY <1>3, OpeningJoins DEF Joined
  <2>2. opening[t] \in Seq(Scopes \cup {NoScope}) /\ opening[t] # <<>>
    BY <1>3 DEF DatabaseOpens, Types
  <2>3. Tail(opening[t]) \in Seq(Scopes \cup {NoScope})
    BY <2>2
  <2> QED
    BY <1>3, <2>1, <2>3 DEF DatabaseOpens, Types
<1>4. CASE Commit
  <2> DEFINE x == queue[1]
  <2>1. 1 \in DOMAIN queue /\ x \in Transaction /\ CommitsAs(x)
    BY <1>4, CommitCases
  <2>2. /\ x.op \in {"put", "list", "delete"} => x.by \in Persisters
        /\ x.op = "put" => x.entry \in Entry
    BY <2>1, Fields
  <2>3. x.op \in {"list", "delete"} => pruning[x.by] > 0
    BY <2>1, <2>2 DEF PruneRuns, RunsOf, Prunes
  <2> HIDE DEF x
  <2>4. queue' \in Seq(Transaction)
    BY <2>1 DEF CommitsAs, Written, NothingToPrune, VictimsFound, Deleted, CleanupFound, CleanedUp,
                PruneEnds, Shifted
  <2>5. pruning' \in [Persisters -> Nat]
    <3>1. CASE Written(x)
      BY <2>2, <3>1 DEF Written, Types
    <3>2. CASE PruneEnds(x) /\ x.op \in {"list", "delete"}
      BY <2>2, <2>3, <3>2 DEF PruneEnds, Types
    <3>3. CASE pruning' = pruning
      BY <3>3 DEF Types
    <3> QED
      BY <2>1, <3>1, <3>2, <3>3
         DEF CommitsAs, NothingToPrune, VictimsFound, Deleted, CleanupFound, CleanedUp
  <2>6. store' \subseteq store \/ (x.op = "put" /\ store' \subseteq store \cup {x.entry})
    BY <2>1, PutIsOneMore
       DEF CommitsAs, Written, NothingToPrune, VictimsFound, Deleted, CleanupFound, CleanedUp, Without
  <2>7. store' \subseteq Entry /\ IsFiniteSet(store')
    <3>1. IsFiniteSet(store \cup {x.entry}) /\ IsFiniteSet(store)
      BY FS_AddElement DEF Types
    <3> QED
      BY <2>2, <2>6, <3>1, FS_Subset DEF Types
  <2> QED
    BY <2>1, <2>4, <2>5, <2>7 DEF CommitsAs, Types
<1>5. CASE Fail
  <2>1. queue[1] \in Transaction /\ FailsAs(queue[1])
    BY <1>5, FailCases
  <2>2. queue[1].op \in {"list", "delete"} => queue[1].by \in Persisters
    BY <2>1, Fields
  <2>3. store' \subseteq Entry /\ IsFiniteSet(store')
    BY <2>1, FS_Subset DEF FailsAs, Types
  <2>4. queue' \in Seq(Transaction)
    BY <2>1 DEF FailsAs, Shifted
  <2> QED
    BY <2>1, <2>2, <2>3, <2>4 DEF FailsAs, Types
<1>6. CASE UNCHANGED vars
  BY <1>6 DEF vars, Types
<1> QED
  BY <1>1, <1>2, <1>3, <1>4, <1>5, <1>6 DEF Next

\* What leaves the queue in front of the others keeps its results apart.
LEMMA ApartAfterFirst ==
  ASSUME Types, Apart, NEW new, Shifted(new), \A y \in new : y.op # "put", writes' = writes,
         1 \in DOMAIN queue,
         store' \subseteq store \/ (queue[1].op = "put" /\ store' = Put(queue[1].entry))
  PROVE  Apart'
<1> DEFINE e == queue[1].entry
<1>1. \A i \in DOMAIN queue' : Puts(i)' => i + 1 \in DOMAIN queue /\ Puts(i + 1) /\ queue'[i] = queue[i + 1]
  BY DEF Shifted, Puts
<1>2. \A i \in DOMAIN queue' : i \in Nat /\ i + 1 # 1
  BY DEF Shifted
<1>3. store' \subseteq store \/ (Puts(1) /\ store' \subseteq Without({e.name}) \cup {e})
  BY DEF Put, Puts
<1> HIDE DEF e
<1>4. Puts(1) => /\ e.updatedAt <= writes /\ \A f \in store : f.updatedAt # e.updatedAt
                 /\ \A i \in DOMAIN queue : Puts(i) /\ i # 1 => queue[i].entry.updatedAt # e.updatedAt
  BY DEF Apart, e
<1>5. \A f, g \in store' : f.name = g.name \/ f.updatedAt = g.updatedAt => f = g
  BY <1>3, <1>4 DEF Apart, Without
<1>6. \A f \in store' : f \in store \/ (f = e /\ Puts(1))
  BY <1>3 DEF Without
<1>7. \A f \in store' : f.updatedAt <= writes'
  BY <1>4, <1>6 DEF Apart
<1>8. ASSUME NEW i \in DOMAIN queue', Puts(i)'
      PROVE  /\ queue'[i].entry.updatedAt <= writes'
             /\ queue'[i].entry.name[1] = queue'[i].by[2]
             /\ queue'[i].entry.name[2] = queue'[i].by[3]
             /\ \A f \in store' : f.updatedAt # queue'[i].entry.updatedAt
             /\ \A j \in DOMAIN queue' : Puts(j)' /\ j # i =>
                  queue'[j].entry.updatedAt # queue'[i].entry.updatedAt
  <2>1. i + 1 \in DOMAIN queue /\ Puts(i + 1) /\ queue'[i] = queue[i + 1] /\ i + 1 # 1
    BY <1>1, <1>2, <1>8
  <2>2. \A f \in store' : f.updatedAt # queue'[i].entry.updatedAt
    BY <1>4, <1>6, <2>1 DEF Apart
  <2>3. ASSUME NEW j \in DOMAIN queue', Puts(j)', j # i
        PROVE  queue'[j].entry.updatedAt # queue'[i].entry.updatedAt
    <3>1. j + 1 \in DOMAIN queue /\ Puts(j + 1) /\ queue'[j] = queue[j + 1] /\ j + 1 # i + 1
      BY <1>1, <1>2, <2>3
    <3> QED
      BY <2>1, <3>1 DEF Apart
  <2> QED
    BY <2>1, <2>2, <2>3 DEF Apart
<1> QED
  BY <1>5, <1>7, <1>8 DEF Apart

LEMMA ApartKept ==
  ASSUME Types, Apart, [Next]_vars
  PROVE  Apart'
<1>1. ASSUME NEW t \in Tabs, NEW s \in Scopes, NEW c \in Caches, NEW k \in Keys,
             SetItem(t, s, c, k)
      PROVE  Apart'
  <2>1. PICK y : /\ Joined(y) /\ y.op = "put" /\ y.by[2] = s /\ y.by[3] = c
                 /\ y.entry.name[1] = s /\ y.entry.name[2] = c
                 /\ y.entry.updatedAt = writes + 1
    BY <1>1, SetItemJoins
  <2>2. store' = store /\ writes' = writes + 1 /\ writes \in Nat
    BY <1>1 DEF SetItem, Types
  <2>3. \A i \in DOMAIN queue : Puts(i) => queue[i].entry.updatedAt \in Nat
    BY Fields DEF Types, Puts, Entry
  <2>4. \A e \in store : e.updatedAt \in Nat
    BY DEF Types, Entry
  <2>5. \A i \in DOMAIN queue' : Puts(i)' =>
          \/ i \in DOMAIN queue /\ Puts(i) /\ queue'[i] = queue[i]
          \/ i = Len(queue) + 1 /\ queue'[i] = y
    BY <2>1 DEF Joined, Puts
  <2> QED
    BY <2>1, <2>2, <2>3, <2>4, <2>5 DEF Apart
<1>2. ASSUME NEW t \in Tabs, NEW s \in Scopes \cup {NoScope}, SwitchScope(t, s) PROVE Apart'
  BY <1>2 DEF SwitchScope, Apart, Puts
<1>3. ASSUME NEW t \in Tabs, DatabaseOpens(t) PROVE Apart'
  <2>1. PICK y : Joined(y) /\ y.op = "listAll"
    BY <1>3, OpeningJoins
  <2>2. \A i \in DOMAIN queue' : Puts(i)' => i \in DOMAIN queue /\ Puts(i) /\ queue'[i] = queue[i]
    BY <2>1 DEF Joined, Puts
  <2>3. store' = store /\ writes' = writes
    BY <1>3 DEF DatabaseOpens
  <2> QED
    BY <2>2, <2>3 DEF Apart
<1>4. CASE Commit
  <2> DEFINE x == queue[1]
  <2>1. 1 \in DOMAIN queue /\ CommitsAs(x)
    BY <1>4, CommitCases
  <2>2. \/ Shifted({}) \/ Shifted({List(x.by)}) \/ Shifted({Deletion(x)}) \/ Shifted({Cleanup(x)})
    BY <2>1 DEF CommitsAs, Written, NothingToPrune, VictimsFound, Deleted, CleanupFound, CleanedUp,
                PruneEnds
  <2>3. List(x.by).op # "put" /\ Deletion(x).op # "put" /\ Cleanup(x).op # "put"
    BY DEF List, Deletion, Cleanup
  <2>4. store' \subseteq store \/ (x.op = "put" /\ store' = Put(x.entry))
    BY <2>1 DEF CommitsAs, Written, NothingToPrune, VictimsFound, Deleted, CleanupFound, CleanedUp,
                Without
  <2>5. writes' = writes
    BY <2>1 DEF CommitsAs
  <2> QED
    BY <2>1, <2>2, <2>3, <2>4, <2>5, ApartAfterFirst
<1>5. CASE Fail
  <2>1. 1 \in DOMAIN queue /\ FailsAs(queue[1])
    BY <1>5, FailCases
  <2>2. Shifted({}) /\ store' \subseteq store /\ writes' = writes
    BY <2>1 DEF FailsAs
  <2> QED
    BY <2>1, <2>2, ApartAfterFirst
<1>6. CASE UNCHANGED vars
  BY <1>6 DEF vars, Apart, Puts
<1> QED
  BY <1>1, <1>2, <1>3, <1>4, <1>5, <1>6 DEF Next

-------------------------------------------------------------------------------

\* A transaction that leaves the queue takes no other out of its place.
LEMMA WatchedAfterFirst ==
  ASSUME Types, NEW new, Shifted(new), scope' = scope, opening' = opening,
         NEW s, NEW i \in Nat, Watched(s, i + 1)
  PROVE  Watched(s, i)'
<1>1. ASSUME NEW j \in DOMAIN queue, j > i + 1, queue[j].op = "listAll", queue[j].keep # s
      PROVE  Watched(s, i)'
  <2>1. j \in Nat /\ j # 1 /\ j - 1 > i
    BY <1>1 DEF Types
  <2>2. j - 1 \in DOMAIN queue' /\ queue'[j - 1] = queue[j]
    BY <2>1 DEF Shifted
  <2> QED
    BY <1>1, <2>1, <2>2 DEF Watched
<1> QED
  BY <1>1 DEF Watched

LEMMA CleanedAfterFirst ==
  ASSUME Types, Cleaned, NEW new, Shifted(new), \A y \in new : y.op # "put",
         scope' = scope, opening' = opening, 1 \in DOMAIN queue,
         store' \subseteq store \/ (Puts(1) /\ store' \subseteq store \cup {queue[1].entry}),
         queue[1].op = "listAll" => new = {Cleanup(queue[1])},
         queue[1].op = "deleteAll" => store' \subseteq Without(queue[1].names)
  PROVE  Cleaned'
<1>1. ASSUME NEW i \in DOMAIN queue', Puts(i)' PROVE WatchedPut(i)'
  <2>1. i + 1 \in DOMAIN queue /\ Puts(i + 1) /\ queue'[i] = queue[i + 1] /\ i \in Nat
    BY <1>1 DEF Shifted, Puts
  <2>2. PICK s : s = queue[i + 1].entry.name[1] /\ Watched(s, i + 1)
    BY <2>1 DEF Cleaned, WatchedPut
  <2>3. Watched(s, i)'
    BY <2>1, <2>2, WatchedAfterFirst
  <2>4. s = queue'[i].entry.name[1]
    BY <2>1, <2>2
  <2> QED
    BY <2>3, <2>4 DEF WatchedPut, Watched
<1>2. ASSUME NEW e \in store' PROVE Watched(e.name[1], 0)' \/ Condemned(e)'
  <2>1. CASE Puts(1) /\ e = queue[1].entry
    <3>1. Watched(e.name[1], 0 + 1)
      BY <2>1 DEF Cleaned, WatchedPut
    <3> QED
      BY <3>1, WatchedAfterFirst
  <2>2. CASE e \in store /\ Condemned(e)
    <3>1. PICK j \in DOMAIN queue : queue[j].op = "deleteAll" /\ e.name \in queue[j].names
      BY <2>2 DEF Condemned
    <3>2. j # 1
      BY <1>2, <3>1 DEF Without
    <3>3. j - 1 \in DOMAIN queue' /\ queue'[j - 1] = queue[j]
      BY <3>2 DEF Shifted
    <3> QED
      BY <3>1, <3>3 DEF Condemned
  <2>3. CASE e \in store /\ Watched(e.name[1], 0)
    <3>1. CASE \E j \in DOMAIN queue : j > 0 /\ queue[j].op = "listAll" /\ queue[j].keep # e.name[1]
      <4>1. PICK j \in DOMAIN queue : queue[j].op = "listAll" /\ queue[j].keep # e.name[1]
        BY <3>1
      <4>2. CASE j = 1
        <5>1. e.name \in Cleanup(queue[1]).names /\ Cleanup(queue[1]).op = "deleteAll"
          BY <2>3, <4>1, <4>2 DEF Cleanup, Kept
        <5>2. Len(queue) \in DOMAIN queue' /\ queue'[Len(queue)] = Cleanup(queue[1])
          BY <4>1, <4>2 DEF Shifted
        <5> QED
          BY <5>1, <5>2 DEF Condemned
      <4>3. CASE j # 1
        <5>1. j \in Nat /\ j > 0 + 1
          BY <4>3 DEF Types
        <5>2. Watched(e.name[1], 0 + 1)
          BY <4>1, <5>1 DEF Watched
        <5> QED
          BY <5>2, WatchedAfterFirst
      <4> QED
        BY <4>2, <4>3
    <3>2. CASE \/ \E t \in Tabs : scope[t] = e.name[1]
               \/ \E t \in Tabs : \E k \in DOMAIN opening[t] : opening[t][k] # e.name[1]
      BY <3>2 DEF Watched
    <3> QED
      BY <2>3, <3>1, <3>2 DEF Watched
  <2> QED
    BY <1>2, <2>1, <2>2, <2>3 DEF Cleaned, WatchedPut
<1> QED
  BY <1>1, <1>2 DEF Cleaned, WatchedPut

\* Nothing of the queue moves, and what was watched is still.
LEMMA CleanedInPlace ==
  ASSUME Cleaned, store' = store,
         \A i \in DOMAIN queue : i \in DOMAIN queue' /\ queue'[i] = queue[i],
         \A i \in DOMAIN queue' : Puts(i)' => Puts(i) \/ WatchedPut(i)',
         \A s, i : Watched(s, i) => Watched(s, i)'
  PROVE  Cleaned'
<1>1. ASSUME NEW i \in DOMAIN queue', Puts(i)' PROVE WatchedPut(i)'
  <2>1. CASE Puts(i)
    <3>1. PICK s : s = queue[i].entry.name[1] /\ Watched(s, i)
      BY <2>1 DEF Cleaned, WatchedPut, Puts
    <3>2. s = queue'[i].entry.name[1]
      BY <2>1, <3>1 DEF Puts
    <3>3. Watched(s, i)'
      BY <3>1
    <3> QED
      BY <3>2, <3>3 DEF WatchedPut, Watched
  <2> QED
    BY <1>1, <2>1
<1>2. \A e \in store : Condemned(e) => Condemned(e)'
  BY DEF Condemned
<1> QED
  BY <1>1, <1>2 DEF Cleaned, WatchedPut

LEMMA CleanedKept ==
  ASSUME Types, Cleaned, failures' = 0, [Next]_vars
  PROVE  Cleaned'
<1>0. \A i \in DOMAIN queue : i \in Nat /\ i <= Len(queue) /\ i > 0
  BY DEF Types
<1>1. ASSUME NEW t \in Tabs, NEW s \in Scopes, NEW c \in Caches, NEW k \in Keys,
             SetItem(t, s, c, k)
      PROVE  Cleaned'
  <2>1. PICK y : Joined(y) /\ y.op = "put" /\ y.entry.name[1] = s
    BY <1>1, SetItemJoins
  <2>4. store' = store /\ scope' = scope /\ opening' = opening /\ scope[t] = s
    BY <1>1 DEF SetItem, MayWrite
  <2>5. \A z, i : Watched(z, i) => Watched(z, i)'
    BY <2>1, <2>4 DEF Watched, Joined
  <2>6. \A i : Watched(s, i)'
    BY <2>4 DEF Watched
  <2>7. ASSUME NEW i \in DOMAIN queue', Puts(i)' PROVE Puts(i) \/ WatchedPut(i)'
    <3>1. Puts(i) \/ queue'[i] = y
      BY <2>1, <2>7 DEF Joined, Puts
    <3>2. CASE queue'[i] = y
      BY <2>1, <2>6, <3>2 DEF WatchedPut, Watched
    <3> QED
      BY <3>1, <3>2
  <2>8. \A i \in DOMAIN queue : i \in DOMAIN queue' /\ queue'[i] = queue[i]
    BY <2>1 DEF Joined
  <2> QED
    BY <2>4, <2>5, <2>7, <2>8, CleanedInPlace
<1>2. ASSUME NEW t \in Tabs, NEW s \in Scopes \cup {NoScope}, SwitchScope(t, s) PROVE Cleaned'
  <2>1. opening[t] \in Seq(Scopes \cup {NoScope}) /\ opening'[t] = Append(opening[t], s)
    BY <1>2 DEF SwitchScope, Types
  <2>2. /\ Len(opening[t]) + 1 \in DOMAIN opening'[t] /\ opening'[t][Len(opening[t]) + 1] = s
        /\ \A k \in DOMAIN opening[t] : k \in DOMAIN opening'[t] /\ opening'[t][k] = opening[t][k]
    BY <2>1
  <2>3. \A u \in Tabs : u # t => opening'[u] = opening[u] /\ scope'[u] = scope[u]
    BY <1>2 DEF SwitchScope, Types
  <2>4. store' = store /\ queue' = queue /\ scope'[t] = s
    BY <1>2 DEF SwitchScope, Types
  <2>5. ASSUME NEW r, NEW i, Watched(r, i) PROVE Watched(r, i)'
    <3>1. ASSUME NEW u \in Tabs, scope[u] = r PROVE Watched(r, i)'
      <4>1. CASE u # t
        BY <2>3, <3>1, <4>1 DEF Watched
      <4>2. CASE s = r
        BY <2>4, <4>2 DEF Watched
      <4>3. CASE s # r
        BY <2>2, <4>3 DEF Watched
      <4> QED
        BY <4>1, <4>2, <4>3
    <3>2. ASSUME NEW u \in Tabs, NEW k \in DOMAIN opening[u], opening[u][k] # r
          PROVE  Watched(r, i)'
      <4>1. k \in DOMAIN opening'[u] /\ opening'[u][k] # r
        BY <2>2, <2>3, <3>2
      <4> QED
        BY <4>1 DEF Watched
    <3> QED
      BY <2>4, <2>5, <3>1, <3>2 DEF Watched
  <2> QED
    BY <2>4, <2>5, CleanedInPlace DEF Puts
<1>3. ASSUME NEW t \in Tabs, DatabaseOpens(t) PROVE Cleaned'
  <2>1. /\ opening[t] \in Seq(Scopes \cup {NoScope}) /\ opening[t] # <<>>
        /\ opening'[t] = Tail(opening[t])
    BY <1>3 DEF DatabaseOpens, Types
  <2>2. PICK y : Joined(y) /\ y.op = "listAll" /\ y.keep = opening[t][1]
    BY <1>3, OpeningJoins
  <2>4. store' = store /\ scope' = scope /\ \A u \in Tabs : u # t => opening'[u] = opening[u]
    BY <1>3 DEF DatabaseOpens, Types
  <2>5. \A k \in DOMAIN opening[t] :
          k = 1 \/ (k - 1 \in DOMAIN opening'[t] /\ opening'[t][k - 1] = opening[t][k])
    BY <2>1
  <2>7. ASSUME NEW r, NEW i \in Nat, i <= Len(queue), Watched(r, i) PROVE Watched(r, i)'
    <3>1. ASSUME NEW u \in Tabs, NEW k \in DOMAIN opening[u], opening[u][k] # r
          PROVE  Watched(r, i)'
      <4>1. CASE u # t
        BY <2>4, <3>1, <4>1 DEF Watched
      <4>2. CASE u = t /\ k = 1
        <5>1. /\ Len(queue) + 1 \in DOMAIN queue' /\ queue'[Len(queue) + 1] = y
              /\ Len(queue) + 1 > i
          BY <2>2, <2>7 DEF Joined, Types
        <5> QED
          BY <2>2, <3>1, <4>2, <5>1 DEF Watched
      <4>3. CASE u = t /\ k # 1
        BY <2>5, <3>1, <4>3 DEF Watched
      <4> QED
        BY <4>1, <4>2, <4>3
    <3>2. CASE \E j \in DOMAIN queue : j > i /\ queue[j].op = "listAll" /\ queue[j].keep # r
      BY <2>2, <3>2 DEF Watched, Joined
    <3> QED
      BY <2>4, <2>7, <3>1, <3>2 DEF Watched
  <2>8. \A i \in DOMAIN queue' : Puts(i)' => Puts(i) /\ queue'[i] = queue[i]
    BY <2>2 DEF Joined, Puts
  <2>9. ASSUME NEW i \in DOMAIN queue', Puts(i)' PROVE WatchedPut(i)'
    <3>1. Puts(i) /\ queue'[i] = queue[i]
      BY <2>8, <2>9
    <3>2. PICK s : s = queue[i].entry.name[1] /\ Watched(s, i) /\ i \in Nat /\ i <= Len(queue)
      BY <1>0, <3>1 DEF Cleaned, WatchedPut, Puts
    <3>3. Watched(s, i)'
      BY <2>7, <3>2
    <3>4. s = queue'[i].entry.name[1]
      BY <3>1, <3>2
    <3> QED
      BY <3>3, <3>4 DEF WatchedPut, Watched
  <2>10. \A e \in store : Watched(e.name[1], 0) => Watched(e.name[1], 0)'
    BY <2>7 DEF Types
  <2>11. \A e \in store : Condemned(e) => Condemned(e)'
    BY <2>2 DEF Condemned, Joined
  <2> QED
    BY <2>4, <2>9, <2>10, <2>11 DEF Cleaned, WatchedPut
<1>4. CASE Commit
  <2> DEFINE x == queue[1]
  <2>1. 1 \in DOMAIN queue /\ CommitsAs(x)
    BY <1>4, CommitCases
  <2>2. PICK new : /\ Shifted(new) /\ \A y \in new : y.op # "put"
                   /\ x.op = "listAll" => new = {Cleanup(x)}
    <3>1. List(x.by).op # "put" /\ Deletion(x).op # "put" /\ Cleanup(x).op # "put"
      BY DEF List, Deletion, Cleanup
    <3>2. CASE CleanupFound(x)
      BY <3>1, <3>2 DEF CleanupFound
    <3>3. CASE x.op # "listAll"
      <4>1. Shifted({}) \/ Shifted({List(x.by)}) \/ Shifted({Deletion(x)})
        BY <2>1, <3>3 DEF CommitsAs, Written, NothingToPrune, VictimsFound, Deleted, CleanupFound,
                          CleanedUp, PruneEnds
      <4> QED
        BY <3>1, <3>3, <4>1
    <3> QED
      BY <2>1, <3>2, <3>3 DEF CommitsAs, Written, NothingToPrune, VictimsFound, Deleted, CleanedUp
  <2>3. store' \subseteq store \/ (Puts(1) /\ store' \subseteq store \cup {x.entry})
    BY <2>1, PutIsOneMore
       DEF CommitsAs, Written, NothingToPrune, VictimsFound, Deleted, CleanupFound, CleanedUp,
           Without, Puts
  <2>4. x.op = "deleteAll" => store' \subseteq Without(x.names)
    BY <2>1 DEF CommitsAs, Written, NothingToPrune, VictimsFound, Deleted, CleanupFound, CleanedUp
  <2>5. scope' = scope /\ opening' = opening
    BY <2>1 DEF CommitsAs
  <2> QED
    BY <2>1, <2>2, <2>3, <2>4, <2>5, CleanedAfterFirst
<1>5. CASE Fail
  <2>1. FALSE
    BY <1>5 DEF Fail, Types
  <2> QED
    BY <2>1
<1>6. CASE UNCHANGED vars
  BY <1>6 DEF vars, Cleaned, WatchedPut, Puts, Watched, Condemned
<1> QED
  BY <1>1, <1>2, <1>3, <1>4, <1>5, <1>6 DEF Next

-------------------------------------------------------------------------------

\* A persister that the step does not touch keeps its transaction.
LEMMA RunsAfterFirst ==
  ASSUME Types, NEW new, Shifted(new), NEW p \in Persisters, 1 \in DOMAIN queue,
         pruning'[p] = pruning[p], ~Prunes(1, p),
         \A y \in new : y.op \in {"list", "delete"} => y.by # p,
         pruning[p] > 0 <=> \E i \in DOMAIN queue : Prunes(i, p),
         \A i, j \in DOMAIN queue : Prunes(i, p) /\ Prunes(j, p) => i = j
  PROVE  /\ pruning'[p] > 0 <=> \E i \in DOMAIN queue' : Prunes(i, p)'
         /\ \A i, j \in DOMAIN queue' : Prunes(i, p)' /\ Prunes(j, p)' => i = j
<1>1. \A i \in DOMAIN queue' : Prunes(i, p)' => i + 1 \in DOMAIN queue /\ Prunes(i + 1, p)
  BY DEF Shifted, Prunes
<1>2. \A i \in DOMAIN queue : Prunes(i, p) => i - 1 \in DOMAIN queue' /\ Prunes(i - 1, p)'
  BY DEF Shifted, Prunes
<1>3. \A i \in DOMAIN queue' : i \in Nat
  BY DEF Shifted
<1>4. \A i, j \in DOMAIN queue' : Prunes(i, p)' /\ Prunes(j, p)' => i = j
  BY <1>1, <1>3
<1> QED
  BY <1>1, <1>2, <1>4

\* The persister of the first transaction has another one afterwards, or none.
LEMMA RunsOn ==
  ASSUME Types, NEW new, Shifted(new), NEW p \in Persisters, 1 \in DOMAIN queue,
         \A i \in DOMAIN queue : Prunes(i, p) => i = 1,
         \A y \in new : y.op \in {"list", "delete"} /\ y.by = p,
         pruning'[p] > 0 <=> new # {}
  PROVE  /\ pruning'[p] > 0 <=> \E i \in DOMAIN queue' : Prunes(i, p)'
         /\ \A i, j \in DOMAIN queue' : Prunes(i, p)' /\ Prunes(j, p)' => i = j
<1>1. \A i \in DOMAIN queue' : i \in Nat /\ i + 1 # 1
  BY DEF Shifted
<1>2. \A i \in DOMAIN queue' : Prunes(i, p)' => i = Len(queue) /\ queue'[i] \in new
  BY <1>1 DEF Shifted, Prunes
<1>3. \A y \in new : Prunes(Len(queue), p)' /\ Len(queue) \in DOMAIN queue'
  BY DEF Shifted, Prunes
<1> QED
  BY <1>2, <1>3

LEMMA PruneRunsKept ==
  ASSUME Types, PruneRuns, [Next]_vars
  PROVE  PruneRuns'
<1> SUFFICES ASSUME NEW p \in Persisters PROVE RunsOf(p)'
  BY DEF PruneRuns, RunsOf
<1>0. RunsOf(p) /\ pruning[p] \in Nat
  BY DEF PruneRuns, RunsOf, Types
<1>1. ASSUME NEW y, y.op \notin {"list", "delete"}, Joined(y), pruning' = pruning
      PROVE  RunsOf(p)'
  <2>1. \A i : Prunes(i, p)' <=> Prunes(i, p)
    BY <1>1 DEF Joined, Prunes
  <2>2. \A i : Prunes(i, p) => i \in DOMAIN queue /\ i \in DOMAIN queue'
    BY <1>1 DEF Joined, Prunes
  <2>3. \A i \in DOMAIN queue' : Prunes(i, p)' => i \in DOMAIN queue
    BY <2>1, <2>2
  <2> QED
    BY <1>0, <1>1, <2>1, <2>2, <2>3 DEF RunsOf
<1>2. ASSUME NEW t \in Tabs, NEW s \in Scopes, NEW c \in Caches, NEW k \in Keys,
             SetItem(t, s, c, k)
      PROVE  RunsOf(p)'
  <2>1. PICK y : Joined(y) /\ y.op = "put"
    BY <1>2, SetItemJoins
  <2>2. pruning' = pruning
    BY <1>2 DEF SetItem
  <2> QED
    BY <2>1, <2>2, <1>1
<1>3. ASSUME NEW t \in Tabs, DatabaseOpens(t) PROVE RunsOf(p)'
  <2>1. PICK y : Joined(y) /\ y.op = "listAll"
    BY <1>3, OpeningJoins
  <2>2. pruning' = pruning
    BY <1>3 DEF DatabaseOpens
  <2> QED
    BY <2>1, <2>2, <1>1
<1>4. CASE Commit
  <2> DEFINE x == queue[1]
  <2>1. 1 \in DOMAIN queue /\ x \in Transaction /\ CommitsAs(x)
    BY <1>4, CommitCases
  <2>2. x.op \in {"put", "list", "delete"} => x.by \in Persisters
    BY <2>1, Fields
  <2>3. Prunes(1, p) <=> x.op \in {"list", "delete"} /\ x.by = p
    BY <2>1 DEF Prunes
  <2>4. Prunes(1, p) => pruning[p] > 0 /\ \A i \in DOMAIN queue : Prunes(i, p) => i = 1
    BY <1>0, <2>1 DEF RunsOf
  <2>5. \A q : List(q).op = "list" /\ List(q).by = q
    BY DEF List
  <2>6. /\ Deletion(x).op = "delete" /\ Deletion(x).by = x.by
        /\ Cleanup(x).op = "deleteAll"
    BY DEF Deletion, Cleanup
  <2> HIDE DEF x
  <2>7. CASE Written(x)
    <3>1. ~Prunes(1, p)
      BY <2>3, <2>7 DEF Written
    <3>2. CASE x.by = p /\ pruning[p] = 0 /\ Shifted({List(p)}) /\ pruning'[p] = 1
      <4>1. \A i \in DOMAIN queue : Prunes(i, p) => i = 1
        BY <1>0, <3>2 DEF RunsOf
      <4> QED
        BY <2>1, <2>5, <3>2, <4>1, RunsOn DEF RunsOf
    <3>3. CASE x.by = p /\ pruning[p] # 0 /\ Shifted({}) /\ pruning'[p] = pruning[p] + 1
      <4>1. \A i \in DOMAIN queue' : Prunes(i, p)' => i + 1 \in DOMAIN queue /\ Prunes(i + 1, p)
        BY <3>3 DEF Shifted, Prunes
      <4>2. \A i \in DOMAIN queue : Prunes(i, p) => i - 1 \in DOMAIN queue' /\ Prunes(i - 1, p)'
        BY <3>1, <3>3 DEF Shifted, Prunes
      <4>3. \A i \in DOMAIN queue' : i \in Nat
        BY <3>3 DEF Shifted
      <4>4. \A i, j \in DOMAIN queue' : Prunes(i, p)' /\ Prunes(j, p)' => i = j
        BY <1>0, <4>1, <4>3 DEF RunsOf
      <4> QED
        BY <1>0, <3>3, <4>2, <4>4 DEF RunsOf
    <3>4. CASE pruning'[p] = pruning[p]
               /\ (Shifted({}) \/ (x.by # p /\ Shifted({List(x.by)})))
      BY <1>0, <2>1, <2>5, <3>1, <3>4, RunsAfterFirst DEF RunsOf
    <3>5. CASE x.by = p
      BY <1>0, <2>2, <2>7, <3>2, <3>3, <3>4, <3>5 DEF Written, Types
    <3>6. CASE x.by # p
      <4>1. pruning'[p] = pruning[p]
        BY <2>2, <2>7, <3>6 DEF Written, Types
      <4>2. Shifted({}) \/ Shifted({List(x.by)})
        BY <2>7 DEF Written
      <4> QED
        BY <3>4, <3>6, <4>1, <4>2
    <3> QED
      BY <3>5, <3>6
  <2>8. CASE PruneEnds(x) /\ x.op \in {"list", "delete"}
    <3>1. CASE x.by = p
      <4>1. pruning[p] > 0 /\ \A i \in DOMAIN queue : Prunes(i, p) => i = 1
        BY <2>3, <2>4, <2>8, <3>1
      <4>2. pruning'[p] = pruning[p] - 1
        BY <2>8, <3>1 DEF PruneEnds, Types
      <4>3. CASE pruning[p] > 1
        <5>1. Shifted({List(p)})
          BY <2>8, <3>1, <4>3 DEF PruneEnds
        <5>2. pruning'[p] > 0
          BY <1>0, <4>2, <4>3
        <5> QED
          BY <2>1, <2>5, <4>1, <5>1, <5>2, RunsOn DEF RunsOf
      <4>4. CASE ~(pruning[p] > 1)
        <5>1. Shifted({})
          BY <2>8, <3>1, <4>4 DEF PruneEnds
        <5>2. ~(pruning'[p] > 0)
          BY <1>0, <4>1, <4>2, <4>4
        <5> QED
          BY <2>1, <4>1, <5>1, <5>2, RunsOn DEF RunsOf
      <4> QED
        BY <4>3, <4>4
    <3>2. CASE x.by # p
      <4>1. pruning'[p] = pruning[p] /\ ~Prunes(1, p)
        BY <2>3, <2>8, <3>2 DEF PruneEnds, Types
      <4>2. Shifted({}) \/ Shifted({List(x.by)})
        BY <2>8 DEF PruneEnds
      <4> QED
        BY <1>0, <2>1, <2>5, <3>2, <4>1, <4>2, RunsAfterFirst DEF RunsOf
    <3> QED
      BY <3>1, <3>2
  <2>9. CASE VictimsFound(x)
    <3>1. CASE x.by = p
      <4>1. pruning'[p] > 0 /\ \A i \in DOMAIN queue : Prunes(i, p) => i = 1
        BY <2>3, <2>4, <2>9, <3>1 DEF VictimsFound
      <4> QED
        BY <2>1, <2>6, <2>9, <3>1, <4>1, RunsOn DEF VictimsFound, RunsOf
    <3>2. CASE x.by # p
      <4>1. pruning'[p] = pruning[p] /\ ~Prunes(1, p)
        BY <2>3, <2>9, <3>2 DEF VictimsFound
      <4> QED
        BY <1>0, <2>1, <2>6, <2>9, <3>2, <4>1, RunsAfterFirst DEF VictimsFound, RunsOf
    <3> QED
      BY <3>1, <3>2
  <2>10. CASE CleanupFound(x) \/ CleanedUp(x)
    <3>1. pruning'[p] = pruning[p] /\ ~Prunes(1, p)
      BY <2>3, <2>10 DEF CleanupFound, CleanedUp
    <3>2. Shifted({}) \/ Shifted({Cleanup(x)})
      BY <2>10 DEF CleanupFound, CleanedUp
    <3> QED
      BY <1>0, <2>1, <2>6, <3>1, <3>2, RunsAfterFirst DEF RunsOf
  <2> QED
    BY <2>1, <2>7, <2>8, <2>9, <2>10 DEF CommitsAs, NothingToPrune, Deleted
<1>5. CASE Fail
  <2>1. 1 \in DOMAIN queue /\ queue[1] \in Transaction /\ FailsAs(queue[1])
    BY <1>5, FailCases
  <2>2. Shifted({})
    BY <2>1 DEF FailsAs
  <2>3. CASE Prunes(1, p)
    <3>1. pruning'[p] = 0 /\ \A i \in DOMAIN queue : Prunes(i, p) => i = 1
      BY <1>0, <2>1, <2>3 DEF FailsAs, Prunes, Types, RunsOf
    <3> QED
      BY <2>1, <2>2, <3>1, RunsOn DEF RunsOf
  <2>4. CASE ~Prunes(1, p)
    <3>1. pruning'[p] = pruning[p]
      BY <2>1, <2>4 DEF FailsAs, Prunes, Types
    <3> QED
      BY <1>0, <2>1, <2>2, <2>4, <3>1, RunsAfterFirst DEF RunsOf
  <2> QED
    BY <2>3, <2>4
<1>6. ASSUME NEW t \in Tabs, NEW s \in Scopes \cup {NoScope}, SwitchScope(t, s) PROVE RunsOf(p)'
  BY <1>0, <1>6 DEF SwitchScope, RunsOf, Prunes
<1>7. CASE UNCHANGED vars
  BY <1>0, <1>7 DEF vars, RunsOf, Prunes
<1> QED
  BY <1>2, <1>3, <1>4, <1>5, <1>6, <1>7 DEF Next

-------------------------------------------------------------------------------

\* What the prunes of p to come promise outlasts a step that leaves their transactions
\* and adds nothing to the cache.
LEMMA WillPruneLasts ==
  ASSUME Types, NEW p \in Persisters, pruning'[p] = pruning[p],
         \A i \in DOMAIN queue : Prunes(i, p) =>
           \E j \in DOMAIN queue' : queue'[j] = queue[i],
         InCache(p[2], p[3])' \subseteq InCache(p[2], p[3]),
         WillPrune(p)
  PROVE  WillPrune(p)'
<1>1. CASE pruning[p] > 1
  BY <1>1 DEF WillPrune
<1>2. ASSUME NEW i \in DOMAIN queue, queue[i].op = "list", queue[i].by = p
      PROVE  WillPrune(p)'
  <2>1. PICK j \in DOMAIN queue' : queue'[j] = queue[i]
    BY <1>2 DEF Prunes
  <2> QED
    BY <1>2, <2>1 DEF WillPrune
<1>3. ASSUME NEW i \in DOMAIN queue, queue[i].op = "delete", queue[i].by = p,
             Cardinality(Left(p[2], p[3], queue[i].names)) <= MaxEntries
      PROVE  WillPrune(p)'
  <2>1. PICK j \in DOMAIN queue' : queue'[j] = queue[i]
    BY <1>3 DEF Prunes
  <2>2. PICK names : names = queue[i].names
    OBVIOUS
  <2>3. Left(p[2], p[3], names)' \subseteq Left(p[2], p[3], names)
    BY DEF Left
  <2>4. IsFiniteSet(Left(p[2], p[3], names))
    BY FS_Subset DEF Left, InCache, Types
  <2>5. Cardinality(Left(p[2], p[3], names)') <= Cardinality(Left(p[2], p[3], names))
    BY <2>3, <2>4, FS_Subset
  <2>6. Cardinality(Left(p[2], p[3], names)) \in Nat /\ Cardinality(Left(p[2], p[3], names)') \in Nat
        /\ MaxEntries \in Nat
    BY <2>3, <2>4, FS_Subset, FS_CardinalityType, SessionCacheAssumption
  <2>7. Cardinality(Left(p[2], p[3], names)') <= MaxEntries
    BY <1>3, <2>2, <2>5, <2>6
  <2>8. queue'[j].op = "delete" /\ queue'[j].by = p /\ queue'[j].names = names
    BY <1>3, <2>1, <2>2
  <2> QED
    BY <2>7, <2>8 DEF WillPrune
<1> QED
  BY <1>1, <1>2, <1>3 DEF WillPrune

\* A cache that gains nothing stays within its limit.
LEMMA SmallerStaysBounded ==
  ASSUME Types, NEW s, NEW c, InCache(s, c)' \subseteq InCache(s, c),
         Cardinality(InCache(s, c)) <= MaxEntries
  PROVE  Cardinality(InCache(s, c)') <= MaxEntries
<1>1. IsFiniteSet(InCache(s, c))
  BY FS_Subset DEF InCache, Types
<1>2. Cardinality(InCache(s, c)') <= Cardinality(InCache(s, c)) /\ IsFiniteSet(InCache(s, c)')
  BY <1>1, FS_Subset
<1> QED
  BY <1>1, <1>2, FS_CardinalityType, SessionCacheAssumption

\* A step that adds nothing to a cache, and leaves the persisters of the cache alone.
LEMMA PrunedStays ==
  ASSUME Types, NEW s, NEW c, PrunedOf(s, c), InCache(s, c)' \subseteq InCache(s, c),
         \A p \in Persisters : p[2] = s /\ p[3] = c =>
           \/ Answers(p)'
           \/ /\ p \in poisoned => p \in poisoned'
              /\ pruning'[p] = pruning[p]
              /\ \A i \in DOMAIN queue : Prunes(i, p) =>
                   \E j \in DOMAIN queue' : queue'[j] = queue[i]
  PROVE  PrunedOf(s, c)'
<1>1. CASE Cardinality(InCache(s, c)) <= MaxEntries
  BY <1>1, SmallerStaysBounded DEF PrunedOf
<1>2. ASSUME NEW p \in Persisters, p[2] = s, p[3] = c, Answers(p)
      PROVE  Answers(p)'
  <2>1. CASE p \in poisoned /\ p \in poisoned'
    BY <2>1 DEF Answers
  <2>2. CASE /\ WillPrune(p) /\ pruning'[p] = pruning[p]
             /\ \A i \in DOMAIN queue : Prunes(i, p) => \E j \in DOMAIN queue' : queue'[j] = queue[i]
    BY <1>2, <2>2, WillPruneLasts DEF Answers
  <2> QED
    BY <1>2, <2>1, <2>2 DEF Answers
<1> QED
  BY <1>1, <1>2 DEF PrunedOf

\* The entries of the cache of p are among those that its prune lists.
LEMMA PruneLists ==
  ASSUME Types, Apart, NEW p \in Persisters
  PROVE  /\ Victims(p) = {} => Cardinality(InCache(p[2], p[3])) <= MaxEntries
         /\ Cardinality(Left(p[2], p[3], Victims(p))) <= MaxEntries
<1> DEFINE listed == {e \in store : HasPrefix(e, p)}
           survivors == {e \in listed : Survives(e, listed)}
<1>1. IsFiniteSet(listed) /\ IsFiniteSet(survivors)
  BY FS_Subset DEF Types
<1>2. \A e \in listed : e.updatedAt \in Nat
  BY DEF Types, Entry
<1>3. \A e, f \in listed : e.updatedAt = f.updatedAt => e = f
  BY DEF Apart
<1>4. Cardinality(survivors) <= MaxEntries
  BY <1>1, <1>2, <1>3, SurvivorsAreFew
<1>5. InCache(p[2], p[3]) \subseteq listed
  BY DEF InCache, HasPrefix
<1>6. Left(p[2], p[3], Victims(p)) \subseteq survivors
  BY <1>5 DEF Left, Victims
<1>7. Victims(p) = {} => InCache(p[2], p[3]) \subseteq survivors
  BY <1>5 DEF Victims
<1> HIDE DEF survivors
<1>8. \A S \in SUBSET survivors : Cardinality(S) <= MaxEntries
  <2> SUFFICES ASSUME NEW S \in SUBSET survivors PROVE Cardinality(S) <= MaxEntries
    OBVIOUS
  <2>1. Cardinality(S) <= Cardinality(survivors) /\ IsFiniteSet(S)
    BY <1>1, FS_Subset
  <2> QED
    BY <1>1, <1>4, <2>1, FS_CardinalityType, SessionCacheAssumption
<1> QED
  BY <1>6, <1>7, <1>8

LEMMA PrunedKept ==
  ASSUME Types, Apart, PruneRuns, Pruned, [Next]_vars
  PROVE  Pruned'
<1> SUFFICES ASSUME NEW s \in Scopes, NEW c \in Caches PROVE PrunedOf(s, c)'
  BY DEF Pruned, PrunedOf, Answers
<1>0. PrunedOf(s, c)
  BY DEF Pruned, PrunedOf, Answers
<1>1. ASSUME NEW y, Joined(y), store' = store, pruning' = pruning, poisoned' = poisoned
      PROVE  PrunedOf(s, c)'
  <2>1. InCache(s, c)' = InCache(s, c)
    BY <1>1 DEF InCache
  <2>2. \A i \in DOMAIN queue : \E j \in DOMAIN queue' : queue'[j] = queue[i]
    BY <1>1 DEF Joined
  <2> QED
    BY <1>0, <1>1, <2>1, <2>2, PrunedStays
<1>2. ASSUME NEW t \in Tabs, NEW z \in Scopes, NEW d \in Caches, NEW k \in Keys,
             SetItem(t, z, d, k)
      PROVE  PrunedOf(s, c)'
  <2>1. PICK y : Joined(y) /\ y.op = "put"
    BY <1>2, SetItemJoins
  <2>2. store' = store /\ pruning' = pruning /\ poisoned' = poisoned
    BY <1>2 DEF SetItem
  <2> QED
    BY <2>1, <2>2, <1>1
<1>3. ASSUME NEW t \in Tabs, DatabaseOpens(t) PROVE PrunedOf(s, c)'
  <2>1. PICK y : Joined(y) /\ y.op = "listAll"
    BY <1>3, OpeningJoins
  <2>2. store' = store /\ pruning' = pruning /\ poisoned' = poisoned
    BY <1>3 DEF DatabaseOpens
  <2> QED
    BY <2>1, <2>2, <1>1
<1>4. ASSUME NEW new, Shifted(new), 1 \in DOMAIN queue, NEW p \in Persisters, ~Prunes(1, p)
      PROVE  \A i \in DOMAIN queue : Prunes(i, p) =>
               \E j \in DOMAIN queue' : queue'[j] = queue[i]
  BY <1>4 DEF Shifted
\* The first transaction is of a persister that pruned until now.
<1>5. ASSUME NEW x, x = queue[1], 1 \in DOMAIN queue, x.op \in {"list", "delete"},
             x.by \in Persisters
      PROVE  /\ Prunes(1, x.by) /\ pruning[x.by] > 0
             /\ \A i \in DOMAIN queue : Prunes(i, x.by) => i = 1
             /\ \A p \in Persisters : p # x.by => ~Prunes(1, p)
  BY <1>5 DEF Prunes, PruneRuns, RunsOf
<1>6. CASE Commit
  <2> DEFINE x == queue[1]
  <2>1. 1 \in DOMAIN queue /\ x \in Transaction /\ CommitsAs(x) /\ Puts(1) <=> x.op = "put"
    BY <1>6, CommitCases DEF Puts
  <2>2. x.op \in {"put", "list", "delete"} => x.by \in Persisters
    BY <1>6, CommitCases, Fields
  <2>3. poisoned' = poisoned /\ 1 \in DOMAIN queue /\ CommitsAs(x)
    BY <1>6, CommitCases DEF CommitsAs
  <2>4. PICK z : z = x
    OBVIOUS
  <2>5. List(z.by).op = "list" /\ List(z.by).by = z.by
    BY DEF List
  <2>6. CASE Written(x)
    <3>1. x.by \in Persisters /\ (\A p \in Persisters : ~Prunes(1, p))
      BY <2>2, <2>6 DEF Written, Prunes
    <3>2. \E new : Shifted(new)
      BY <2>6 DEF Written
    <3>3. CASE x.by[2] = s /\ x.by[3] = c
      <4>1. CASE x.by \in poisoned
        BY <2>3, <3>1, <3>3, <4>1 DEF PrunedOf, Answers
      <4>2. CASE pruning' = [pruning EXCEPT ![x.by] = @ + 1] /\ pruning[x.by] = 0
                 /\ Shifted({List(x.by)})
        <5>1. \E j \in DOMAIN queue' : queue'[j] = List(z.by)
          BY <2>4, <4>2 DEF Shifted
        <5>2. WillPrune(z.by)'
          BY <2>5, <5>1 DEF WillPrune
        <5> QED
          BY <2>4, <3>1, <3>3, <5>2 DEF PrunedOf, Answers
      <4>3. CASE pruning' = [pruning EXCEPT ![x.by] = @ + 1] /\ pruning[x.by] # 0
        <5>1. pruning'[z.by] > 1
          BY <2>4, <3>1, <4>3 DEF Types
        <5>2. WillPrune(z.by)'
          BY <5>1 DEF WillPrune
        <5> QED
          BY <2>4, <3>1, <3>3, <5>2 DEF PrunedOf, Answers
      <4> QED
        BY <2>6, <4>1, <4>2, <4>3 DEF Written
    <3>4. CASE ~(x.by[2] = s /\ x.by[3] = c)
      <4>1. x.entry.name[1] = x.by[2] /\ x.entry.name[2] = x.by[3]
        BY <2>3, <2>6 DEF Apart, Puts, Written
      <4>2. store' \subseteq store \cup {x.entry}
        BY <2>6, PutIsOneMore DEF Written
      <4>3. InCache(s, c)' \subseteq InCache(s, c)
        BY <3>4, <4>1, <4>2 DEF InCache
      <4>4. \A p \in Persisters : p[2] = s /\ p[3] = c => pruning'[p] = pruning[p]
        BY <2>6, <3>1, <3>4 DEF Written, Types
      <4> QED
        BY <1>0, <1>4, <2>3, <3>1, <3>2, <4>3, <4>4, PrunedStays
    <3> QED
      BY <3>3, <3>4
  <2>7. CASE x.op \in {"list", "delete"}
    <3>1. /\ Prunes(1, x.by) /\ pruning[x.by] > 0 /\ x.by \in Persisters
          /\ \A i \in DOMAIN queue : Prunes(i, x.by) => i = 1
          /\ \A p \in Persisters : p # x.by => ~Prunes(1, p)
      BY <1>5, <2>2, <2>3, <2>7
    <3>2. \E new : Shifted(new)
      BY <2>3, <2>7 DEF CommitsAs, Written, NothingToPrune, VictimsFound, Deleted, CleanupFound,
                        CleanedUp, PruneEnds
    <3>3. store' \subseteq store
      BY <2>3, <2>7 DEF CommitsAs, Written, NothingToPrune, VictimsFound, Deleted, CleanupFound,
                        CleanedUp, Without
    <3>4. InCache(s, c)' \subseteq InCache(s, c)
      BY <3>3 DEF InCache
    <3>5. \A p \in Persisters : p # x.by => pruning'[p] = pruning[p]
      BY <2>3, <2>7, <3>1 DEF CommitsAs, Written, NothingToPrune, VictimsFound, Deleted, CleanupFound,
                              CleanedUp, PruneEnds, Types
    <3>6. ASSUME ~(x.by[2] = s /\ x.by[3] = c) \/ WillPrune(z.by)'
          PROVE  PrunedOf(s, c)'
      <4>1. ASSUME NEW p \in Persisters, p[2] = s, p[3] = c, p = z.by PROVE Answers(p)'
        <5>1. WillPrune(z.by)'
          BY <2>4, <3>6, <4>1
        <5> QED
          BY <4>1, <5>1 DEF Answers, WillPrune
      <4> QED
        BY <1>0, <1>4, <2>3, <2>4, <3>1, <3>2, <3>4, <3>5, <4>1, PrunedStays
    <3>7. CASE NothingToPrune(x)
      <4>1. x.by[2] = s /\ x.by[3] = c => Cardinality(InCache(s, c)) <= MaxEntries
        BY <3>1, <3>7, PruneLists DEF NothingToPrune
      <4>2. Cardinality(InCache(s, c)) <= MaxEntries => PrunedOf(s, c)'
        BY <3>4, SmallerStaysBounded DEF PrunedOf
      <4> QED
        BY <3>6, <4>1, <4>2
    <3>8. CASE VictimsFound(x)
      <4>1. PICK names : names = Victims(z.by) /\ Deletion(z).names = names
        BY DEF Deletion
      <4>2. Cardinality(Left(z.by[2], z.by[3], names)) <= MaxEntries
        BY <2>4, <3>1, <4>1, PruneLists
      <4>3. Left(z.by[2], z.by[3], names)' = Left(z.by[2], z.by[3], names)
        BY <3>8 DEF VictimsFound, Left, InCache
      <4>4. PICK y : y = Deletion(z)
        OBVIOUS
      <4>5. y.op = "delete" /\ y.by = z.by /\ y.names = names
        BY <4>1, <4>4 DEF Deletion
      <4>6. PICK j \in DOMAIN queue' : queue'[j] = y
        BY <2>4, <3>8, <4>4 DEF VictimsFound, Shifted
      <4>7. WillPrune(z.by)'
        BY <4>2, <4>3, <4>5, <4>6 DEF WillPrune
      <4> QED
        BY <3>6, <4>7
    <3>9. CASE Deleted(x)
      <4>1. CASE ~(x.by[2] = s /\ x.by[3] = c)
        BY <3>6, <4>1
      <4>2. CASE x.by[2] = s /\ x.by[3] = c /\ pruning[x.by] > 1
        <5>1. \E j \in DOMAIN queue' : queue'[j] = List(z.by)
          BY <2>4, <3>9, <4>2 DEF Deleted, PruneEnds, Shifted
        <5>2. WillPrune(z.by)'
          BY <2>5, <5>1 DEF WillPrune
        <5> QED
          BY <2>4, <3>1, <4>2, <5>2 DEF PrunedOf, Answers
      <4>3. CASE x.by[2] = s /\ x.by[3] = c /\ ~(pruning[x.by] > 1)
        <5>1. CASE /\ ~(x.by \in poisoned) /\ WillPrune(x.by)
          <6>1. Cardinality(Left(s, c, x.names)) <= MaxEntries
            BY <3>1, <3>9, <4>3, <5>1 DEF WillPrune, Prunes, Deleted
          <6>2. InCache(s, c)' \subseteq Left(s, c, x.names)
            BY <3>9 DEF Deleted, Without, InCache, Left
          <6>3. IsFiniteSet(Left(s, c, x.names))
            BY FS_Subset DEF Left, InCache, Types
          <6>4. Cardinality(InCache(s, c)') <= Cardinality(Left(s, c, x.names))
                /\ IsFiniteSet(InCache(s, c)')
            BY <6>2, <6>3, FS_Subset
          <6>5. Cardinality(InCache(s, c)') <= MaxEntries
            BY <6>1, <6>3, <6>4, FS_CardinalityType, SessionCacheAssumption
          <6> QED
            BY <6>5 DEF PrunedOf
        <5>2. CASE x.by \in poisoned
          BY <2>3, <3>1, <4>3, <5>2 DEF PrunedOf, Answers
        <5>3. CASE Cardinality(InCache(s, c)) <= MaxEntries
          BY <3>4, <5>3, SmallerStaysBounded DEF PrunedOf
        <5>4. ASSUME NEW p \in Persisters, p # x.by, p[2] = s, p[3] = c, Answers(p)
              PROVE  PrunedOf(s, c)'
          <6>1. CASE p \in poisoned
            BY <2>3, <5>4, <6>1 DEF PrunedOf, Answers
          <6>2. CASE WillPrune(p)
            <7>1. InCache(p[2], p[3])' \subseteq InCache(p[2], p[3]) /\ pruning'[p] = pruning[p]
              BY <3>3, <3>5, <5>4 DEF InCache
            <7>2. \A i \in DOMAIN queue : Prunes(i, p) =>
                    \E j \in DOMAIN queue' : queue'[j] = queue[i]
              BY <1>4, <2>3, <3>1, <3>2, <5>4
            <7>3. WillPrune(p)'
              BY <6>2, <7>1, <7>2, WillPruneLasts
            <7> QED
              BY <5>4, <7>3 DEF PrunedOf, Answers
          <6> QED
            BY <5>4, <6>1, <6>2 DEF Answers
        <5> QED
          BY <1>0, <5>1, <5>2, <5>3, <5>4 DEF PrunedOf, Answers
      <4> QED
        BY <4>1, <4>2, <4>3
    <3> QED
      BY <2>3, <2>7, <3>7, <3>8, <3>9 DEF CommitsAs, Written, CleanupFound, CleanedUp
  <2>8. CASE CleanupFound(x) \/ CleanedUp(x)
    <3>1. \A p \in Persisters : ~Prunes(1, p)
      BY <2>8 DEF CleanupFound, CleanedUp, Prunes
    <3>2. \E new : Shifted(new)
      BY <2>8 DEF CleanupFound, CleanedUp
    <3>3. InCache(s, c)' \subseteq InCache(s, c) /\ pruning' = pruning
      BY <2>8 DEF CleanupFound, CleanedUp, Without, InCache
    <3> QED
      BY <1>0, <1>4, <2>3, <3>1, <3>2, <3>3, PrunedStays
  <2> QED
    BY <2>3, <2>6, <2>7, <2>8 DEF CommitsAs, NothingToPrune, VictimsFound, Deleted
<1>7. CASE Fail
  <2>1. 1 \in DOMAIN queue /\ queue[1] \in Transaction /\ FailsAs(queue[1])
    BY <1>7, FailCases
  <2>2. Shifted({}) /\ poisoned \subseteq poisoned' /\ InCache(s, c)' \subseteq InCache(s, c)
    BY <2>1 DEF FailsAs, InCache
  <2>3. ASSUME NEW p \in Persisters, Prunes(1, p) PROVE p \in poisoned'
    BY <2>1, <2>3 DEF FailsAs, Prunes
  <2>4. ASSUME NEW p \in Persisters, ~Prunes(1, p) PROVE pruning'[p] = pruning[p]
    BY <2>1, <2>4 DEF FailsAs, Prunes, Types
  <2> QED
    BY <1>0, <1>4, <2>1, <2>2, <2>3, <2>4, PrunedStays DEF Answers
<1>8. ASSUME UNCHANGED <<store, queue, pruning, poisoned>> PROVE PrunedOf(s, c)'
  <2>1. InCache(s, c)' = InCache(s, c)
    BY <1>8 DEF InCache
  <2>2. \A i \in DOMAIN queue : \E j \in DOMAIN queue' : queue'[j] = queue[i]
    BY <1>8
  <2> QED
    BY <1>0, <1>8, <2>1, <2>2, PrunedStays
<1>9. ASSUME NEW t \in Tabs, NEW z \in Scopes \cup {NoScope}, SwitchScope(t, z)
      PROVE  PrunedOf(s, c)'
  BY <1>8, <1>9 DEF SwitchScope
<1>10. CASE UNCHANGED vars
  BY <1>8, <1>10 DEF vars
<1> QED
  BY <1>2, <1>3, <1>6, <1>7, <1>9, <1>10 DEF Next

-------------------------------------------------------------------------------

LEMMA InitIInv == Init => IInv
<1> SUFFICES ASSUME Init PROVE IInv
  OBVIOUS
<1>1. Types
  <2>1. <<>> \in Seq(Transaction) /\ <<>> \in Seq(Scopes \cup {NoScope})
    OBVIOUS
  <2> QED
    BY <2>1, FS_EmptySet DEF Init, Types
<1>2. DOMAIN queue = {}
  BY DEF Init
<1>3. Apart /\ Cleaned
  BY <1>2 DEF Init, Apart, Cleaned, Puts
<1>4. PruneRuns
  BY <1>2 DEF Init, PruneRuns, RunsOf, Prunes
<1>5. Pruned
  <2> SUFFICES ASSUME NEW s \in Scopes, NEW c \in Caches
               PROVE  Cardinality(InCache(s, c)) <= MaxEntries
    BY DEF Pruned, PrunedOf
  <2>1. InCache(s, c) = {}
    BY DEF Init, InCache
  <2> QED
    BY <2>1, FS_EmptySet, SessionCacheAssumption
<1> QED
  BY <1>1, <1>3, <1>4, <1>5 DEF IInv

LEMMA NextIInv == IInv /\ [Next]_vars => IInv'
<1> SUFFICES ASSUME IInv, [Next]_vars PROVE IInv'
  OBVIOUS
<1>1. Types' /\ Apart' /\ PruneRuns' /\ Pruned'
  BY TypesKept, ApartKept, PruneRunsKept, PrunedKept DEF IInv
<1>2. failures' = 0 => failures = 0
  <2>1. Fail => failures' # 0
    BY DEF Fail, IInv, Types
  <2>2. Commit => failures' = failures
    BY DEF Commit
  <2> QED
    BY <2>1, <2>2 DEF Next, SetItem, SwitchScope, DatabaseOpens, vars
<1>3. failures' = 0 => Cleaned'
  BY <1>2, CleanedKept DEF IInv
<1> QED
  BY <1>1, <1>3 DEF IInv

\* When the storage is quiet, it holds no snapshot of a session that no tab is in any
\* more, for every number of tabs, writes and changes of scope (without failures).
THEOREM NoForeignSnapshotHolds == Spec => []NoForeignSnapshot
<1>1. IInv => NoForeignSnapshot
  <2> SUFFICES ASSUME IInv, Quiet, failures = 0, NEW e \in store
               PROVE  \E t \in Tabs : scope[t] = e.name[1]
    BY DEF NoForeignSnapshot
  <2>1. DOMAIN queue = {} /\ \A t \in Tabs : DOMAIN opening[t] = {}
    BY DEF Quiet
  <2>2. Watched(e.name[1], 0) \/ Condemned(e)
    BY DEF IInv, Cleaned
  <2> QED
    BY <2>1, <2>2 DEF Watched, Condemned
<1> QED
  BY <1>1, InitIInv, NextIInv, PTL DEF Spec

\* When the storage is quiet, a cache holds at most maxEntries entries or one of its
\* persisters has a rejected pruneQueue, however many tabs put and prune at a time.
THEOREM CacheBoundedHolds == Spec => []CacheBounded
<1>1. IInv => CacheBounded
  <2> SUFFICES ASSUME IInv, Quiet, NEW s \in Scopes, NEW c \in Caches,
                      ~(Cardinality(InCache(s, c)) <= MaxEntries)
               PROVE  \E t \in Tabs : <<t, s, c>> \in poisoned
    BY DEF CacheBounded
  <2>1. PICK p \in Persisters : p[2] = s /\ p[3] = c /\ (p \in poisoned \/ WillPrune(p))
    BY DEF IInv, Pruned, PrunedOf, Answers
  <2>2. DOMAIN queue = {}
    BY DEF Quiet
  <2>3. ~(pruning[p] > 0)
    BY <2>2 DEF IInv, PruneRuns, RunsOf
  <2>4. ~WillPrune(p)
    BY <2>2, <2>3 DEF WillPrune, IInv, Types
  <2>5. p[1] \in Tabs /\ p = <<p[1], s, c>>
    BY <2>1 DEF Persisters
  <2> QED
    BY <2>1, <2>4, <2>5
<1> QED
  BY <1>1, InitIInv, NextIInv, PTL DEF Spec

\* With a monotonicRevisionField no tab ever puts a smaller revision over a larger one of
\* its own build, where both can be read; an entry of another build, or without such a
\* revision, breaks the chain.
THEOREM RevisionsGrowHolds ==
  ASSUME Monotonic
  PROVE  Spec => RevisionsGrow
<1> DEFINE A == \A e \in store, f \in store' : e.name = f.name => MayFollow(e, f)
<1>1. IInv /\ [Next]_vars => [A]_vars
  <2> SUFFICES ASSUME IInv, Next, NEW e \in store, NEW f \in store', e.name = f.name,
                      e.buster = f.buster, e.revision # 0, f.revision # 0
               PROVE  e.revision <= f.revision
    BY DEF MayFollow
  <2>1. e \in Entry /\ e.revision \in Nat
    BY DEF IInv, Types, Entry
  <2>2. CASE f \in store
    BY <2>1, <2>2 DEF IInv, Apart
  <2>3. CASE f \notin store
    <3>1. CASE Commit
      <4>1. 1 \in DOMAIN queue /\ queue[1] \in Transaction /\ CommitsAs(queue[1])
        BY <3>1, CommitCases DEF IInv
      <4>2. queue[1].op = "put" /\ store' = Put(queue[1].entry)
        BY <2>3, <4>1 DEF CommitsAs, Written, NothingToPrune, VictimsFound, Deleted, CleanupFound,
                          CleanedUp, Without
      <4>3. f = queue[1].entry /\ ~KeepsStored(e, f)
        BY <2>3, <4>2 DEF Put, Without
      <4>4. f.revision \in Nat
        BY <4>1, <4>2, <4>3, Fields DEF Entry
      <4> QED
        BY <2>1, <4>3, <4>4 DEF KeepsStored
    <3>2. CASE Fail
      <4>1. FALSE
        BY <2>3, <3>2, FailCases DEF FailsAs, IInv
      <4> QED
        BY <4>1
    <3> QED
      BY <2>3, <3>1, <3>2 DEF Next, SetItem, SwitchScope, DatabaseOpens
  <2> QED
    BY <2>2, <2>3
<1> QED
  BY <1>1, InitIInv, NextIInv, PTL DEF Spec, RevisionsGrow
===============================================================================
