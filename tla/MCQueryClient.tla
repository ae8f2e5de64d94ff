----------------------------- MODULE MCQueryClient -----------------------------
(***************************************************************************)
(* Small instances of QueryRestore, QueryBroadcast and OptimisticMutation. *)
(* The three are independent of each other: a behaviour runs one of them.  *)
(***************************************************************************)
EXTENDS Integers

CONSTANTS
  Scopes, NoScope, Nothing, MaxOps, MaxSwitches, MaxStores,
  Tabs, Keys, NoRequest, Sent, MaxWrites, MaxBegun, MaxPosted,
  Mutations, NoData, MaxFetches

\* What the components assume of their constants.
ASSUME QueryClientAssumption ==
  /\ NoScope \notin Scopes
  /\ Nothing \notin Int /\ Nothing \notin {"good", "expired"}
  /\ {NoRequest, Sent} \cap Int = {} /\ NoRequest # Sent
  /\ \A d \in SUBSET Mutations : d \notin {NoRequest, Sent, NoData}
  /\ {MaxOps, MaxSwitches, MaxStores, MaxWrites, MaxBegun, MaxPosted, MaxFetches} \subseteq Nat

VARIABLES
  component,
  scope, stored, ops, current, data, stamp, tasks, switches, stores,
  installed, refetch, matching, closed, query, channel, server, owed, posted, causes, announced, begun,
  cache, invalid, request, before, accepted, step, previous, fetches, overlapped, raced, created

R == INSTANCE QueryRestore
B == INSTANCE QueryBroadcast WITH MaxFetches <- MaxBegun
O == INSTANCE OptimisticMutation WITH server <- accepted

rvars == <<scope, stored, ops, current, data, stamp, tasks, switches, stores>>
bvars == <<installed, refetch, matching, closed, query, channel, server, owed, posted, causes,
           announced, begun>>
ovars == <<cache, invalid, request, before, accepted, step, previous, fetches,
           overlapped, raced, created>>
vars == <<component, rvars, bvars, ovars>>

\* The initial states of the component that runs; the others stay in one of theirs.
Init ==
  \/ /\ component = "restore"
     /\ R!Init
     /\ B!Init /\ installed = "events" /\ refetch = "none"
     /\ O!Init /\ cache = {}
  \/ /\ component = "broadcast"
     /\ R!Init /\ scope = (CHOOSE s \in Scopes : TRUE) /\ stored = [s \in Scopes |-> Nothing]
     /\ B!Init
     /\ O!Init /\ cache = {}
  \/ /\ component = "mutation"
     /\ R!Init /\ scope = (CHOOSE s \in Scopes : TRUE) /\ stored = [s \in Scopes |-> Nothing]
     /\ B!Init /\ installed = "events" /\ refetch = "none"
     /\ O!Init

Next ==
  /\ component' = component
  /\ \/ component = "restore" /\ R!Next /\ UNCHANGED <<bvars, ovars>>
     \/ component = "broadcast" /\ B!Next /\ UNCHANGED <<rvars, ovars>>
     \/ component = "mutation" /\ O!Next /\ UNCHANGED <<rvars, bvars>>

Spec == Init /\ [][Next]_vars

\* See the modules for the properties.
TypeOK == R!TypeOK /\ B!TypeOK /\ O!TypeOK
\* A restore never publishes, nor removes, what belongs to another session or another
\* attempt, and what it publishes has the stamp of its snapshot.
RestoresAreCurrent == []R!StampOfTheData /\ R!NothingForeign /\ R!SnapshotOutlivesCancel
\* No tab keeps old data as fresh, and none repeats what it was told for ever.
FreshOrMarked == B!FreshOrMarked /\ B!NoEndlessEcho
StaleIsMarked == O!StaleIsMarked
SequentialIsExact == O!SequentialIsExact
===============================================================================
