----------------------------- MODULE MCSessionCache -----------------------------
(***************************************************************************)
(* Small instances of SessionCache for TLC.                                *)
(***************************************************************************)
EXTENDS SessionCache, TLC

NoNameExtends == {}

Entries ==
  store \cup {queue[i].entry : i \in {j \in DOMAIN queue : queue[j].op = "put"}}

\* Bound: a behaviour with several builds or revisions has no change of scope,
\* which does not look at them.
BuildsOrMoves ==
  switches > 0 =>
    (\A t, u \in Tabs : buster[t] = buster[u]) /\ \A e \in Entries : e.revision = 1

Symmetry == Permutations(Tabs) \cup Permutations(Busters) \cup Permutations(Scopes) \cup Permutations(Keys)
===============================================================================
