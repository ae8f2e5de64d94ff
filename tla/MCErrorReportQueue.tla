--------------------------- MODULE MCErrorReportQueue ---------------------------
(***************************************************************************)
(* A small instance of ErrorReportQueue for TLC: more reports than fit the *)
(* queue, two tabs, and a clock long enough for a lease and then a record  *)
(* to expire and be enqueued again.                                        *)
(***************************************************************************)
EXTENDS ErrorReportQueue, TLC

Symmetry == Permutations(Reports) \cup Permutations(Owners)
===============================================================================
