------------------------------ MODULE SerialTask ------------------------------
(***************************************************************************)
(* What the coalescing task runner promises its owner, with no timers, no  *)
(* promises and no generations: work that is admitted is executed by one   *)
(* activity at a time, a signal accepted while the runner is open is       *)
(* followed by a pass that begins after it, and closing revokes every pass *)
(* that has not begun without interrupting the one that has.               *)
(***************************************************************************)

VARIABLES
  open,       \* the runner is started: signals are accepted
  executing,  \* the task or the handler of its failure is running
  debt,       \* a signal, or a failed pass, awaits a pass that begins later
  broken      \* the failure handler itself failed: no automatic pass any more

contractVars == <<open, executing, debt, broken>>

ContractTypeOK ==
  /\ open \in BOOLEAN
  /\ executing \in BOOLEAN
  /\ debt \in BOOLEAN
  /\ broken \in BOOLEAN

ContractInit ==
  /\ open = FALSE
  /\ executing = FALSE
  /\ debt = FALSE
  /\ broken = FALSE

\* A start is admitted only when nothing of an earlier life still executes.
Open ==
  /\ ~open /\ ~executing
  /\ open' = TRUE
  /\ debt' = TRUE
  /\ broken' = FALSE
  /\ UNCHANGED executing

Signal ==
  /\ open /\ ~broken
  /\ debt' = TRUE
  /\ UNCHANGED <<open, executing, broken>>

\* A pass begins only in an open, healthy runner, and alone.  A signal that
\* came while the pass was being prepared may buy one more.
Begin ==
  /\ open /\ ~broken /\ debt /\ ~executing
  /\ executing' = TRUE
  /\ debt' \in BOOLEAN
  /\ UNCHANGED <<open, broken>>

Succeed ==
  /\ executing
  /\ executing' = FALSE
  /\ UNCHANGED <<open, debt, broken>>

\* A failed pass of an open runner is owed again.
Fail ==
  /\ executing
  /\ executing' = FALSE
  /\ debt' = open
  /\ UNCHANGED <<open, broken>>

\* The failure handler failed: automatic passes end until the next Open.
Break ==
  /\ executing
  /\ executing' = FALSE
  /\ debt' = FALSE
  /\ broken' = open
  /\ UNCHANGED open

\* Closing revokes what has not begun; what executes goes on.
Close ==
  /\ open
  /\ open' = FALSE
  /\ debt' = FALSE
  /\ broken' = FALSE
  /\ UNCHANGED executing

ContractNext ==
  \/ Open \/ Signal \/ Begin \/ Succeed \/ Fail \/ Break \/ Close

ContractSafety == ContractInit /\ [][ContractNext]_contractVars

ContractSpec ==
  /\ ContractSafety
  /\ WF_contractVars(Begin)
  /\ WF_contractVars(Succeed \/ Fail \/ Break)
===============================================================================
