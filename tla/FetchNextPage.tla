------------------------------ MODULE FetchNextPage ------------------------------
(***************************************************************************)
(* useFetchNextPageEffect: a virtualized list loads its next page when its *)
(* end is seen.  The effect runs after renders that change an input; the   *)
(* request and the reporter of its failure settle at any time.             *)
(***************************************************************************)
EXTENDS Integers

CONSTANT MaxItems \* bound on the items of the list

VARIABLES
  items,    \* currentItemsCount
  more,     \* hasNextPage
  atEnd,    \* the last virtual item is the last item
  mounted,
  fetching, \* fetchingRef
  failedAt, \* failedItemsCountRef, or NoFailure
  request,  \* "reporting": the reporter of its failure is under way
  begunAt,  \* the items when the request began
  permit,   \* history: something came since the last failure that allows a retry
  requests  \* history: requests under way

vars == <<items, more, atEnd, mounted, fetching, failedAt, request, begunAt, permit, requests>>

NoFailure == -1

TypeOK ==
  /\ items \in 0 .. MaxItems /\ failedAt \in {NoFailure} \cup (0 .. MaxItems)
  /\ {more, atEnd, mounted, fetching, permit} \subseteq BOOLEAN
  /\ request \in {"none", "begun", "reporting"} /\ begunAt \in 0 .. MaxItems
  /\ requests \in 0 .. 2

Init ==
  /\ items \in 0 .. 1 /\ more \in BOOLEAN /\ atEnd \in BOOLEAN
  /\ mounted = TRUE /\ fetching = FALSE /\ failedAt = NoFailure
  /\ request = "none" /\ begunAt = 0 /\ permit = TRUE /\ requests = 0

WrongForgets == TRUE \* every run of the effect allows a retry

Forgets == ~more' \/ failedAt # items'

\* A render with other inputs, and the effect after it.
Render ==
  /\ mounted
  /\ items' \in 0 .. MaxItems /\ more' \in BOOLEAN /\ atEnd' \in BOOLEAN
  /\ LET failure == IF Forgets THEN NoFailure ELSE failedAt
         begins == items' > 0 /\ more' /\ ~fetching /\ failure # items' /\ atEnd'
     IN  /\ failedAt' = failure
         /\ fetching' = (fetching \/ begins)
         /\ IF begins THEN request' = "begun" /\ begunAt' = items' /\ requests' = requests + 1
            ELSE UNCHANGED <<request, begunAt, requests>>
  /\ permit' = (permit \/ ~more' \/ items' # items)
  /\ mounted' = mounted

Succeeds ==
  /\ request = "begun"
  /\ request' = "none" /\ fetching' = FALSE /\ requests' = requests - 1 /\ permit' = TRUE
  /\ UNCHANGED <<items, more, atEnd, mounted, failedAt, begunAt>>

\* A failure, of the callback too: its reporter is awaited before the next request.
Fails ==
  /\ request = "begun"
  /\ request' = "reporting" /\ failedAt' = begunAt /\ requests' = requests - 1
  /\ permit' = (items # begunAt)
  /\ UNCHANGED <<items, more, atEnd, mounted, fetching, begunAt>>

ReporterSettles ==
  /\ request = "reporting"
  /\ request' = "none" /\ fetching' = FALSE
  /\ UNCHANGED <<items, more, atEnd, mounted, failedAt, begunAt, permit, requests>>

Unmount ==
  /\ mounted /\ mounted' = FALSE
  /\ UNCHANGED <<items, more, atEnd, fetching, failedAt, request, begunAt, permit, requests>>

Next == Render \/ Succeeds \/ Fails \/ ReporterSettles \/ Unmount

Spec == Init /\ [][Next]_vars
-------------------------------------------------------------------------------
\* One request at a time; and after a failure none begins until the data or
\* hasNextPage has changed, however often the list is scrolled and rendered.
NoRetryByScroll ==
  [][request' = "begun" /\ request # "begun" => requests = 0 /\ permit']_vars
===============================================================================
