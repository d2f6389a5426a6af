------------------------------- MODULE WorkQueue -------------------------------
(***************************************************************************)
(* What the volunteers' work queue promises, without locks, processes and  *)
(* transactions: a volunteer who asks is given one order that nobody is at *)
(* work on, or none, and an order can be taken back at any time.           *)
(* OrderQueue implements this with one server process.                     *)
(***************************************************************************)
CONSTANTS Orders, Volunteers

VARIABLES
    placed,     \* orders that have been placed
    asking,     \* volunteers who wait for an answer to GET /orders/next
    hands       \* who is at work on an order, and undisturbed

WorkQueueInit ==
    /\ placed = {}
    /\ asking = {}
    /\ hands = [o \in Orders |-> {}]

Place(o) ==
    /\ placed' = placed \cup {o}
    /\ UNCHANGED <<asking, hands>>

Ask(v) ==
    /\ v \notin asking
    /\ asking' = asking \cup {v}
    /\ UNCHANGED <<placed, hands>>

\* The one step that puts an order into somebody's hands.
Give(v, o) ==
    /\ v \in asking
    /\ o \in placed
    /\ hands[o] = {}
    /\ asking' = asking \ {v}
    /\ hands' = [hands EXCEPT ![o] = {v}]
    /\ UNCHANGED placed

GiveNothing(v) ==
    /\ v \in asking
    /\ asking' = asking \ {v}
    /\ UNCHANGED <<placed, hands>>

\* The volunteer is through with the order, somebody frees it, or time is up.
TakeBack(o) ==
    /\ hands' = [hands EXCEPT ![o] = {}]
    /\ UNCHANGED <<placed, asking>>

WorkQueueNext ==
    \/ \E o \in Orders : Place(o) \/ TakeBack(o)
    \/ \E v \in Volunteers : Ask(v) \/ GiveNothing(v) \/ \E o \in Orders : Give(v, o)

WorkQueueSpec == WorkQueueInit /\ [][WorkQueueNext]_<<placed, asking, hands>>
=============================================================================
