-------------------------- MODULE OrderQueueProofs --------------------------
(***************************************************************************)
(* Proofs about OrderQueue, for any number of orders, volunteers and       *)
(* requests.  The exclusion results need the one assumption under which    *)
(* the monitor of lockAcquired protects the lock: one server process.      *)
(***************************************************************************)
EXTENDS OrderQueue, TLAPS

\* All requests are served by the same process.
OneServer == \A v, w \in Volunteers : JvmOf[v] = JvmOf[w]

-----------------------------------------------------------------------------
(* Type correctness.                                                       *)

LEMMA LapseType ==
    ASSUME NEW o \in Orders, TypeOK
    PROVE  Lapse(work, o) \in [Volunteers -> [Orders -> {"none", "held", "lapsed"}]]
BY DEF TypeOK, Lapse

LEMMA ServerStepType ==
    ASSUME NEW v \in Volunteers, TypeOK, ServerStep(v)
    PROVE  TypeOK'
<1> USE QueueAssumption DEF TypeOK, Rows, table, request
<1>1. CASE SkipLocked(v)
  BY <1>1 DEF SkipLocked
<1>2. CASE FoundUnlocked(v)
  BY <1>2 DEF FoundUnlocked
<1>3. CASE AcquireRefused(v)
  BY <1>3 DEF AcquireRefused, HandOut, Answer
<1>4. CASE AcquireProceeds(v)
  BY <1>4 DEF AcquireProceeds
<1>5. CASE Lock(v)
  BY <1>5 DEF Lock, HandOut, Answer
<1>6. CASE WidenQuery(v)
  BY <1>6 DEF WidenQuery, OpenOrders
<1>7. CASE NoOrder(v)
  BY <1>7 DEF NoOrder, Answer
<1>8. CASE Merge(v)
  BY <1>8 DEF Merge
<1>11. CASE Release(v)
  BY <1>11, LapseType DEF Release, ReleaseLock
<1>9. CASE SaveDeleted(v)
  BY <1>9 DEF SaveDeleted, Answer
<1>10. CASE Commit(v)
  BY <1>10 DEF Commit, Answer
<1>. QED
  BY <1>1, <1>2, <1>3, <1>4, <1>5, <1>6, <1>7, <1>8, <1>9, <1>10, <1>11
  DEF ServerStep

LEMMA SubmitType ==
    ASSUME NEW v \in Volunteers, TypeOK, Submit(v)
    PROVE  TypeOK'
<1> USE QueueAssumption DEF TypeOK, Rows, table, request
<1>1. ASSUME NEW p \in Providers \cup {AnyProvider}, RequestNext(v, p)
      PROVE  TypeOK'
  BY <1>1 DEF RequestNext, OpenOrders
<1>2. ASSUME NEW o \in Orders, NEW s \in Rows, LoadOrder(v, o, s)
      PROVE  TypeOK'
  BY <1>2 DEF LoadOrder
<1>. QED
  BY <1>1, <1>2 DEF Submit, Complete, Reset, Cancel

LEMMA OrderStepType ==
    ASSUME NEW o \in Orders, TypeOK, OrderStep(o)
    PROVE  TypeOK'
<1> USE QueueAssumption DEF TypeOK, Rows, table, request
<1>1. CASE CreateOrder(o)
  BY <1>1 DEF CreateOrder
<1>2. CASE EditOrder(o)
  BY <1>2 DEF EditOrder
<1>3. CASE DeleteOrder(o)
  BY <1>3 DEF DeleteOrder
<1>4. CASE RemoveLock(o)
  BY <1>4, LapseType DEF RemoveLock, ReleaseLock
<1>5. CASE Expire(o)
  BY <1>5, LapseType DEF Expire, ReleaseLock
<1>. QED
  BY <1>1, <1>2, <1>3, <1>4, <1>5 DEF OrderStep

\* Every state of the queue is well typed; a request that has an order in hand
\* has one of the table's.
THEOREM TypeCorrect == Spec => []TypeOK
<1>1. Init => TypeOK
  BY QueueAssumption DEF Init, TypeOK, Rows
<1>2. TypeOK /\ [Next]_vars => TypeOK'
  <2>1. CASE UNCHANGED vars
    BY <2>1 DEF TypeOK, vars
  <2>2. CASE Next
    BY <2>2, ServerStepType, SubmitType, OrderStepType DEF Next
  <2>. QED
    BY <2>1, <2>2
<1>. QED
  BY <1>1, <1>2, PTL DEF Spec

-----------------------------------------------------------------------------
(* The inductive invariant.  WorkIsLocked is preserved by Lock only because *)
(* the order was unlocked all the time the request was inside the monitor,  *)
(* and that only because no other request can be inside it.                 *)

IInv == TypeOK /\ MonitorHeld /\ UnlockedInside /\ WorkIsLocked

\* Only one request at a time is inside the monitor.
LEMMA OneInside ==
    ASSUME OneServer, MonitorHeld,
           NEW v \in Volunteers, pc[v] \in {"acquire", "lock"},
           NEW w \in Volunteers, pc[w] \in {"acquire", "lock"}
    PROVE  v = w
<1>1. monitor[JvmOf[v]] = v /\ monitor[JvmOf[w]] = w
  BY DEF MonitorHeld
<1>2. JvmOf[v] = JvmOf[w]
  BY DEF OneServer
<1>. QED
  BY <1>1, <1>2

\* Freeing a lock keeps the order unlocked for the request inside the monitor,
\* and a volunteer whose lock is freed is no longer counted as holding it.
LEMMA ReleaseKeeps ==
    ASSUME IInv, NEW o \in Orders, ReleaseLock(o),
           NEW x \in Volunteers, NEW y \in Orders, work'[x][y] = "held"
    PROVE  lock'[y] = x
<1>1. work' = [v \in Volunteers |->
                 IF lock[o] = v /\ work[v][o] = "held"
                 THEN [work[v] EXCEPT ![o] = "lapsed"] ELSE work[v]]
  BY DEF ReleaseLock, Lapse
<1>2. work[x] \in [Orders -> {"none", "held", "lapsed"}]
  BY DEF IInv, TypeOK
<1>3. work[x][y] = "held"
  BY <1>1, <1>2
<1>4. lock[y] = x
  BY <1>3 DEF IInv, WorkIsLocked
<1>5. y # o
  BY <1>1, <1>2, <1>3, <1>4
<1>. QED
  BY <1>4, <1>5 DEF ReleaseLock, IInv, TypeOK

LEMMA MonitorStep ==
    ASSUME TypeOK, MonitorHeld, [Next]_vars
    PROVE  MonitorHeld'
<1> USE QueueAssumption DEF TypeOK, MonitorHeld, table, request
<1>1. ASSUME NEW v \in Volunteers, ServerStep(v)
      PROVE  MonitorHeld'
  <2>1. CASE SkipLocked(v)
    BY <2>1 DEF SkipLocked
  <2>2. CASE FoundUnlocked(v)
    BY <2>2 DEF FoundUnlocked
  <2>3. CASE AcquireRefused(v)
    BY <2>3 DEF AcquireRefused, HandOut, Answer
  <2>4. CASE AcquireProceeds(v)
    BY <2>4 DEF AcquireProceeds
  <2>5. CASE Lock(v)
    BY <2>5 DEF Lock, HandOut, Answer
  <2>6. CASE WidenQuery(v)
    BY <2>6 DEF WidenQuery
  <2>7. CASE NoOrder(v)
    BY <2>7 DEF NoOrder, Answer
  <2>8. CASE Merge(v)
    BY <2>8 DEF Merge
  <2>11. CASE Release(v)
    BY <2>11 DEF Release
  <2>9. CASE SaveDeleted(v)
    BY <2>9 DEF SaveDeleted, Answer
  <2>10. CASE Commit(v)
    BY <2>10 DEF Commit, Answer
  <2>. QED
    BY <1>1, <2>1, <2>2, <2>3, <2>4, <2>5, <2>6, <2>7, <2>8, <2>9, <2>10, <2>11
    DEF ServerStep
<1>2. ASSUME NEW v \in Volunteers, Submit(v)
      PROVE  MonitorHeld'
  <2>1. ASSUME NEW p \in Providers \cup {AnyProvider}, RequestNext(v, p)
        PROVE  MonitorHeld'
    BY <2>1 DEF RequestNext
  <2>2. ASSUME NEW o \in Orders, NEW s \in Rows, LoadOrder(v, o, s)
        PROVE  MonitorHeld'
    BY <2>2 DEF LoadOrder
  <2>. QED
    BY <1>2, <2>1, <2>2 DEF Submit, Complete, Reset, Cancel, Rows
<1>3. ASSUME NEW o \in Orders, OrderStep(o)
      PROVE  MonitorHeld'
  BY <1>3 DEF OrderStep, CreateOrder, EditOrder, DeleteOrder, RemoveLock, Expire
<1>4. CASE UNCHANGED vars
  BY <1>4 DEF vars
<1>. QED
  BY <1>1, <1>2, <1>3, <1>4 DEF Next

\* No step locks the order of a request that is inside the monitor, save Lock,
\* which ends that request.
LEMMA UnlockedStep ==
    ASSUME OneServer, IInv, [Next]_vars
    PROVE  UnlockedInside'
<1> USE QueueAssumption DEF IInv, TypeOK, UnlockedInside, IsLocked, table, request
<1>1. ASSUME NEW v \in Volunteers, ServerStep(v)
      PROVE  UnlockedInside'
  <2>1. CASE SkipLocked(v)
    BY <2>1 DEF SkipLocked
  <2>2. CASE FoundUnlocked(v)
    BY <2>2 DEF FoundUnlocked
  <2>3. CASE AcquireRefused(v)
    BY <2>3 DEF AcquireRefused, HandOut, Answer
  <2>4. CASE AcquireProceeds(v)
    BY <2>4 DEF AcquireProceeds
  <2>5. CASE Lock(v)
    <3>1. \A w \in Volunteers : pc[w] \in {"acquire", "lock"} => w = v
      BY <2>5, OneInside DEF Lock
    <3>. QED
      BY <2>5, <3>1 DEF Lock, HandOut, Answer
  <2>6. CASE WidenQuery(v)
    BY <2>6 DEF WidenQuery
  <2>7. CASE NoOrder(v)
    BY <2>7 DEF NoOrder, Answer
  <2>8. CASE Merge(v)
    BY <2>8 DEF Merge
  <2>11. CASE Release(v)
    BY <2>11 DEF Release, ReleaseLock
  <2>9. CASE SaveDeleted(v)
    BY <2>9 DEF SaveDeleted, Answer
  <2>10. CASE Commit(v)
    BY <2>10 DEF Commit, Answer
  <2>. QED
    BY <1>1, <2>1, <2>2, <2>3, <2>4, <2>5, <2>6, <2>7, <2>8, <2>9, <2>10, <2>11
    DEF ServerStep
<1>2. ASSUME NEW v \in Volunteers, Submit(v)
      PROVE  UnlockedInside'
  <2>1. ASSUME NEW p \in Providers \cup {AnyProvider}, RequestNext(v, p)
        PROVE  UnlockedInside'
    BY <2>1 DEF RequestNext
  <2>2. ASSUME NEW o \in Orders, NEW s \in Rows, LoadOrder(v, o, s)
        PROVE  UnlockedInside'
    BY <2>2 DEF LoadOrder
  <2>. QED
    BY <1>2, <2>1, <2>2 DEF Submit, Complete, Reset, Cancel, Rows
<1>3. ASSUME NEW o \in Orders, OrderStep(o)
      PROVE  UnlockedInside'
  BY <1>3 DEF OrderStep, CreateOrder, EditOrder, DeleteOrder, RemoveLock, Expire, ReleaseLock
<1>4. CASE UNCHANGED vars
  BY <1>4 DEF vars
<1>. QED
  BY <1>1, <1>2, <1>3, <1>4 DEF Next

\* AcquireRefused, which hands an order out without its lock, cannot happen:
\* UnlockedInside contradicts its guard.
LEMMA NeverRefused ==
    ASSUME IInv, NEW v \in Volunteers
    PROVE  ~AcquireRefused(v)
BY DEF IInv, UnlockedInside, AcquireRefused

LEMMA WorkStep ==
    ASSUME IInv, [Next]_vars
    PROVE  WorkIsLocked'
<1> SUFFICES ASSUME NEW x \in Volunteers, NEW y \in Orders, work'[x][y] = "held"
             PROVE  lock'[y] = x
  BY DEF WorkIsLocked
<1> USE DEF table, request
<1>0. work[x][y] = "held" => lock[y] = x
  BY DEF IInv, WorkIsLocked
<1>1. ASSUME NEW o \in Orders, ReleaseLock(o)
      PROVE  lock'[y] = x
  BY <1>1, ReleaseKeeps
<1>2. ASSUME UNCHANGED <<lock, work>>
      PROVE  lock'[y] = x
  BY <1>0, <1>2
<1>3. ASSUME NEW v \in Volunteers, ServerStep(v)
      PROVE  lock'[y] = x
  <2>1. CASE Lock(v)
    <3>1. /\ cur[v] \in Orders
          /\ lock[cur[v]] = Free
      BY <2>1 DEF Lock, IsLocked, IInv, TypeOK
    <3>2. /\ lock' = [lock EXCEPT ![cur[v]] = v]
          /\ work' = [work EXCEPT ![v][cur[v]] = "held"]
      BY <2>1 DEF Lock, HandOut
    <3>3. CASE x = v /\ y = cur[v]
      BY <3>1, <3>2, <3>3 DEF IInv, TypeOK
    <3>4. CASE ~(x = v /\ y = cur[v])
      <4>1. work[x][y] = "held"
        BY <3>1, <3>2, <3>4 DEF IInv, TypeOK
      <4>2. lock[y] = x /\ y # cur[v]
        BY <1>0, <3>1, <4>1, QueueAssumption
      <4>. QED
        BY <3>2, <4>2 DEF IInv, TypeOK
    <3>. QED
      BY <3>3, <3>4
  <2>2. CASE Release(v)
    <3>1. cur[v] \in Orders
      BY <2>2 DEF Release, IInv, TypeOK
    <3>. QED
      BY <1>1, <2>2, <3>1 DEF Release
  <2>3. CASE ~Lock(v) /\ ~Release(v)
    BY <1>2, <1>3, <2>3, NeverRefused
    DEF ServerStep, SkipLocked, FoundUnlocked, AcquireProceeds, WidenQuery,
        NoOrder, Merge, SaveDeleted, Commit
  <2>. QED
    BY <2>1, <2>2, <2>3
<1>4. ASSUME NEW v \in Volunteers, Submit(v)
      PROVE  lock'[y] = x
  <2>1. ASSUME NEW p \in Providers \cup {AnyProvider}, RequestNext(v, p)
        PROVE  lock'[y] = x
    BY <1>2, <2>1 DEF RequestNext
  <2>2. ASSUME NEW o \in Orders, NEW s \in Rows, LoadOrder(v, o, s)
        PROVE  lock'[y] = x
    <3>1. work' = [work EXCEPT ![v][o] = "none"] /\ UNCHANGED lock
      BY <2>2 DEF LoadOrder
    <3>2. work[x][y] = "held"
      BY <3>1 DEF IInv, TypeOK
    <3>. QED
      BY <1>0, <3>1, <3>2
  <2>. QED
    BY <1>4, <2>1, <2>2 DEF Submit, Complete, Reset, Cancel, Rows
<1>5. ASSUME NEW o \in Orders, OrderStep(o)
      PROVE  lock'[y] = x
  <2>1. ReleaseLock(o) \/ UNCHANGED <<lock, work>>
    BY <1>5 DEF OrderStep, CreateOrder, EditOrder, DeleteOrder, RemoveLock, Expire
  <2>. QED
    BY <1>1, <1>2, <2>1
<1>6. CASE UNCHANGED vars
  BY <1>2, <1>6 DEF vars
<1>. QED
  BY <1>3, <1>4, <1>5, <1>6 DEF Next

LEMMA Inductive ==
    ASSUME OneServer
    PROVE  Spec => []IInv
<1>1. Init => IInv
  BY QueueAssumption
  DEF Init, IInv, TypeOK, Rows, MonitorHeld, UnlockedInside, WorkIsLocked
<1>2. IInv /\ [Next]_vars => MonitorHeld' /\ UnlockedInside' /\ WorkIsLocked'
  BY MonitorStep, UnlockedStep, WorkStep DEF IInv
<1>3. TypeOK' /\ MonitorHeld' /\ UnlockedInside' /\ WorkIsLocked' => IInv'
  BY DEF IInv
<1>. QED
  BY <1>1, <1>2, <1>3, TypeCorrect, PTL DEF Spec

-----------------------------------------------------------------------------
\* In every server process, a request between lockAcquired's check of the lock and
\* its acquisition has the monitor of the static method to itself.
THEOREM MonitorKept == Spec => []MonitorHeld
<1>1. Init => MonitorHeld
  BY QueueAssumption DEF Init, MonitorHeld
<1>2. TypeOK /\ MonitorHeld /\ [Next]_vars => MonitorHeld'
  BY MonitorStep
<1>. QED
  BY <1>1, <1>2, TypeCorrect, PTL DEF Spec

\* With one server process, the order that lockAcquired found unlocked stays
\* unlocked until acquireLock locks it.
THEOREM UnlockedStays ==
    ASSUME OneServer
    PROVE  Spec => []UnlockedInside
<1>1. IInv => UnlockedInside
  BY DEF IInv
<1>. QED
  BY <1>1, Inductive, PTL

\* With one server process, a volunteer whose lock has not lapsed still holds it.
THEOREM WorkLocked ==
    ASSUME OneServer
    PROVE  Spec => []WorkIsLocked
<1>1. IInv => WorkIsLocked
  BY DEF IInv
<1>. QED
  BY <1>1, Inductive, PTL

\* With one server process, two volunteers are never both at work on an order
\* with a lock that has not lapsed: what GET /orders/next promises.
THEOREM OneVolunteerPerOrder ==
    ASSUME OneServer
    PROVE  Spec => []OneHolder
<1>1. WorkIsLocked => OneHolder
  BY DEF WorkIsLocked, OneHolder
<1>. QED
  BY <1>1, WorkLocked, PTL

-----------------------------------------------------------------------------
(* Refinement: with one server process the queue implements WorkQueue.      *)

\* What a request picks from, and what it has picked, has been placed.
PickedWasPlaced ==
    \A v \in Volunteers :
        /\ \A o \in cand[v] : status[o] # "ABSENT"
        /\ pc[v] \in {"acquire", "lock"} => status[cur[v]] # "ABSENT"

\* A row never goes back to not having been there.
LEMMA PlacedStays ==
    ASSUME TypeOK, [Next]_vars, NEW o \in Orders, status[o] # "ABSENT"
    PROVE  status'[o] # "ABSENT"
<1> USE QueueAssumption DEF TypeOK, Rows, table, request
<1>1. ASSUME NEW v \in Volunteers, ServerStep(v)
      PROVE  status'[o] # "ABSENT"
  BY <1>1 DEF ServerStep, SkipLocked, FoundUnlocked, AcquireRefused, AcquireProceeds,
     Lock, WidenQuery, NoOrder, Merge, SaveDeleted, Release, Commit
<1>2. ASSUME NEW v \in Volunteers, Submit(v)
      PROVE  status'[o] # "ABSENT"
  BY <1>2 DEF Submit, RequestNext, Complete, Reset, Cancel, LoadOrder
<1>3. ASSUME NEW p \in Orders, OrderStep(p)
      PROVE  status'[o] # "ABSENT"
  BY <1>3 DEF OrderStep, CreateOrder, EditOrder, DeleteOrder, RemoveLock, Expire
<1>4. CASE UNCHANGED vars
  BY <1>4 DEF vars, table
<1>. QED
  BY <1>1, <1>2, <1>3, <1>4 DEF Next

LEMMA PickedStep ==
    ASSUME TypeOK, PickedWasPlaced, [Next]_vars
    PROVE  PickedWasPlaced'
<1> USE QueueAssumption DEF TypeOK, table, request
<1>0. \A o \in Orders : status[o] # "ABSENT" => status'[o] # "ABSENT"
  BY PlacedStays
<1> SUFFICES ASSUME NEW x \in Volunteers
             PROVE  /\ \A o \in cand'[x] : status'[o] # "ABSENT"
                    /\ pc'[x] \in {"acquire", "lock"} => status'[cur'[x]] # "ABSENT"
  BY DEF PickedWasPlaced
<1>a. /\ cand[x] \subseteq Orders
      /\ \A o \in cand[x] : status[o] # "ABSENT"
      /\ pc[x] \in {"acquire", "lock"} => cur[x] \in Orders /\ status[cur[x]] # "ABSENT"
  BY DEF PickedWasPlaced
<1>1. ASSUME NEW v \in Volunteers, ServerStep(v)
      PROVE  /\ \A o \in cand'[x] : status'[o] # "ABSENT"
             /\ pc'[x] \in {"acquire", "lock"} => status'[cur'[x]] # "ABSENT"
  <2>1. CASE SkipLocked(v)
    BY <1>0, <1>a, <2>1 DEF SkipLocked
  <2>2. CASE FoundUnlocked(v)
    BY <1>0, <1>a, <2>2 DEF FoundUnlocked
  <2>3. CASE AcquireRefused(v)
    BY <1>0, <1>a, <2>3 DEF AcquireRefused, HandOut, Answer
  <2>4. CASE AcquireProceeds(v)
    BY <1>0, <1>a, <2>4 DEF AcquireProceeds
  <2>5. CASE Lock(v)
    BY <1>0, <1>a, <2>5 DEF Lock, HandOut, Answer
  <2>6. CASE WidenQuery(v)
    BY <1>0, <1>a, <2>6 DEF WidenQuery, OpenOrders
  <2>7. CASE NoOrder(v)
    BY <1>0, <1>a, <2>7 DEF NoOrder, Answer
  <2>8. CASE Merge(v)
    BY <1>0, <1>a, <2>8 DEF Merge
  <2>11. CASE Release(v)
    BY <1>0, <1>a, <2>11 DEF Release
  <2>9. CASE SaveDeleted(v)
    BY <1>0, <1>a, <2>9 DEF SaveDeleted, Answer
  <2>10. CASE Commit(v)
    BY <1>0, <1>a, <2>10 DEF Commit, Answer
  <2>. QED
    BY <1>1, <2>1, <2>2, <2>3, <2>4, <2>5, <2>6, <2>7, <2>8, <2>9, <2>10, <2>11
    DEF ServerStep
<1>2. ASSUME NEW v \in Volunteers, Submit(v)
      PROVE  /\ \A o \in cand'[x] : status'[o] # "ABSENT"
             /\ pc'[x] \in {"acquire", "lock"} => status'[cur'[x]] # "ABSENT"
  <2>1. ASSUME NEW p \in Providers \cup {AnyProvider}, RequestNext(v, p)
        PROVE  /\ \A o \in cand'[x] : status'[o] # "ABSENT"
               /\ pc'[x] \in {"acquire", "lock"} => status'[cur'[x]] # "ABSENT"
    BY <1>0, <1>a, <2>1 DEF RequestNext, OpenOrders
  <2>2. ASSUME NEW o \in Orders, NEW s \in Rows, LoadOrder(v, o, s)
        PROVE  /\ \A q \in cand'[x] : status'[q] # "ABSENT"
               /\ pc'[x] \in {"acquire", "lock"} => status'[cur'[x]] # "ABSENT"
    BY <1>0, <1>a, <2>2 DEF LoadOrder
  <2>. QED
    BY <1>2, <2>1, <2>2 DEF Submit, Complete, Reset, Cancel, Rows
<1>3. ASSUME NEW o \in Orders, OrderStep(o)
      PROVE  /\ \A q \in cand'[x] : status'[q] # "ABSENT"
             /\ pc'[x] \in {"acquire", "lock"} => status'[cur'[x]] # "ABSENT"
  BY <1>0, <1>a, <1>3 DEF OrderStep, CreateOrder, EditOrder, DeleteOrder, RemoveLock, Expire
<1>4. CASE UNCHANGED vars
  BY <1>0, <1>a, <1>4 DEF vars
<1>. QED
  BY <1>1, <1>2, <1>3, <1>4 DEF Next

LEMMA QueueInit == Init => Queue!WorkQueueInit
BY DEF Init, Queue!WorkQueueInit, Placed, Asking, Hands

\* Freeing a lock takes the order back, whoever held it.
LEMMA ReleaseTakesBack ==
    ASSUME IInv, NEW o \in Orders, ReleaseLock(o), Placed' = Placed, Asking' = Asking
    PROVE  Queue!TakeBack(o)
<1>1. work' = [v \in Volunteers |->
                 IF lock[o] = v /\ work[v][o] = "held"
                 THEN [work[v] EXCEPT ![o] = "lapsed"] ELSE work[v]]
  BY DEF ReleaseLock, Lapse
<1>2. \A v \in Volunteers : work[v] \in [Orders -> {"none", "held", "lapsed"}]
  BY DEF IInv, TypeOK
<1>3. \A v \in Volunteers : work[v][o] = "held" => lock[o] = v
  BY DEF IInv, WorkIsLocked
<1>4. \A v \in Volunteers : work'[v][o] # "held"
  BY <1>1, <1>2, <1>3
<1>5. \A v \in Volunteers, p \in Orders : p # o => work'[v][p] = work[v][p]
  BY <1>1, <1>2
<1>6. Hands' = [Hands EXCEPT ![o] = {}]
  BY <1>4, <1>5 DEF Hands
<1>. QED
  BY <1>6 DEF Queue!TakeBack

\* Lock is the one step that gives an order, and finds it in nobody's hands.
LEMMA LockGives ==
    ASSUME IInv, PickedWasPlaced, NEW v \in Volunteers, Lock(v)
    PROVE  \E o \in Orders : Queue!Give(v, o)
<1> DEFINE o == cur[v]
<1>1. /\ o \in Orders
      /\ lock[o] = Free
      /\ status' = status
      /\ pc' = [pc EXCEPT ![v] = "idle"]
      /\ work' = [work EXCEPT ![v][o] = "held"]
  BY DEF Lock, HandOut, Answer, IsLocked, table, IInv, TypeOK
<1>2. /\ pc[v] = "lock"
      /\ pc \in [Volunteers -> {"idle", "pick", "acquire", "lock",
                             "merge", "release", "commit"}]
      /\ work \in [Volunteers -> [Orders -> {"none", "held", "lapsed"}]]
  BY DEF Lock, IInv, TypeOK
<1>3. \A w \in Volunteers : work[w][o] # "held"
  BY <1>1, QueueAssumption DEF IInv, WorkIsLocked
<1>4. Hands[o] = {}
  BY <1>1, <1>3 DEF Hands
<1>5. Hands' = [Hands EXCEPT ![o] = {v}]
  <2>1. \A w \in Volunteers, p \in Orders :
          work'[w][p] = "held" <=> (w = v /\ p = o) \/ work[w][p] = "held"
    BY <1>1, <1>2
  <2>. QED
    BY <1>3, <2>1 DEF Hands
<1>6. Asking' = Asking \ {v} /\ v \in Asking
  BY <1>1, <1>2 DEF Asking
<1>7. status[o] # "ABSENT"
  BY <1>2 DEF PickedWasPlaced
<1>. QED
  BY <1>1, <1>4, <1>5, <1>6, <1>7 DEF Queue!Give, Placed

LEMMA RequestRefines ==
    ASSUME IInv, NEW v \in Volunteers, Submit(v)
    PROVE  [Queue!WorkQueueNext]_<<Placed, Asking, Hands>>
<1> USE DEF table, request
<1>1. ASSUME NEW p \in Providers \cup {AnyProvider}, RequestNext(v, p)
      PROVE  Queue!Ask(v)
  BY <1>1 DEF RequestNext, Queue!Ask, Placed, Asking, Hands, IInv, TypeOK
<1>2. ASSUME NEW o \in Orders, NEW s \in Rows, LoadOrder(v, o, s)
      PROVE  Queue!TakeBack(o) \/ UNCHANGED <<Placed, Asking, Hands>>
  <2>1. /\ work' = [work EXCEPT ![v][o] = "none"]
        /\ pc' = [pc EXCEPT ![v] = IF UnlocksFirst(s) THEN "release" ELSE "merge"]
        /\ pc[v] = "idle"
        /\ status' = status
    BY <1>2 DEF LoadOrder
  <2>2. Placed' = Placed /\ Asking' = Asking
    BY <2>1 DEF Placed, Asking, IInv, TypeOK
  <2>3. \A w \in Volunteers, p \in Orders :
          work'[w][p] = "held" <=> work[w][p] = "held" /\ ~(w = v /\ p = o)
    BY <2>1 DEF IInv, TypeOK
  <2>4. CASE work[v][o] = "held"
    <3>1. \A w \in Volunteers : work[w][o] = "held" => w = v
      BY <2>4 DEF IInv, WorkIsLocked
    <3>2. \A w \in Volunteers : work'[w][o] # "held"
      BY <2>3, <3>1
    <3>3. \A w \in Volunteers, p \in Orders :
            p # o => (work'[w][p] = "held" <=> work[w][p] = "held")
      BY <2>3
    <3>4. Hands' = [Hands EXCEPT ![o] = {}]
      BY <3>2, <3>3 DEF Hands
    <3>. QED
      BY <2>2, <3>4 DEF Queue!TakeBack
  <2>5. CASE work[v][o] # "held"
    BY <2>2, <2>3, <2>5 DEF Hands
  <2>. QED
    BY <2>4, <2>5
<1>. QED
  BY <1>1, <1>2 DEF Submit, Complete, Reset, Cancel, Rows, Queue!WorkQueueNext

LEMMA ServerRefines ==
    ASSUME IInv, PickedWasPlaced, NEW v \in Volunteers, ServerStep(v)
    PROVE  [Queue!WorkQueueNext]_<<Placed, Asking, Hands>>
<1> USE DEF table, request
<1>1. CASE SkipLocked(v)
  BY <1>1 DEF SkipLocked, Placed, Asking, Hands
<1>2. CASE FoundUnlocked(v)
  BY <1>2 DEF FoundUnlocked, Placed, Asking, Hands, IInv, TypeOK
<1>3. CASE AcquireProceeds(v)
  BY <1>3 DEF AcquireProceeds, Placed, Asking, Hands, IInv, TypeOK
<1>4. CASE Lock(v)
  BY <1>4, LockGives DEF Queue!WorkQueueNext
<1>5. CASE WidenQuery(v)
  BY <1>5 DEF WidenQuery, Placed, Asking, Hands
<1>6. CASE NoOrder(v)
  <2>1. Queue!GiveNothing(v)
    BY <1>6 DEF NoOrder, Answer, Queue!GiveNothing, Placed, Asking, Hands, IInv, TypeOK
  <2>. QED
    BY <2>1 DEF Queue!WorkQueueNext
<1>10. CASE Merge(v)
  BY <1>10 DEF Merge, Placed, Asking, Hands, IInv, TypeOK
<1>7. CASE Release(v)
  <2>1. /\ cur[v] \in Orders
        /\ ReleaseLock(cur[v])
    BY <1>7 DEF Release, IInv, TypeOK
  <2>2. Placed' = Placed /\ Asking' = Asking
    BY <1>7 DEF Release, Placed, Asking, IInv, TypeOK
  <2>. QED
    BY <2>1, <2>2, ReleaseTakesBack DEF Queue!WorkQueueNext
<1>8. CASE SaveDeleted(v)
  <2>1. Asking' = Asking /\ Hands' = Hands
    BY <1>8 DEF SaveDeleted, Answer, Asking, Hands, IInv, TypeOK
  <2>2. \/ Placed' = Placed
        \/ \E n \in Orders : Placed' = Placed \cup {n}
    <3>1. CASE status' = status
      BY <3>1 DEF Placed
    <3>2. ASSUME NEW n \in Orders, status' = [status EXCEPT ![n] = to[v]]
          PROVE  Placed' = Placed \cup {n}
      BY <3>2 DEF Placed, IInv, TypeOK, Rows
    <3>. QED
      BY <1>8, <3>1, <3>2 DEF SaveDeleted
  <2>. QED
    BY <2>1, <2>2 DEF Queue!WorkQueueNext, Queue!Place
<1>9. CASE Commit(v)
  BY <1>9 DEF Commit, Answer, Placed, Asking, Hands, Exists, IInv, TypeOK, Rows
<1>. QED
  BY <1>1, <1>2, <1>3, <1>4, <1>5, <1>6, <1>7, <1>8, <1>9, <1>10, NeverRefused
  DEF ServerStep

LEMMA OrderRefines ==
    ASSUME IInv, NEW o \in Orders, OrderStep(o)
    PROVE  [Queue!WorkQueueNext]_<<Placed, Asking, Hands>>
<1> USE DEF table, request
<1>1. CASE CreateOrder(o)
  <2>1. Queue!Place(o)
    BY <1>1 DEF CreateOrder, Queue!Place, Placed, Asking, Hands, IInv, TypeOK
  <2>. QED
    BY <2>1 DEF Queue!WorkQueueNext
<1>2. CASE EditOrder(o) \/ DeleteOrder(o)
  BY <1>2 DEF EditOrder, DeleteOrder, Placed, Asking, Hands, Exists, IInv, TypeOK, Rows
<1>3. CASE RemoveLock(o) \/ Expire(o)
  <2>1. ReleaseLock(o) /\ Placed' = Placed /\ Asking' = Asking
    BY <1>3 DEF RemoveLock, Expire, Placed, Asking
  <2>. QED
    BY <2>1, ReleaseTakesBack DEF Queue!WorkQueueNext
<1>. QED
  BY <1>1, <1>2, <1>3 DEF OrderStep

\* With one server process, the queue with its locks, time-outs and stale lists
\* implements the abstract one: what the volunteers' console may rely on.
THEOREM QueueImplementsWorkQueue ==
    ASSUME OneServer
    PROVE  Spec => ImplementsWorkQueue
<1>1. Init => PickedWasPlaced
  BY DEF Init, PickedWasPlaced
<1>2. TypeOK /\ PickedWasPlaced /\ [Next]_vars => PickedWasPlaced'
  BY PickedStep
<1>3. IInv => TypeOK
  BY DEF IInv
<1>4. IInv /\ PickedWasPlaced /\ [Next]_vars
        => [Queue!WorkQueueNext]_<<Placed, Asking, Hands>>
  <2>1. CASE UNCHANGED vars
    BY <2>1 DEF vars, Placed, Asking, Hands
  <2>2. CASE Next
    BY <2>2, ServerRefines, RequestRefines, OrderRefines DEF Next
  <2>. QED
    BY <2>1, <2>2
<1>. QED
  BY <1>1, <1>2, <1>3, <1>4, QueueInit, Inductive, PTL
  DEF Spec, ImplementsWorkQueue, Queue!WorkQueueSpec
=============================================================================
