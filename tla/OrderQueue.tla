------------------------------ MODULE OrderQueue ------------------------------
(***************************************************************************)
(* The volunteers' work queue: DefaultOrderService and RedisLockingService *)
(* of hni-order, called from OrderController, PaymentServiceHelper and     *)
(* OrderServiceHelper.  Volunteers ask for the next open order, work on it *)
(* under a Redis lock that expires, and complete, cancel or reset it.      *)
(*                                                                         *)
(* One instance of the module is the queue of one state code.  The threads *)
(* that serve a volunteer run in the server process JvmOf[v]; the Java     *)
(* monitor of lockAcquired is per process, the Redis lock is shared.       *)
(* Redis calls are atomic; a transaction's write becomes visible when it   *)
(* commits, which is after the lock has been released.  Redis is there:    *)
(* RedisLockingService connects in its constructor, and its branches for   *)
(* redisson == null, in which nothing is ever locked, are left out.        *)
(***************************************************************************)
EXTENDS Naturals

CONSTANTS
    Orders,         \* ids of the orders table
    Volunteers,     \* users of the ordering console, one request each at a time
    Jvms,           \* server processes
    JvmOf,          \* the process that serves a volunteer's requests
    Providers,
    ProviderOf,     \* the provider an order is placed with
    AnyProvider,    \* the missing 'providerId' query parameter
    Free,           \* nobody
    MaxRequests     \* bound: GET /orders/next requests in a behaviour

ASSUME QueueAssumption ==
    /\ JvmOf \in [Volunteers -> Jvms]
    /\ ProviderOf \in [Orders -> Providers]
    /\ AnyProvider \notin Providers
    /\ Free \notin Volunteers
    /\ Free \notin Orders
    /\ MaxRequests \in Nat

VARIABLES
    status,     \* committed column orders.status_id; ABSENT and DELETED: no row
    lock,       \* Redis: holder of the lock "order:<id>"
    monitor,    \* holder of the monitor of DefaultOrderService in each process
    pc,         \* where the request of a volunteer stands
    scope,      \* 'providerId' of the running next() query
    cand,       \* orders of the query's result that are still to be tried
    cur,        \* the order the request is about
    to,         \* the status the request is going to write
    dirty,      \* the merged entity differs from the row, so it is flushed
    work,       \* what a volunteer was handed; ghost: "lapsed" once the lock is gone
    asked       \* counts the next requests, up to MaxRequests

table   == <<status>>
request == <<pc, scope, cand, cur, to, dirty>>
vars    == <<status, lock, monitor, pc, scope, cand, cur, to, dirty, work, asked>>

Rows == {"OPEN", "ORDERED", "CANCELLED"}
Exists(o) == status[o] \in Rows

TypeOK ==
    /\ status \in [Orders -> Rows \cup {"ABSENT", "DELETED"}]
    /\ lock \in [Orders -> Volunteers \cup {Free}]
    /\ monitor \in [Jvms -> Volunteers \cup {Free}]
    /\ pc \in [Volunteers -> {"idle", "pick", "acquire", "lock",
                             "merge", "release", "commit"}]
    /\ scope \in [Volunteers -> Providers \cup {AnyProvider}]
    /\ cand \in [Volunteers -> SUBSET Orders]
    /\ cur \in [Volunteers -> Orders \cup {Free}]
    /\ \A v \in Volunteers : pc[v] \notin {"idle", "pick"} => cur[v] \in Orders
    /\ to \in [Volunteers -> Rows]
    /\ dirty \in [Volunteers -> BOOLEAN]
    /\ work \in [Volunteers -> [Orders -> {"none", "held", "lapsed"}]]
    /\ asked \in 0..MaxRequests

Init ==
    /\ status = [o \in Orders |-> "ABSENT"]
    /\ lock = [o \in Orders |-> Free]
    /\ monitor = [j \in Jvms |-> Free]
    /\ pc = [v \in Volunteers |-> "idle"]
    /\ scope = [v \in Volunteers |-> AnyProvider]
    /\ cand = [v \in Volunteers |-> {}]
    /\ cur = [v \in Volunteers |-> Free]
    /\ to = [v \in Volunteers |-> "OPEN"]
    /\ dirty = [v \in Volunteers |-> FALSE]
    /\ work = [v \in Volunteers |-> [o \in Orders |-> "none"]]
    /\ asked = 0

\* The request of v is over; the rest of its state is of no more use.
Answer(v) ==
    /\ pc' = [pc EXCEPT ![v] = "idle"]
    /\ scope' = [scope EXCEPT ![v] = AnyProvider]
    /\ cand' = [cand EXCEPT ![v] = {}]
    /\ cur' = [cur EXCEPT ![v] = Free]
    /\ to' = [to EXCEPT ![v] = "OPEN"]
    /\ dirty' = [dirty EXCEPT ![v] = FALSE]

-----------------------------------------------------------------------------
(* Redis lock service.                                                     *)

IsLocked(o) == lock[o] # Free

\* The lock of o goes away under the volunteer who held it, if any did.
Lapse(w, o) ==
    [v \in Volunteers |->
        IF lock[o] = v /\ w[v][o] = "held" THEN [w[v] EXCEPT ![o] = "lapsed"]
                                           ELSE w[v]]

\* releaseLock: forceUnlock of a locked key, whoever holds it.
ReleaseLock(o) ==
    /\ lock' = [lock EXCEPT ![o] = Free]
    /\ work' = Lapse(work, o)

\* Mutant: RLock.lock without a TTL.
ExpireNever(o) == FALSE /\ UNCHANGED vars

\* The TTL of the lock runs out.
Expire(o) ==
    /\ IsLocked(o)
    /\ ReleaseLock(o)
    /\ UNCHANGED <<table, monitor, request, asked>>

-----------------------------------------------------------------------------
(* The orders table.                                                       *)

\* save of a new order: status OPEN unless the caller set one.
CreateOrder(o) ==
    /\ status[o] = "ABSENT"
    /\ status' = [status EXCEPT ![o] = "OPEN"]
    /\ UNCHANGED <<lock, monitor, request, work, asked>>

\* POST /orders with an id: the client's copy is merged, whatever its status.
EditOrder(o) ==
    /\ Exists(o)
    /\ \E s \in Rows : status' = [status EXCEPT ![o] = s]
    /\ UNCHANGED <<lock, monitor, request, work, asked>>

\* DELETE /orders/{id}: the row goes, a lock on it stays.
DeleteOrder(o) ==
    /\ Exists(o)
    /\ status' = [status EXCEPT ![o] = "DELETED"]
    /\ UNCHANGED <<lock, monitor, request, work, asked>>

\* with(OPEN, state) and with(provider, OPEN, state); neither orders its result.
OpenOrders(p) ==
    {o \in Orders : status[o] = "OPEN" /\ p \in {AnyProvider, ProviderOf[o]}}

-----------------------------------------------------------------------------
(* GET /orders/next: next(provider, state), then next(state).              *)

RequestNext(v, p) ==
    /\ pc[v] = "idle"
    /\ asked < MaxRequests
    /\ asked' = asked + 1
    /\ scope' = [scope EXCEPT ![v] = p]
    /\ cand' = [cand EXCEPT ![v] = OpenOrders(p)]
    /\ pc' = [pc EXCEPT ![v] = "pick"]
    /\ UNCHANGED <<table, lock, monitor, cur, to, dirty, work>>

\* lockAcquired enters the monitor, finds the order locked and leaves again.
SkipLocked(v) ==
    /\ pc[v] = "pick"
    /\ monitor[JvmOf[v]] = Free
    /\ \E o \in cand[v] :
         /\ IsLocked(o)
         /\ cand' = [cand EXCEPT ![v] = @ \ {o}]
    /\ UNCHANGED <<table, lock, monitor, pc, scope, cur, to, dirty, work, asked>>

\* Mutant: lockAcquired is not synchronized.
FoundUnlockedOutside(v) ==
    /\ pc[v] = "pick"
    /\ \E o \in cand[v] :
         /\ ~IsLocked(o)
         /\ cur' = [cur EXCEPT ![v] = o]
    /\ monitor' = [monitor EXCEPT ![JvmOf[v]] = v]
    /\ pc' = [pc EXCEPT ![v] = "acquire"]
    /\ UNCHANGED <<table, lock, scope, cand, to, dirty, work, asked>>

\* Mutant: lockAcquired does not ask isLocked.
FoundAnyway(v) ==
    /\ pc[v] = "pick"
    /\ monitor[JvmOf[v]] = Free
    /\ \E o \in cand[v] : cur' = [cur EXCEPT ![v] = o]
    /\ monitor' = [monitor EXCEPT ![JvmOf[v]] = v]
    /\ pc' = [pc EXCEPT ![v] = "acquire"]
    /\ UNCHANGED <<table, lock, scope, cand, to, dirty, work, asked>>

\* lockAcquired enters the monitor, finds the order unlocked and goes on.
FoundUnlocked(v) ==
    /\ pc[v] = "pick"
    /\ monitor[JvmOf[v]] = Free
    /\ \E o \in cand[v] :
         /\ ~IsLocked(o)
         /\ cur' = [cur EXCEPT ![v] = o]
    /\ monitor' = [monitor EXCEPT ![JvmOf[v]] = v]
    /\ pc' = [pc EXCEPT ![v] = "acquire"]
    /\ UNCHANGED <<table, lock, scope, cand, to, dirty, work, asked>>

\* lockAcquired returns true: next() returns the order to the volunteer.
HandOut(v) ==
    /\ work' = [work EXCEPT ![v][cur[v]] = "held"]
    /\ monitor' = [monitor EXCEPT ![JvmOf[v]] = Free]
    /\ Answer(v)

\* acquireLock sees the lock taken and returns false, which lockAcquired ignores.
AcquireRefused(v) ==
    /\ pc[v] = "acquire"
    /\ IsLocked(cur[v])
    /\ HandOut(v)
    /\ UNCHANGED <<table, lock, asked>>

\* Mutant: the lock is acquired outside the synchronized method.
AcquireProceedsOutside(v) ==
    /\ pc[v] = "acquire"
    /\ ~IsLocked(cur[v])
    /\ pc' = [pc EXCEPT ![v] = "lock"]
    /\ monitor' = [monitor EXCEPT ![JvmOf[v]] = Free]
    /\ UNCHANGED <<table, lock, scope, cand, cur, to, dirty, work, asked>>

\* acquireLock sees the lock free and calls RLock.lock.
AcquireProceeds(v) ==
    /\ pc[v] = "acquire"
    /\ ~IsLocked(cur[v])
    /\ pc' = [pc EXCEPT ![v] = "lock"]
    /\ UNCHANGED <<table, lock, monitor, scope, cand, cur, to, dirty, work, asked>>

\* RLock.lock(ttl) blocks, inside the monitor, until the lock is free.
Lock(v) ==
    /\ pc[v] = "lock"
    /\ ~IsLocked(cur[v])
    /\ lock' = [lock EXCEPT ![cur[v]] = v]
    /\ HandOut(v)
    /\ UNCHANGED <<table, asked>>

\* No order of the provider could be locked: query again without the provider.
WidenQuery(v) ==
    /\ pc[v] = "pick"
    /\ cand[v] = {}
    /\ scope[v] # AnyProvider
    /\ scope' = [scope EXCEPT ![v] = AnyProvider]
    /\ cand' = [cand EXCEPT ![v] = OpenOrders(AnyProvider)]
    /\ UNCHANGED <<table, lock, monitor, pc, cur, to, dirty, work, asked>>

\* next() returns null: 204 No Content.
NoOrder(v) ==
    /\ pc[v] = "pick"
    /\ cand[v] = {}
    /\ scope[v] = AnyProvider
    /\ Answer(v)
    /\ UNCHANGED <<table, lock, monitor, work, asked>>

-----------------------------------------------------------------------------
(* complete, reset and cancelOrder.                                        *)

\* cancelOrder unlocks the order before it merges it, the others after.
UnlocksFirst(s) == s = "CANCELLED"

\* Mutant: the request goes on without the order.
LoadNothing(v, o, s) ==
    /\ pc[v] = "idle"
    /\ to' = [to EXCEPT ![v] = s]
    /\ work' = [work EXCEPT ![v][o] = "none"]
    /\ pc' = [pc EXCEPT ![v] = IF UnlocksFirst(s) THEN "release" ELSE "merge"]
    /\ UNCHANGED <<table, lock, monitor, scope, cand, cur, dirty, asked>>

\* orderService.get(id); the volunteer is through with the order.
LoadOrder(v, o, s) ==
    /\ pc[v] = "idle"
    /\ Exists(o)
    /\ cur' = [cur EXCEPT ![v] = o]
    /\ to' = [to EXCEPT ![v] = s]
    /\ work' = [work EXCEPT ![v][o] = "none"]
    /\ pc' = [pc EXCEPT ![v] = IF UnlocksFirst(s) THEN "release" ELSE "merge"]
    /\ UNCHANGED <<table, lock, monitor, scope, cand, dirty, asked>>

Complete(v, o) == LoadOrder(v, o, "ORDERED")
Reset(v, o)    == LoadOrder(v, o, "OPEN")
Cancel(v, o)   == LoadOrder(v, o, "CANCELLED")

\* merge reads the row again.  The entity is written if any column differs: the
\* status, or one that was changed since (the confirmation id, or an edit's).
Merge(v) ==
    /\ pc[v] = "merge"
    /\ Exists(cur[v])
    /\ \E d \in BOOLEAN :
         /\ (status[cur[v]] # to[v]) => d
         /\ dirty' = [dirty EXCEPT ![v] = d]
    /\ pc' = [pc EXCEPT ![v] = IF UnlocksFirst(to[v]) THEN "commit" ELSE "release"]
    /\ UNCHANGED <<table, lock, monitor, scope, cand, cur, to, work, asked>>

\* The row has gone since it was loaded: merge inserts a copy under a new id,
\* the unlocking of which is of no effect, and the transaction commits.
SaveDeleted(v) ==
    /\ pc[v] = "merge"
    /\ ~Exists(cur[v])
    /\ \/ \E n \in Orders :
            /\ status[n] = "ABSENT"
            /\ status' = [status EXCEPT ![n] = to[v]]
       \/ /\ \A n \in Orders : status[n] # "ABSENT"   \* beyond the bound Orders
          /\ UNCHANGED status
    /\ Answer(v)
    /\ UNCHANGED <<lock, monitor, work, asked>>

\* releaseLock of the order, within the transaction.
Release(v) ==
    /\ pc[v] = "release"
    /\ ReleaseLock(cur[v])
    /\ pc' = [pc EXCEPT ![v] = IF UnlocksFirst(to[v]) THEN "merge" ELSE "commit"]
    /\ UNCHANGED <<table, monitor, scope, cand, cur, to, dirty, asked>>

\* The transaction commits; an update of a row that has gone rolls it back.
Commit(v) ==
    /\ pc[v] = "commit"
    /\ status' = IF dirty[v] /\ Exists(cur[v])
                 THEN [status EXCEPT ![cur[v]] = to[v]]
                 ELSE status
    /\ Answer(v)
    /\ UNCHANGED <<lock, monitor, work, asked>>

\* DELETE /orders/lock/{id}
RemoveLock(o) ==
    /\ Exists(o)
    /\ ReleaseLock(o)
    /\ UNCHANGED <<table, monitor, request, asked>>

-----------------------------------------------------------------------------
\* The steps of a request that the server takes by itself.
ServerStep(v) ==
    \/ SkipLocked(v) \/ FoundUnlocked(v)
    \/ AcquireRefused(v) \/ AcquireProceeds(v) \/ Lock(v)
    \/ WidenQuery(v) \/ NoOrder(v)
    \/ Merge(v) \/ SaveDeleted(v) \/ Release(v) \/ Commit(v)

Submit(v) ==
    \/ \E p \in Providers \cup {AnyProvider} : RequestNext(v, p)
    \/ \E o \in Orders : Complete(v, o) \/ Reset(v, o) \/ Cancel(v, o)

OrderStep(o) ==
    CreateOrder(o) \/ EditOrder(o) \/ DeleteOrder(o) \/ RemoveLock(o) \/ Expire(o)

Next ==
    \/ \E v \in Volunteers : ServerStep(v) \/ Submit(v)
    \/ \E o \in Orders : OrderStep(o)

Spec == Init /\ [][Next]_vars

\* A request that can go on does, and a Redis TTL runs out.  Nothing is assumed
\* of the volunteers, nor of the order in which a Java monitor admits threads.
Fairness ==
    /\ \A v \in Volunteers : WF_vars(ServerStep(v))
    /\ \A o \in Orders : WF_vars(Expire(o))

FairSpec == Spec /\ Fairness

-----------------------------------------------------------------------------
(* Properties.                                                             *)

\* Two volunteers work on one order only if the lock of at least one of them
\* has expired or was taken away (GET /orders/next, OrderController).
OneHolder ==
    \A o \in Orders : \A v, w \in Volunteers :
        work[v][o] = "held" /\ work[w][o] = "held" => v = w

\* A volunteer who is at work on an order, and whose lock has not lapsed, is the
\* holder of its Redis lock: nobody else's next() can pick it (lockAcquired).
WorkIsLocked ==
    \A o \in Orders : \A v \in Volunteers : work[v][o] = "held" => lock[o] = v

\* The monitor of lockAcquired is held exactly by the request inside it, so the
\* check of the lock and its acquisition are one step for the process.
MonitorHeld ==
    \A v \in Volunteers : pc[v] \in {"acquire", "lock"} <=> monitor[JvmOf[v]] = v

\* No volunteer but the one inside the monitor takes an order's lock: what
\* FoundUnlocked saw still holds when acquireLock looks again and locks.
UnlockedInside ==
    \A v \in Volunteers : pc[v] \in {"acquire", "lock"} => ~IsLocked(cur[v])

\* next() "returns an uncompleted order": nobody has completed what it hands out.
HandsOutUncompleted ==
    [][\A v \in Volunteers, o \in Orders :
          work[v][o] # "held" /\ work'[v][o] = "held" => status[o] # "ORDERED"]_vars

\* The abstract queue, seen in the state of this one: an order is in the hands of
\* those whose lock on it has not lapsed.
Placed == {o \in Orders : status[o] # "ABSENT"}
Asking == {v \in Volunteers : pc[v] \in {"pick", "acquire", "lock"}}
Hands  == [o \in Orders |-> {v \in Volunteers : work[v][o] = "held"}]

Queue == INSTANCE WorkQueue WITH placed <- Placed, asking <- Asking, hands <- Hands

\* With one process, lists read too early, locks that are waited for and locks that
\* lapse come to this: an order is given to one volunteer who asked, when it is in
\* nobody's hands, and each request for an order gets one answer (GET /orders/next).
ImplementsWorkQueue == Queue!WorkQueueSpec

\* A request for the next order is answered, also when RLock.lock blocks inside the
\* monitor and the process's other requests wait behind it: the locks it waits for
\* run out.  Requests are bounded, so that no volunteer is overtaken for ever by
\* later ones: Java's monitors promise no order.
NextAnswers ==
    \A v \in Volunteers : pc[v] \in {"pick", "acquire", "lock"} ~> pc[v] = "idle"
=============================================================================
