# Verification of hungry

hungry lets people in need order a meal by text message. Volunteers at a web
console take the orders one by one, place each with the restaurant, pay with a
gift card of the restaurant and complete or cancel the order. The server is a set of
Spring services behind REST controllers; it keeps its tables in MySQL through
Hibernate and its locks in Redis through Redisson.

This directory holds TLA+ models of the parts of that server in which the order of steps
matters, TLC runs that check them on small instances, and TLAPS proofs of the
results that hold for all instances. Paths below are relative to the repository;
`order/service/X` stands for `hni-order/src/main/java/org/hni/order/service/X.java`,
and so on.

## 1. Inventory

| Component | State it keeps | Operations | Talks to | What makes it correct |
|---|---|---|---|---|
| **Order queue and order lock** (`order/service/DefaultOrderService`, `RedisLockingService`, `OrderController`) | `orders.status_id`; Redis keys `order:<id>` with a TTL of 20 minutes; the Java monitor of `lockAcquired` | `next`, `complete`, `reset`, `cancelOrder`, `releaseLock`, `save`, `delete` | controllers, payment helpers, Redis | an order is in one volunteer's hands at a time, is not handed out once it is completed, comes back when its volunteer leaves it, and every request for an order is answered |
| **Ordering dialog** (`order/service/DefaultOrderProcessor`, `OrderServiceHandler`) | one row of `partial_orders` per dialog, with lists of locations and items | `processMessage`: keywords and replies in six phases | geocoder, provider locations, SMS, order queue | each phase finds what an earlier one must have stored, an order is what was confirmed, one order for a dialog, the daily allowance |
| **Card payments** (`payment/service/DefaultOrderPaymentService`, `PaymentServiceHelper`, `OrderServiceHelper`, `PaymentController`) | `order_payments` with a status, the balance of `payment_instruments`, Redis card locks with a TTL of 5 minutes | `paymentFor`, `completeOrder`, `cancelOrder`, reset, `assignPayment` | order queue, gift cards, audit | no charge is lost, a card pays for one order at a time, completed orders are paid and cancelled ones are not |
| **Gift cards** (`GiftCardServiceHelper`, `DefaultGiftCardService`) | `payment_instruments`, `hni_audit` | create, edit, recharge, activate, deactivate | card payments | balances account for every recharge and charge; serial numbers are unique |
| **Registration dialogs and event router** (`events/service`) | a route per phone in `event_state`, sessions in a HashMap of the process | `handleEvent`, the steps of `RegisterService`, `createUserForSmsChannel` | invitations, users, ordering dialog | a session ends in one user with the e-mail address it confirmed; a reply that completes the enrolment makes a user; a lost session can start again |
| **Activation codes** (`security/service/DefaultActivationCodeService`) | `activation_codes`, a static counter | `saveActivationCodes`, look-ups | registration at the web page | a code is in the table once, so that a look-up finds one entry; the codes of a registration are saved all or none |
| **Onboarding and invitations** (`user/service/DefaultUserOnboardingService`) | `invitation`, clients, volunteers | invite, look up by phone and by code, finalize; forms | organizations, users, e-mail | an invitation that is used up made a user |
| **Organizations and their users** (`organization/service`) | `user_organization_role`, user status | register with a role, give and remove roles, lock | users, payments | an organization's first NGO user, and no other, is its administrator |
| **Providers, locations, menus** (`provider/service`) | their tables | create, read, update, delete; nearest locations with a current menu | dialog, card payments | what a dialog offers can be ordered |
| **SMS** (`sms/service`) | none | send, push to volunteers | every dialog | |
| **Users, tokens, authentication** (`security`) | users, secrets | look-ups, tokens | every controller | |
| **Configuration, reports, audit** | audit rows; users and clients (`ConfigurationServiceHelper`) | queries; activate, deactivate, delete and shelter a user | users | |
| **Card loader**, **schema**, **web client** | | batch input, declarations, a built page | | |

What is hard about it:

* Requests run in parallel threads, and several server processes may share one Redis.
  `lockAcquired` is `synchronized`, which excludes only the threads of one process.
* The locks have a TTL, can be forced open by anybody, and `RLock.lock` blocks.
* Each call of a service is a transaction. Entities are detached in between, carried
  from one transaction to the next, and written back with all of their columns; there is no
  version column. Locks are released before the transaction that changes the row commits.
* A dialog's state is one row that two messages can read and write at once.
* Registration sessions are in memory and go with the process. They are not part of the transaction
  that reads and writes everything else, so they are neither isolated from other threads nor rolled back.
* Registration at the web page is a chain of transactions with a static counter in the middle, and may fail between any two of them. It may write over the row of an existing user,
  and what it decides a role by is edited by other requests.

`PROJECT.json` lists these hazards at the lines where they bite, with the properties
that are about them.

## 2. Plan

Done, in this order, the most important behaviour first:

1. `OrderQueue` and its proofs: every meal passes through it and it holds the
   system's only real concurrency protocol.
2. `OrderDialog` and its proofs: the longest protocol between a user and the system. Some results hold
   for any number of handlers (`OrderDialogProofs`), the others for one (`OrderDialogSequentialProofs`).
3. `CardPayments` and its proofs: the only part that handles money.
4. `WorkQueue` and `CardLedger`, what the order queue and the card payments promise; `OrderQueue` and
   `CardPayments` implement them, which is checked and proved.
5. `Enrollment`: enrolling by text message, with concurrent messages, rollbacks, lost sessions, lapsed
   invitations and restarts; `Registration`: the web page, next to it on the same users and invitations; and
   the proofs of both.

Next:

6. Proofs: `OneOrderPerCard` and the account book where some requests stop half-way; the refinement
   of `WorkQueue` without the assumption that there is one server process, for orders that only one of them serves.
7. The dependants and profiles of clients, as far as requests about them interact.

Modules to be proved about use recursive functions or folds, never RECURSIVE operators.

## 3. The modules

| Module | Models | Proofs | Instances |
|---|---|---|---|
| `OrderQueue` | the order queue and the order lock | `OrderQueueProofs` | `MCOrderQueue` |
| `WorkQueue` | abstract: what the order queue promises | `OrderQueueProofs` | |
| `OrderDialog` | the text-message ordering dialog | `OrderDialogProofs`, `OrderDialogSequentialProofs` | `MCOrderDialog` |
| `CardPayments` | paying with gift cards, and editing them | `CardPaymentsProofs`, `CardLedgerProofs` | `MCCardPayments` |
| `CardLedger` | abstract: what paying with gift cards promises | `CardLedgerProofs` | |
| `Enrollment` | the event router, the ENROLL dialog, invitations | `EnrollmentProofs` | `MCEnrollment` |
| `Registration` | `Enrollment` and the web page: roles, activation codes | `RegistrationProofs` | `MCRegistration` |

`SumFacts` is a library of facts about sums over finite sets, which the proofs of `CardPayments` need.

The map in `PROJECT.json` gives the lines each definition stands for. Definitions whose
comment begins with "Mutant:" are not part of a specification: each is a plausible
bug in the definition below it, and stands in for it when the properties are tested.

### OrderQueue

State: `status` is the committed `orders.status_id`, with `ABSENT` and `DELETED` for
an id that has no row; `lock` is the Redis lock `order:<id>`, and `monitor` the monitor
of `DefaultOrderService` in each process. `pc`, `scope`, `cand`, `cur`, `to` and `dirty` are the local
state of the request a volunteer's browser is waiting for. `work` is a ghost: what a volunteer
was handed, "lapsed" once the lock is gone. The orders are those of one state code.

`GET /orders/next` is `RequestNext` (the query), then `SkipLocked` or `FoundUnlocked` for one order
after the other, inside the monitor. `acquireLock` looks again (`AcquireRefused`,
`AcquireProceeds`) and then calls `RLock.lock`, which waits (`Lock`). `WidenQuery` is the second query
without the provider and `NoOrder` the answer 204. The queries have no ORDER BY, so the
candidates are a set. `complete`, `reset` and `cancelOrder` are `LoadOrder`, then
`Merge` and `Release` inside the transaction, and `Commit`; `SaveDeleted` is what
`merge` does with an order that was deleted in between. `cancelOrder` releases the lock before it
merges, the others after (`UnlocksFirst`); all of them before the commit, which is all another request can see. `Expire` is the TTL; `RemoveLock`,
`CreateOrder`, `EditOrder` and `DeleteOrder` are the other requests that touch an order or a lock.

Redis is there: the branches of `RedisLockingService` for `redisson == null`, in which nothing is ever locked, are left
out. The constructor connects, or the process does not start.

`WorkQueue` says what all this is for: a volunteer who asks is given one order that is in nobody's
hands, or none, and an order can be taken back at any time. The refinement mapping is `Placed`,
`Asking` and `Hands`; `FoundUnlocked` and the rest of a request are stutters, except the step that answers it.

### OrderDialog

State: `partials` are the rows of `partial_orders`, `lastPid` the table's
AUTO_INCREMENT, `orders` what was placed, `current` whether a location's menu is
current, and `tx` what the transaction of each handler has read (`base`) and will write
(`row`). A handler reads the user's row in `StartDialog` or `ContinueDialog`, and
`Commit` writes what has changed: Hibernate writes all plain columns if one of them changed, the address
included (`AddressChanges`), and each collection only if that collection changed (`Written`). `named` and `again` are
ghosts: the meal and provider of the last REPLY_CONFIRM_ORDER, and whether the user was sent back to choose a location
by answering "how many" with less than one. If the row has gone the commit is
rolled back, and a CONFIRM's order with it (`TakesEffect`).

Each phase has an operator that maps message and row to the row that is saved:
`RequestingMeal`, `FindNearbyMeals`, `ChooseLocation`, `ChooseItem`,
`HandleMultipleOrders`, `Redo`. The geocoder and the database decide which locations are near,
so `FindNearbyMeals` gives a set. Reply texts are left out except where building one
throws. Keywords are compared as they are; a text that is not a number is handled as 0 is,
which is what each handler does with it.

The lists of a dialog are stored as the entity `PartialOrder` declares them. The primary keys on `id` alone of
`partial_orders_menu_items` and `partial_orders_provider_locations` (`schema.sql:472-475`, `496-499`), with which a dialog
could be offered one item and one location only, are not modelled.

### CardPayments

State: `card`, `order` and `payment` are rows; `lock` is the Redis lock of a card; `req`
is the request a worker thread is at, with the copies of rows it holds. `loaded` and `charged`
are ghosts that sum up recharges and charges. One instance is the cards of one provider in one
state.

`paymentFor` is `Pay`, `Read` (payments and cards), `SkipCard` or `TryCard` for one card after the other,
`LockCard` (`RLock.lock`, which waits) and `Grant` (the payment is saved with status IP).
`completeOrder` is `Complete`, `Read`, then `Charge` and `Mark` for each payment and `SaveCompleted`: each
a transaction of its own, which writes the copies of `Read`. `cancelOrder` and reset are `SaveFirst`,
`Read`, `Mark` for each payment and `Done`. The edits of gift cards are `LoadCard` and
`EditCard`. `Fail` stops any request between two of its transactions.

`Disciplined` is an assumption about the environment that a run or a theorem may make:

* a request about an order starts only when the order is open and no other request is
  about it. This is what the order lock is for, as long as the volunteer does not outlive it
  (`OneHolder` of `OrderQueue`), and what the console offers, which takes an order off the
  screen once it is done with. The server does not enforce it.
* the lock of a card lapses only when its payment no longer waits to be charged, and while
  every request in progress is waiting for a lock: people take less than the five minutes.

`CardLedger` is the account book: a card is put down for one order at a time, and each amount is either taken
from the card, once and in full, or withdrawn before the order is closed. Under the mapping `Balance`,
`Due` and `Fate`, `Grant` is `PutDown`, `Charge` is `Take`, `Mark` of a cancelled order is `Withdraw`, and the
step in which a request about an order ends is `Close`.

Not modelled: `assignPayment`, whose payments have no status while the column
`order_payments.status` is NOT NULL, so that its transaction is rolled back;
`paymentFor(order, provider, amount, user)` and its Redis cache, which nothing calls; audit
rows, which nothing reads back; the deletion of orders and the creation of cards.

### Enrollment

State: `users` (in the order of their ids, with unique e-mail addresses), `invitation` and `route` (`event_state`) are
committed rows, `held` the addresses of rows that are written and not committed; `session` is the HashMap
`registrationStateMap`. `job` is the message that a thread is at, with what its transaction has read. `confirmed` and
`raced` are ghosts.

`EventRouter.handleEvent` is one transaction. `Receive` is its start: it looks at the route, the keyword and, for
ENROLL, the invitation. Under REPEATABLE READ what the transaction reads later is as of then, so `Receive`
notes the newest valid invitation and the taken addresses. `InsertRoute` is the insert of a new route, which waits for
another transaction's and fails if that has committed. `GetSession`, `BeginSession` and `PutSession` are calls of
the HashMap, visible at once; `Perform` is `performWorkFlowStep`, whose `switch` is `NextSession`;
names and addresses are refused from a phone number that `UserService.validate` does not take (not in `TenDigits`). I ACCEPT leads
to `RefuseUser` or `InsertUser`, or to `LoseUser`, when the organization of the invitation has been deleted: `register` returns null, which nobody looks at; the `@Transactional` of `register` is nested in the router's, so an insert that fails
rolls all of it back, although `registerUserAndSetActivationCodes` catches the exception. `Commit` makes the rest
visible. `LoseSession` is the HashMap under two writers, `Restart` the end of the process.

A message that another server process handles finds no session, as after a restart, but is not modelled beyond that.
Texts are the keywords, 1, 2, I ACCEPT, PRIVACY, the empty text and texts that pass for e-mail addresses;
"none" passes for one in the code, which stores it and looks it up like any other. HUNGRY leads to `DispatchMeal`,
which stands for the whole of `OrderDialog`. GIVE and DONATE have no service: the exception rolls back the one
change they make.

### Registration

Adds the requests that threads serve (`form`), the static `counter` (None: `NEXT_ACTIVATION_CODE` is false), the rows
`codes`, and the roles of `users` in one organization. Nothing is asked of a request to register (`Submit`): it may name any invitation or none,
and any user's row or a new one. It goes through the transactions of `registerUser`: `InsertWebUser` and `CommitWebUser`
(`register`, with `RoleFor`), the activation codes of a client, and `Finalize`. A body with an id writes over that user's row (`WrittenOver`),
e-mail address, telephone number and all. `Fail` ends a request wherever it stands: what its open transaction wrote is rolled back, what it has
committed stays. The code has many ways there: an address that is taken, additionalInfo without a number of dependants
(`UserServiceController:254`), a text in the table that `parseInt` refuses, a missing organization, the database.

`++ACTIVATION_CODE_START_IDX` is `ReadCounter` and `TakeCode`, and setting it from the table `ReadTable` and `SetCounter`, with any other thread in
between. The last code of the table is the greatest as a text (`TextBefore`, `LastCodes`), as `SELECT max` over a
varchar is. Codes are numbers up to `MaxInt`; a text that is no number, such as `7h-...` in `test-data.sql`, is one of the reasons to
`Fail`. `OldCodes` are in the table at first.

`GiveRole`, `RemoveRoles` and `SaveUser` are the requests that edit users and their roles beside all this: PUT and DELETE of roles,
`lock`, and the pages where users are saved. They are one transaction each. `granted` counts the administrators that were
made by hand and `by` remembers how a row was written last; both are ghosts.

`RestartAll` is `Restart` for both ways to register: requests end where they are, and the counter is gone. `Busy` bounds
how many threads are served at once. The model begins with an organization in which nobody has a role; the one of
`test-data.sql` that has NGO users and no administrator is what `RemoveRoles` leads to.

## 4. The runs

All runs have `CHECK_DEADLOCK FALSE`: when the bounds are used up, and nobody sends anything more, the
system rests. Every action of a specification occurs in a passing run.

| Run | Instance | Checks |
|---|---|---|
| `queue_one_server` | 2 volunteers, 2 orders of 2 providers, 1 process, 3 requests for an order; any number of other requests | `TypeOK`, `OneHolder`, `WorkIsLocked`, `MonitorHeld`, `UnlockedInside`, `ImplementsWorkQueue` |
| `queue_liveness` | 3 volunteers, two of them served by one process and one by another, 1 order, 3 requests for an order, with fairness | `NextAnswers` |
| `queue_two_servers` | 2 volunteers in 2 processes | `OneHolder` is violated |
| `queue_stale_list` | 1 process | `HandsOutUncompleted` is violated |
| `dialog_sequential` | 1 user with 2 meals a day, 1 handler, 2 locations with different menus, 3 dialogs | `TypeOK`, `PhaseHasItsData`, `OrdersAreComplete`, `OneDialogPerUser`, `OrderIsAsConfirmed`, `DailyAllowance` |
| `dialog_concurrent` | 1 user, 2 handlers, 2 dialogs, 2 orders | `OneOrderPerDialog` |
| `dialog_restart` | 1 user with 2 meals a day, 2 locations | `PreviousChoicesCleared` is violated |
| `cards_disciplined` | 3 orders, 2 cards, 3 workers, 7 requests, `Disciplined` | `NothingLost`, `OneOrderPerCard`, `CompletedIsPaid`, `CancelledIsUnpaid`, `ImplementsCardLedger` |
| `cards_sequential` | 2 orders, 2 cards, 1 worker, all edits, 4 requests of which one fails, not `Disciplined` | `TypeOK`, `NothingLost` |
| `enroll` | 1 phone, 2 threads, 2 e-mail addresses, 1 invitation, 1 restart | `EnrollTypeOK`, `OneUserPerPhone`, `UserAsConfirmed` |
| `registration` | 2 threads for the page, 1 invitation, 2 codes for each client, 1 restart; either 1 phone with 1 thread for its messages, 1 e-mail address and 1 request of the page, or no text messages, 2 e-mail addresses, 2 requests and 1 edit by hand; 2 threads at a time | `TypeOK`, `ActivatedHasUser`, `CodeOfOneUser`, `OneAdministrator`, `ClientHasCodes` |
| `enroll_accept` | 2 phones, 1 thread, nobody has an e-mail address | `AcceptEnrolls` is violated |

What the passing runs show is in their `about` in `PROJECT.json`. Why the bounds suffice:

* Queue: a race needs two volunteers and one order; the second order gives `SkipLocked` and
  the merge of a deleted row something to go to, and the second provider gives `WidenQuery` a reason. Three
  requests let a volunteer come back after a lock has lapsed. `OrderQueueProofs`
  removes the bounds for the safety properties.
* Dialog: users do not share rows, so one user is enough. Two locations with different menus are needed
  to see an item of the wrong menu, and two or three items selected to see a wrong count.
  `MaxChoices` is 1 or so in place of 5, so that menus are longer and shorter than the limit.
* Cards: three orders compete for two cards, of which the second does not cover an order, so that one always waits. Seven
  requests are enough for two orders to get a card each and be completed while the third comes in, or for one
  to get both cards. Balances start at 5 and 1, subtotals at 2.
* Queue, liveness: a request can block in `RLock.lock` only if another process took the order's lock, and another request
  waits for its monitor only if it is of the same process: hence three volunteers and two processes.
* Enrolment: dialogs of different phones meet in the users' addresses only, so `enroll` has one phone and the web page of
  `registration` is the other party, with the one address that they compete for; `enroll_accept` has two phones. Two addresses are needed for a session that changes
  its address, and for a second user. One restart, because what is left after it is a state
  that another restart leads back to.
* Activation codes: two for each client, the fewest that `registerUser` gives out, so that another request, or the end of the
  process, can come between them.
* `registration` is two instances in one (`TextsOrEdits` of `MCRegistration`): text messages beside the page, and the page by itself with
  edits by hand. Two requests and one edit are enough for a user to become administrator, lose the role and the next to become it,
  and for two clients to take codes before and after a restart. With both at once, and with a third request, the states are too many for
  TLC; `RegistrationProofs` removes all bounds, on the digits of the codes too, which these two requests do not reach.

**Fairness.** `FairSpec` assumes weak fairness of `ServerStep` for each volunteer (a thread that can go
on does) and of `Expire` for each lock (Redis lets a TTL run out). Nothing is assumed of volunteers, and nothing of
the order in which a monitor admits threads: weak fairness of `ServerStep` alone would let a thread starve
at the monitor if requests never ended, but a behaviour has at most `MaxRequests` of them, as the console of
a volunteer sends one at a time. `NextAnswers` is therefore about blocking, not about starvation by
an endless stream of others.

## 5. Findings

| Run | The code | What the repository says |
|---|---|---|
| `queue_two_servers` | `lockAcquired` ignores the result of `acquireLock`; two processes hand out the same order | "obtaining a lock on it so others cannot work on it at the same time" (`OrderController:121`) |
| `queue_stale_list` | `next` does not look at the status again after it has locked an order, and `complete` unlocks before it commits | "Returns an uncompleted order" (`DefaultOrderService:82`) |
| `dialog_restart` | after "how many" was answered with less than one the item selected before is ordered too | "clear out previous choices" (`DefaultOrderProcessor:324`) |
| `enroll_accept` | the e-mail address is looked up three replies before it is inserted, and no reply leads back from the last step; "none" can be taken like any address | "reply I ACCEPT to complete your enrollment" (`RegisterService:73`) |

Seen while modelling, and not run:

* the code that would empty the earlier cards of an order is commented out
  (`DefaultOrderPaymentService:151`) under a comment that says it does so (line 135);
* a second completion charges the cards a second time;
* a card is read before `RLock.lock` waits for it, so one that was emptied meanwhile may be handed out
  (`DefaultOrderPaymentService:157`);
* nothing unlocks the card of a cancelled order before its five minutes are over (`OrderServiceHelper:55`);
* two messages handled at once may start two dialogs, and so order more than a day's allowance
  (`DefaultOrderProcessor:129`);
* the order lock's TTL is 20 minutes where a comment says 15;
* two NGO users who register at once both become administrators: `OneAdministrator` exempts them;
* activation codes are given out twice when two requests set and increment the static counter at once
  (`DefaultActivationCodeService:83-87`), and when a process reads the table after 1000000 was given out: the maximum of a varchar column is
  then 999999 (`DefaultActivationCodeDAO:49`). `CodeOfOneUser` exempts both. `getByActivationCode` takes a `getSingleResult`; the
  schema of the tests has a unique key (`h2-schema.sql:204`), the main one has not;
* when the administrator of an organization is removed by hand its NGO users have none, and the next one to register becomes it
  (`DefaultOrganizationUserService:144`);
* a client whose additionalInfo has no number of dependants is committed without activation codes, and cannot register again with the same
  address (`UserServiceController:254`);
* deactivating or deleting a user notifies the user that open orders are cancelled, and leaves them open
  (`cancelOpenOrdersIfExists` of `ConfigurationServiceHelper`).

## 6. The proofs

`OrderQueueProofs`, for any orders, volunteers, providers and processes:

* `TypeCorrect`: the type invariant. `MonitorKept`: `MonitorHeld`, in every process.
* `UnlockedStays`, `WorkLocked`, `OneVolunteerPerOrder`: with one server process
  (`OneServer`), the queue gives an order to one volunteer at a time. `OneHolder` is not
  inductive: a second volunteer might be about to lock the order. The inductive invariant is

      IInv == TypeOK /\ MonitorHeld /\ UnlockedInside /\ WorkIsLocked

  A volunteer at work holds the lock (`WorkIsLocked`). `Lock` keeps this because the order it locks was unlocked
  all the time since `FoundUnlocked` (`UnlockedInside`), which holds because nobody else
  can be in the same place: they would hold the same monitor (`MonitorHeld`, `OneServer`). Without
  `OneServer` the step fails, and `queue_two_servers` is the counterexample.
* `QueueImplementsWorkQueue`: with one server process `OrderQueue` implements `WorkQueue`. Every action maps to a step of
  `WorkQueue` or a stutter; the one that needs `IInv` is `Lock`, which must map to `Give`: nobody holds the order
  (`WorkIsLocked` and `UnlockedInside`), and it was placed (`PickedWasPlaced`: what a request considers was in the
  table when it was listed, and no row goes back to ABSENT).

`OrderDialogProofs`, for any users, menus, allowances, numbers replied and handlers:

* `TypeCorrect`: the type invariant, from one lemma for each phase's handler. It needs that the day's
  meals are finitely many (`MealsTodayType`), for `MaxAllowed` to be a number.
* `OneOrder`: a dialog places one order at most. The inductive invariant adds to `OneOrderPerDialog` that
  a dialog that has placed its order has no row (`PlacedAreGone`) and that no row comes back: ids are given out once
  (`IdsGiven`) and an insert that is pending is the only one of its id (`InsertsAreNew`).

`OrderDialogSequentialProofs`, for any users, menus, allowances and numbers replied, and one handler (`OneHandler`):

* `PhasesHaveTheirData`, `CompleteOrders`, `OneDialog`, `ConfirmedOrders`, `WithinAllowance`: the properties of
  `dialog_sequential`; the last two except users who were sent back by answering "how many" with less than one, for whom
  `dialog_restart` is a counterexample. With two handlers they fail, since a transaction may write a row that another
  one has changed; that is what `OneHandler` excludes. The inductive invariant is

      Sound == RowsGood /\ TxGood /\ OrdersGood /\ OneDialogPerUser /\ DailyAllowance

  `GoodRow` says what each phase leaves in a row for the next, and that what is selected is one meal of the chosen
  provider's menu; `Allowed`, that what is selected may still be ordered today. One lemma for each phase's handler
  shows that it keeps both, `Current`, that a transaction writes the row it has read. `DailyAllowance` needs the day's
  meals after an order, which is a cardinality: `MealsTodayIs`.

`CardPaymentsProofs`, for any orders, cards and workers, under `Disciplined`:

* `CardLocked`, `OneOrderAtATime`: a card that waits to be charged for an order is locked for that
  order, hence waits for one order only. The inductive invariant adds that a request which is about to hand out a
  card has its lock (`GrantIsLocked`), and the shape of requests and payments.

`CardLedgerProofs`, for any orders, cards and workers, is about amounts:

* `TypeCorrect`: the type invariant, for all requests, edits and failures. `TypeInv` adds to `TypeOK` which of its
  copies a request has at each step (`HasItsData`).
* `NothingLostOneAtATime`: with one worker no recharge and no charge is lost, whatever edits there are and wherever
  requests stop. `NothingLost` is not inductive: `Charge` and `EditCard` write a balance from a copy. `Fresh`
  says that the copy is the row as it is.
* `CompletedOrdersArePaid`, `CancelledOrdersAreUnpaid`, `NothingLostOnOneCard`, `CardsImplementLedger`: with
  any number of workers, under `Calm`, which is `Disciplined`, no edits of cards meanwhile and no request that stops
  half-way. The inductive invariant is

      Inv == TypeInv /\ IInv /\ Book

  where `IInv` is the one of `CardPaymentsProofs` and `Book` says what an order's payments and charges are by its status
  while no request is about it (`AtRest`), and by how far its request has got otherwise
  (`InRequests`: the payments in hand are as they were read and nothing has been charged for them, those that are done
  are charged and marked). One order per card, from `IInv`, is what keeps the copies of a request's cards fresh
  while requests about other orders go on. With it the refinement is a case analysis: `Charge` is `Take` because
  the card was put down for this order and not taken yet, and the step that ends a request is `Close` because
  every payment was taken or withdrawn.

`SumFacts`: the sums of the community modules (`MapThenSumSet`) over finite sets are natural numbers, change by as much as
one summand does, and do not depend on what is taken first. The library's induction over finite sets takes an operator, which the
provers cannot instantiate; `SubsetInduction` states it for a set of subsets instead, from which these facts follow.

`EnrollmentProofs`, for any phones, e-mail addresses, threads, invitations and restarts:

* `EnrollTypeCorrect`: the type invariant. An invitation that a thread has noted is in the table, which only grows,
  and the newest valid one exists because a set of numbers with a bound has a greatest (`Greatest`).
* `ConfirmedUsers`: a user who enrolled by text message has the address that the phone confirmed. `UserAsConfirmed` is not inductive: the
  address comes from a session that was confirmed several messages earlier. `Confirmed` adds that every session past
  CONFIRM_EMAIL, in the map (`SessionsConfirmed`) or in a thread's hands (`JobsConfirmed`), is of a confirmed address.
* `OneUser`: one user per phone, as long as the phone's messages are handled one after the other and its
  session is not lost. `OneByOne` says why: the phone has one job (`OneJob`), which has read what the
  map has (`JobHasSession`), and once there is a user the session stays at the last step with that user's address
  (`UserEndsSession`), which is taken. Two users of a phone would have to be where its one session ends.

`RegistrationProofs`, for any phones, threads, e-mail addresses, invitations, codes, edits, failures and restarts; nothing is
assumed of who is served at once:

* `RegistrationTypeCorrect`, `UsedInvitations`, `NgoHasOneAdministrator`, `CodesAreOfOneUser`, `ClientsHaveCodes`: the properties of
  `registration`; `UsersAsConfirmed`: what `EnrollmentProofs` says of text messages stays true next to the
  web page, for rows that it has not written over. The inductive invariant is

      RInv == IInv /\ WebInv
      WebInv == WebTypes /\ Holders /\ Made /\ Admins /\ CodesDiffer /\ CodesCounted

  with the `IInv` of `EnrollmentProofs`. A row of `users` may be written over by several actions, so nothing can be
  said of what is in it except what every writer keeps: rows never go away, nor do the invitations a row registered with (`RowsGrow`,
  `CodesGrow`), and no other row gets an address that somebody has.
  * `Holders`: an address in a row that is written and not committed is held by one transaction of either kind, and no other row has
    it, although a request that writes over a row holds two addresses.
  * `Made` follows a request from `CommitWebUser` to `Finalize`: its user is there with its invitation, and past `CommitCodes` with its codes. `Fail`
    ends the request before it uses the invitation up.
  * `Admins` is about the requests that have looked for an administrator and not committed. One that found none is alone, unless "admins" is in
    `raced`, and there are then at most the administrators made by hand; removing roles only makes fewer. One that found one still
    has one, unless roles were edited.
  * `CodesDiffer`: as long as one request at a time takes codes and no process read a last code that was not the greatest number, the codes a request holds are
    new and differ (`TakesNewCodes`), and the counter is past them and past the table. A failure leaves the counter ahead, a restart
    reads it again.
  * `CodesCounted`: a user's codes are a multiple of `CodesEach`, as each `CommitCodes` brings that many new rows
    (`CodesOfCommitted`, a cardinality).

They assume the assumptions on the constants that the modules state (`QueueAssumption`, `DialogAssumption`,
`CardAssumption`, `EnrollmentAssumption`, `RegistrationAssumption`), of which TLC evaluates each on every run; among them
`NoneIsNoPayment`, `NoneIsNoSession`, `NoneIsNoRow` and `NoneIsNoForm`, which say that `null` is not a row, a session,
a message, a request or a code. Beyond these, each theorem names what it assumes of the environment: `OneServer`,
`OneHandler`, `Disciplined`, `Calm`, or one worker.

Only model-checked: `NextAnswers`, because liveness under fairness is out of the prover's reach. Every other
property of a passing run is a theorem. The runs still say something that the theorems do not: every action
and every branch can happen.

## 7. Not modelled

The forms that NGOs, volunteers and clients fill in once they are registered, dependants, and
the administration of providers are single updates; what of them a modelled step reads is in the model as a change at any time (`ToggleCurrent`, `SaveUser`). The columns that lock, deactivate and
delete set in a row of `users`, which decide who may log in, are left out, as are more organizations than one and
a registration with the id of a user that does not exist. The serial
number of a new gift card is the provider's greatest plus one, which two administrators can be given at once, as the two lines show
without a model. The repository's JavaScript is a vendored build of Swagger UI and its libraries; the program itself is Java.
Authentication, tokens, e-mail, SMS transport, reports, configuration, the card loader and the schema have no
protocol between their operations. Within the modelled parts: reply texts, logging, audit rows,
permissions (a request that is not permitted changes nothing), dates other than today, and the
notification of volunteers, which is a message sent before its order commits and changes no state.
