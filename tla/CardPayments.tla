----------------------------- MODULE CardPayments -----------------------------
(***************************************************************************)
(* Paying for an order with gift cards: DefaultOrderPaymentService of      *)
(* hni-payment, PaymentServiceHelper, OrderServiceHelper and               *)
(* GiftCardServiceHelper of hni-service-helper.  A volunteer who works on  *)
(* an order asks for a card, which is locked in Redis for five minutes,    *)
(* and later completes the order, which charges its cards, or cancels it.  *)
(*                                                                         *)
(* One instance is the cards of one provider in one state.  Each call of a *)
(* service is a transaction of its own; entities are detached in between,  *)
(* so a request goes on with copies of the rows it read.  A write of a     *)
(* copy writes all of its columns.  The order's own lock is in OrderQueue, *)
(* the audit records are left out.                                         *)
(***************************************************************************)
EXTENDS Integers, FiniteSets, FiniteSetsExt

CONSTANTS
    Orders,         \* orders of the provider, none of them deleted
    Cards,          \* rows of payment_instruments
    Workers,        \* threads that serve requests
    SubTotal0,      \* subtotal of an order as it was placed
    Balance0,       \* balance of a card as it was created
    Amounts,        \* recharges, and the amount a volunteer enters at completion
    None, Free,
    Edits,          \* which edits of gift cards the administrators make
    MaxRequests,    \* bound: requests in a behaviour
    MaxFailures,    \* bound: requests that stop half-way in a behaviour
    Disciplined     \* see Allowed and Lapses

ASSUME CardAssumption ==
    /\ IsFiniteSet(Orders)
    /\ IsFiniteSet(Cards)
    /\ SubTotal0 \in [Orders -> Nat \ {0}]
    /\ Balance0 \in [Cards -> Nat]
    /\ Amounts \subseteq Nat \ {0}
    /\ None \notin Orders \cup Cards
    /\ Free \notin Orders
    /\ Edits \subseteq {"activate", "deactivate", "recharge", "update"}
    /\ MaxRequests \in Nat
    /\ MaxFailures \in Nat
    /\ Disciplined \in BOOLEAN

VARIABLES
    card,       \* rows of payment_instruments: balance and status 'A' or 'I'
    order,      \* rows of orders: status and subtotal
    payment,    \* rows of order_payments by order and card; None: no such row
    lock,       \* Redis: the order a card was locked for
    req,        \* the request a worker is at, with the copies it holds
    loaded,     \* ghost: what was put on a card
    charged,    \* ghost: what was taken from a card for an order
    requests,   \* counts requests, up to MaxRequests
    failures    \* counts requests that stopped half-way, up to MaxFailures

table == <<card, order, payment>>
ghost == <<loaded, charged>>
count == <<requests, failures>>
vars  == <<card, order, payment, lock, req, loaded, charged, requests, failures>>

Card    == [balance: Int, active: BOOLEAN]
Order   == [status: {"OPEN", "ORDERED", "CANCELLED"}, subTotal: Nat]
Payment == [amount: Nat, status: {"IP", "C", "CN"}]

\* findOne: null is not a row.
ASSUME NoneIsNoPayment == None \notin Payment

\* What a request is at: card is the one it holds, todo those that remain.
Idle == [op |-> "idle", about |-> None, at |-> "idle", copy |-> None,
         cards |-> None, payments |-> None, todo |-> {}, card |-> None]

Request ==
    [op: {"idle", "pay", "complete", "cancel", "reset", "edit"},
     about: Orders \cup Cards \cup {None},
     at: {"idle", "loaded", "saved", "trying", "lock", "grant", "charge", "mark"},
     copy: Order \cup Card \cup {None},
     cards: [Cards -> Card] \cup {None},
     payments: [Cards -> Payment \cup {None}] \cup {None},
     todo: SUBSET Cards,
     card: Cards \cup {None}]

About(w, o) == req[w].op # "edit" /\ req[w].about = o
Busy(o) == \E w \in Workers : About(w, o)

Sum(payments) ==
    MapThenSumSet(LAMBDA c : payments[c].amount, {c \in Cards : payments[c] # None})

InProgress(o, c) == payment[o][c] # None /\ payment[o][c].status = "IP"

TypeOK ==
    /\ card \in [Cards -> Card]
    /\ order \in [Orders -> Order]
    /\ payment \in [Orders -> [Cards -> Payment \cup {None}]]
    /\ lock \in [Cards -> Orders \cup {Free}]
    /\ loaded \in [Cards -> Nat]
    /\ charged \in [Orders -> [Cards -> Nat]]
    /\ requests \in 0..MaxRequests
    /\ failures \in 0..MaxFailures
    /\ req \in [Workers -> Request]
    /\ \A w \in Workers :
         /\ req[w].op \in {"pay", "complete", "cancel", "reset"} =>
               req[w].about \in Orders /\ req[w].copy \in Order
         /\ req[w].op = "edit" => req[w].about \in Cards /\ req[w].copy \in Card
         /\ req[w].at \in {"lock", "grant"} => req[w].card \in Cards

Init ==
    /\ card = [c \in Cards |-> [balance |-> Balance0[c], active |-> TRUE]]
    /\ order = [o \in Orders |-> [status |-> "OPEN", subTotal |-> SubTotal0[o]]]
    /\ payment = [o \in Orders |-> [c \in Cards |-> None]]
    /\ lock = [c \in Cards |-> Free]
    /\ req = [w \in Workers |-> Idle]
    /\ loaded = Balance0
    /\ charged = [o \in Orders |-> [c \in Cards |-> 0]]
    /\ requests = 0
    /\ failures = 0

-----------------------------------------------------------------------------
(* A request about an order loads it, and reads its payments.              *)

\* What the lock of OrderQueue and the web client are there for: one volunteer
\* at a time works on an order, and not any more once it is done with.
Allowed(o) == Disciplined => order[o].status = "OPEN" /\ ~Busy(o)

\* orderService.get(id)
Load(w, op, o) ==
    /\ req[w] = Idle
    /\ requests < MaxRequests
    /\ Allowed(o)
    /\ requests' = requests + 1
    /\ req' = [req EXCEPT ![w] =
                 [Idle EXCEPT !.op = op, !.about = o, !.at = "loaded", !.copy = order[o]]]
    /\ UNCHANGED <<table, lock, ghost, failures>>

Pay(w, o)      == Load(w, "pay", o)
Complete(w, o) == Load(w, "complete", o)
Cancel(w, o)   == Load(w, "cancel", o)
Reset(w, o)    == Load(w, "reset", o)

\* cancelOrder and reset save the order before its payments are looked at.
SaveFirst(w) ==
    LET r == req[w] IN
    /\ r.op \in {"cancel", "reset"}
    /\ r.at = "loaded"
    /\ order' = [order EXCEPT ![r.about] =
                   [r.copy EXCEPT !.status = IF r.op = "cancel" THEN "CANCELLED" ELSE "OPEN"]]
    /\ req' = [req EXCEPT ![w].at = "saved"]
    /\ UNCHANGED <<card, payment, lock, ghost, count>>

\* Cards that with(provider, state) lists, in no order: nothing sets when a card
\* was last used.
Usable(c) == card[c].active /\ card[c].balance > 0

\* paymentsFor(order), in the transaction of paymentFor with(provider, state) too.
Read(w) ==
    LET r == req[w] IN
    /\ \/ r.op \in {"pay", "complete"} /\ r.at = "loaded"
       \/ r.op \in {"cancel", "reset"} /\ r.at = "saved"
    /\ req' = [req EXCEPT ![w] =
         [r EXCEPT !.at = CASE r.op = "pay"      -> "trying"
                            [] r.op = "complete" -> "charge"
                            [] OTHER             -> "mark",
                   !.cards = card,
                   !.payments = payment[r.about],
                   !.todo = IF r.op = "pay" THEN {c \in Cards : Usable(c)}
                            ELSE {c \in Cards : payment[r.about][c] # None}]]
    /\ UNCHANGED <<table, lock, ghost, count>>

-----------------------------------------------------------------------------
(* paymentFor(order, user): the first card that can be locked.             *)

\* acquireLock sees the card locked and returns false.
SkipCard(w) ==
    LET r == req[w] IN
    /\ r.at = "trying"
    /\ \E c \in r.todo :
         /\ lock[c] # Free
         /\ req' = [req EXCEPT ![w].todo = @ \ {c}]
    /\ UNCHANGED <<table, lock, ghost, count>>

\* Mutant: acquireLock's result is ignored, as lockAcquired ignores it.
TakeCard(w) ==
    LET r == req[w] IN
    /\ r.at = "trying"
    /\ \E c \in r.todo :
         req' = [req EXCEPT ![w] = [r EXCEPT !.card = c, !.at = "grant"]]
    /\ UNCHANGED <<table, lock, ghost, count>>

\* acquireLock sees the card free and calls RLock.lock ...
TryCard(w) ==
    LET r == req[w] IN
    /\ r.at = "trying"
    /\ \E c \in r.todo :
         /\ lock[c] = Free
         /\ req' = [req EXCEPT ![w] = [r EXCEPT !.card = c, !.at = "lock"]]
    /\ UNCHANGED <<table, lock, ghost, count>>

\* ... which blocks until the lock is free.
LockCard(w) ==
    LET r == req[w] IN
    /\ r.at = "lock"
    /\ lock[r.card] = Free
    /\ lock' = [lock EXCEPT ![r.card] = r.about]
    /\ req' = [req EXCEPT ![w].at = "grant"]
    /\ UNCHANGED <<table, ghost, count>>

\* An order that has payments gets a dollar from the next card.
AmountFor(r) == IF Sum(r.payments) = 0 THEN r.copy.subTotal ELSE 1

\* Mutant: the status of a new payment is not set.
GrantUnset(w) ==
    LET r == req[w] IN
    /\ r.at = "grant"
    /\ payment' = [payment EXCEPT ![r.about][r.card] = [amount |-> AmountFor(r), status |-> None]]
    /\ req' = [req EXCEPT ![w] = Idle]
    /\ UNCHANGED <<card, order, lock, ghost, count>>

\* The transaction commits.  It inserts or updates the payment as it found it at
\* its start; if that has changed the database or Hibernate rolls it back.
Grant(w) ==
    LET r == req[w]
        old == payment[r.about][r.card]
    IN
    /\ r.at = "grant"
    /\ payment' = IF (r.payments[r.card] = None) <=> (old = None)
                  THEN [payment EXCEPT ![r.about][r.card] =
                          [amount |-> AmountFor(r), status |-> "IP"]]
                  ELSE payment
    /\ req' = [req EXCEPT ![w] = Idle]
    /\ UNCHANGED <<card, order, lock, ghost, count>>

\* There is no card left to try: paymentFor returns an empty Optional.
NoCard(w) ==
    /\ req[w].at = "trying"
    /\ req[w].todo = {}
    /\ req' = [req EXCEPT ![w] = Idle]
    /\ UNCHANGED <<table, lock, ghost, count>>

-----------------------------------------------------------------------------
(* completeOrder, and the payments of a cancelled or reset order.          *)

\* Mutant: the running total, which the audit record gets, is taken from the card.
ChargeTotal(w) ==
    LET r == req[w] IN
    /\ r.at = "charge"
    /\ \E c \in r.todo :
         LET amount == r.payments[c].amount
             rest == Sum([r.payments EXCEPT ![c] = None]) -
                     Sum([d \in Cards |-> IF d \in r.todo \ {c} THEN r.payments[d] ELSE None])
         IN
         /\ card' = [card EXCEPT ![c] = [r.cards[c] EXCEPT !.balance = @ - (amount + rest)]]
         /\ charged' = [charged EXCEPT ![r.about][c] = @ + amount]
         /\ req' = [req EXCEPT ![w] = [r EXCEPT !.card = c, !.at = "mark"]]
    /\ UNCHANGED <<order, payment, lock, loaded, count>>

\* The card is written back with the amount taken from the balance it had when
\* the payments were read, whatever the status of the payment.
Charge(w) ==
    LET r == req[w] IN
    /\ r.at = "charge"
    /\ \E c \in r.todo :
         LET amount == r.payments[c].amount IN
         /\ card' = [card EXCEPT ![c] = [r.cards[c] EXCEPT !.balance = @ - amount]]
         /\ charged' = [charged EXCEPT ![r.about][c] = @ + amount]
         /\ req' = [req EXCEPT ![w] = [r EXCEPT !.card = c, !.at = "mark"]]
    /\ UNCHANGED <<order, payment, lock, loaded, count>>

\* Mutant: the payment is not updated after its card was charged.
MarkNothing(w) ==
    LET r == req[w] IN
    /\ r.at = "mark"
    /\ \E c \in r.todo :
         req' = [req EXCEPT ![w] =
                   [r EXCEPT !.todo = @ \ {c}, !.card = None,
                             !.at = IF r.op = "complete" THEN "charge" ELSE "mark"]]
    /\ UNCHANGED <<table, lock, ghost, count>>

\* The payment of the card just charged becomes 'C', one of a cancelled order
\* 'CN' -- merge brings a deleted row back -- and one of a reset order goes.
Mark(w) ==
    LET r == req[w] IN
    /\ r.at = "mark"
    /\ \E c \in r.todo :
         /\ r.op = "complete" => c = r.card
         /\ payment' = [payment EXCEPT ![r.about][c] =
              CASE r.op = "complete" -> [r.payments[c] EXCEPT !.status = "C"]
                [] r.op = "cancel"   -> [r.payments[c] EXCEPT !.status = "CN"]
                [] OTHER             -> None]
         /\ req' = [req EXCEPT ![w] =
              [r EXCEPT !.todo = @ \ {c}, !.card = None,
                        !.at = IF r.op = "complete" THEN "charge" ELSE "mark"]]
    /\ UNCHANGED <<card, order, lock, ghost, count>>

\* orderService.complete: what was paid is the subtotal, or what the volunteer
\* entered if nothing was.
SaveCompleted(w) ==
    LET r == req[w] IN
    /\ r.at = "charge"
    /\ r.todo = {}
    /\ \E a \in Amounts :
         order' = [order EXCEPT ![r.about] =
                     [status |-> "ORDERED",
                      subTotal |-> IF Sum(r.payments) > 0 THEN Sum(r.payments) ELSE a]]
    /\ req' = [req EXCEPT ![w] = Idle]
    /\ UNCHANGED <<card, payment, lock, ghost, count>>

\* All payments of a cancelled or reset order are dealt with.
Done(w) ==
    /\ req[w].op \in {"cancel", "reset"}
    /\ req[w].at = "mark"
    /\ req[w].todo = {}
    /\ req' = [req EXCEPT ![w] = Idle]
    /\ UNCHANGED <<table, lock, ghost, count>>

-----------------------------------------------------------------------------
(* Gift cards, failures and the card lock's time to live.                  *)

\* giftCardService.get(id)
LoadCard(w, c) ==
    /\ Edits # {}
    /\ req[w] = Idle
    /\ requests < MaxRequests
    /\ requests' = requests + 1
    /\ req' = [req EXCEPT ![w] =
                 [Idle EXCEPT !.op = "edit", !.about = c, !.at = "loaded", !.copy = card[c]]]
    /\ UNCHANGED <<table, lock, ghost, failures>>

\* giftCardService.update: all columns of the copy, one of them changed.
EditCard(w, e, amount) ==
    LET r == req[w]
        c == r.about
    IN
    /\ r.op = "edit"
    /\ card' = [card EXCEPT ![c] =
         CASE e = "activate"   -> [r.copy EXCEPT !.active = TRUE]
           [] e = "deactivate" -> [r.copy EXCEPT !.active = FALSE]
           [] e = "recharge"   -> [r.copy EXCEPT !.balance = @ + amount]
           [] e = "update"     -> [r.copy EXCEPT !.balance = amount]]
    /\ loaded' = [loaded EXCEPT ![c] =
         CASE e = "recharge" -> @ + amount
           [] e = "update"   -> amount + MapThenSumSet(LAMBDA o : charged[o][c], Orders)
           [] OTHER          -> @]
    /\ req' = [req EXCEPT ![w] = Idle]
    /\ UNCHANGED <<order, payment, lock, charged, count>>

\* An exception, or the end of the process, stops a request between two of its
\* transactions.  Redis keeps the locks.
Fail(w) ==
    /\ req[w] # Idle
    /\ failures < MaxFailures
    /\ failures' = failures + 1
    /\ req' = [req EXCEPT ![w] = Idle]
    /\ UNCHANGED <<table, lock, ghost, requests>>

\* Disciplined: a volunteer is through with a card before its lock lapses, and no
\* request takes that long unless it waits for a lock.
Lapses(c) ==
    Disciplined => /\ ~InProgress(lock[c], c)
                   /\ \A w \in Workers : req[w] = Idle \/ req[w].at = "lock"

\* Five minutes after the card was locked; nothing else unlocks it.
Expire(c) ==
    /\ lock[c] # Free
    /\ Lapses(c)
    /\ lock' = [lock EXCEPT ![c] = Free]
    /\ UNCHANGED <<table, req, ghost, count>>

-----------------------------------------------------------------------------
Step(w) ==
    \/ SaveFirst(w) \/ Read(w)
    \/ SkipCard(w) \/ TryCard(w) \/ LockCard(w) \/ Grant(w) \/ NoCard(w)
    \/ Charge(w) \/ Mark(w) \/ SaveCompleted(w) \/ Done(w)
    \/ \E e \in Edits, a \in Amounts : EditCard(w, e, a)
    \/ Fail(w)

Submit(w) ==
    \/ \E o \in Orders : Pay(w, o) \/ Complete(w, o) \/ Cancel(w, o) \/ Reset(w, o)
    \/ \E c \in Cards : LoadCard(w, c)

Next ==
    \/ \E w \in Workers : Step(w) \/ Submit(w)
    \/ \E c \in Cards : Expire(c)

Spec == Init /\ [][Next]_vars

-----------------------------------------------------------------------------
(* Properties.                                                             *)

\* No recharge and no charge of a card is lost: its balance is what was put on it
\* less what was taken (updateOrderPaymentStatusAndGetSubTotal, rechargeGiftCard).
NothingLost ==
    \A c \in Cards :
        card[c].balance = loaded[c] - MapThenSumSet(LAMBDA o : charged[o][c], Orders)

\* A card pays for one order at a time: of those it was handed out for, at most
\* one is still waiting to be completed (paymentFor and the card lock).
OneOrderPerCard ==
    \A c \in Cards : \A o, p \in Orders : InProgress(o, c) /\ InProgress(p, c) => o = p

\* An order that is complete was charged to its cards once, and its subtotal is
\* what was charged (completeOrder).
CompletedIsPaid ==
    \A o \in Orders : order[o].status = "ORDERED" /\ ~Busy(o) =>
        /\ \A c \in Cards :
              /\ payment[o][c] = None => charged[o][c] = 0
              /\ payment[o][c] # None => /\ payment[o][c].status = "C"
                                        /\ charged[o][c] = payment[o][c].amount
        /\ Sum(payment[o]) \in {0, order[o].subTotal}

\* A cancelled order has no payment that is still good, and was not charged for
\* (OrderServiceHelper.cancelOrder).
CancelledIsUnpaid ==
    \A o \in Orders : order[o].status = "CANCELLED" /\ ~Busy(o) =>
        \A c \in Cards :
            /\ payment[o][c] # None => payment[o][c].status = "CN"
            /\ charged[o][c] = 0

\* The account book, seen in the state of this module.  A card waits to be charged
\* for an order until its balance is written; an order is open while a request is
\* about it.
Balance == [c \in Cards |-> card[c].balance]
Due     == [o \in Orders |-> [c \in Cards |->
               IF InProgress(o, c) /\ charged[o][c] = 0 THEN payment[o][c].amount ELSE 0]]
Fate    == [o \in Orders |-> IF Busy(o) THEN "OPEN" ELSE order[o].status]

Ledger == INSTANCE CardLedger WITH balance <- Balance, due <- Due,
                                   paid <- charged, fate <- Fate

\* Reads of cards and payments in one transaction and writes of them in others, by
\* two requests at a time, come to this: every amount a card was handed out for is
\* taken once and in full, or withdrawn before its order is closed
\* (paymentFor, completeOrder, cancelOrder).
ImplementsCardLedger == Ledger!LedgerSpec
=============================================================================
