-------------------------- MODULE CardPaymentsProofs --------------------------
(***************************************************************************)
(* Proofs about CardPayments, for any number of orders, cards and requests *)
(* at a time.  A card pays for one order at a time because an order that   *)
(* was handed a card is the one the card is locked for, as long as the     *)
(* volunteer is through with the card before the lock lapses: the          *)
(* assumption Disciplined.                                                 *)
(***************************************************************************)
EXTENDS CardPayments, TLAPS

\* What the steps need to know of the shape of the tables and of a request.
IsPayment(p) == DOMAIN p = {"amount", "status"}

TableShape ==
    /\ DOMAIN lock = Cards
    /\ DOMAIN payment = Orders
    /\ \A o \in Orders : DOMAIN payment[o] = Cards
    /\ \A o \in Orders, c \in Cards : payment[o][c] # None => IsPayment(payment[o][c])

RequestShape(r) ==
    /\ DOMAIN r = DOMAIN Idle
    /\ r.op \in {"idle", "pay", "complete", "cancel", "reset", "edit"}
    /\ r.op \in {"pay", "complete", "cancel", "reset"} => r.about \in Orders
    /\ r.at \in {"trying", "lock", "grant"} => r.op = "pay" /\ r.todo \subseteq Cards
    /\ r.at \in {"lock", "grant"} => r.card \in Cards
    /\ r.at \in {"charge", "mark"} =>
          /\ r.op \in {"complete", "cancel", "reset"}
          /\ r.todo \subseteq Cards
          /\ \A c \in r.todo : IsPayment(r.payments[c])

Shape ==
    /\ TableShape
    /\ DOMAIN req = Workers
    /\ \A w \in Workers : RequestShape(req[w])

\* A card that waits to be charged for an order is locked for it, and so is one
\* that paymentFor is about to hand out.
CardIsLocked ==
    \A o \in Orders, c \in Cards : InProgress(o, c) => lock[c] = o

GrantIsLocked ==
    \A w \in Workers : req[w].at = "grant" => lock[req[w].card] = req[w].about

IInv == Shape /\ CardIsLocked /\ GrantIsLocked

-----------------------------------------------------------------------------
(* The shape.                                                              *)

LEMMA IdleShape == RequestShape(Idle)
BY DEF RequestShape, Idle

LEMMA TypedRequest ==
    ASSUME Shape, NEW w \in Workers, NEW r, RequestShape(r),
           req' = [req EXCEPT ![w] = r], TableShape'
    PROVE  Shape'
BY DEF Shape

\* The steps of a request, but for those that write a payment or take a lock.
LEMMA QuietShape ==
    ASSUME Shape, NEW w \in Workers,
           \/ SaveFirst(w) \/ Read(w) \/ SkipCard(w) \/ TryCard(w) \/ NoCard(w)
           \/ Charge(w) \/ SaveCompleted(w) \/ Done(w) \/ Fail(w)
           \/ \E e \in Edits, a \in Amounts : EditCard(w, e, a)
    PROVE  /\ Shape'
           /\ UNCHANGED <<lock, payment>>
           /\ \A x \in Workers : req'[x].at = "grant" => req'[x] = req[x]
<1> DEFINE Quiet == /\ Shape'
                    /\ UNCHANGED <<lock, payment>>
                    /\ \A x \in Workers : req'[x].at = "grant" => req'[x] = req[x]
<1>1. ASSUME NEW r, RequestShape(r), r.at # "grant", req' = [req EXCEPT ![w] = r],
             UNCHANGED <<lock, payment>>
      PROVE  Quiet
  <2>1. TableShape'
    BY <1>1 DEF Shape, TableShape
  <2>2. Shape'
    BY <1>1, <2>1, TypedRequest
  <2>. QED
    BY <1>1, <2>2 DEF Shape
<1>2. RequestShape(req[w])
  BY DEF Shape
<1>3. CASE SaveFirst(w)
  <2> DEFINE r == [req[w] EXCEPT !.at = "saved"]
  <2>1. RequestShape(r) /\ r.at # "grant"
    BY <1>2, <1>3 DEF RequestShape, SaveFirst, Idle
  <2>. QED
    BY <1>1, <1>3, <2>1 DEF SaveFirst, Shape
<1>4. CASE Read(w)
  <2> DEFINE at == CASE req[w].op = "pay" -> "trying" [] req[w].op = "complete" -> "charge"
                     [] OTHER -> "mark"
             todo == IF req[w].op = "pay" THEN {c \in Cards : Usable(c)}
                     ELSE {c \in Cards : payment[req[w].about][c] # None}
             r == [req[w] EXCEPT !.at = at, !.cards = card,
                                 !.payments = payment[req[w].about], !.todo = todo]
  <2>1. req[w].op \in {"pay", "complete", "cancel", "reset"} /\ req[w].about \in Orders
    BY <1>2, <1>4 DEF RequestShape, Read
  <2>2. \A c \in Cards : payment[req[w].about][c] # None => IsPayment(payment[req[w].about][c])
    BY <2>1 DEF Shape, TableShape
  <2>3. /\ DOMAIN r = DOMAIN Idle
        /\ r.op = req[w].op /\ r.about = req[w].about /\ r.at = at
        /\ r.payments = payment[req[w].about] /\ r.todo = todo
    BY <1>2 DEF RequestShape, Idle
  <2>4. todo \subseteq Cards /\ at \in {"trying", "charge", "mark"}
    OBVIOUS
  <2>5. at = "trying" => req[w].op = "pay"
    BY <2>1
  <2>6. at \in {"charge", "mark"} =>
          /\ req[w].op \in {"complete", "cancel", "reset"}
          /\ \A c \in todo : IsPayment(payment[req[w].about][c])
    BY <2>1, <2>2
  <2>7. RequestShape(r) /\ r.at # "grant"
    <3> HIDE DEF r, at, todo
    <3>. QED
      BY <2>1, <2>3, <2>4, <2>5, <2>6 DEF RequestShape
  <2>. QED
    BY <1>1, <1>4, <2>7 DEF Read, table
<1>5. CASE SkipCard(w)
  <2>1. PICK c \in req[w].todo : req' = [req EXCEPT ![w].todo = @ \ {c}]
    BY <1>5 DEF SkipCard
  <2> DEFINE r == [req[w] EXCEPT !.todo = @ \ {c}]
  <2>2. RequestShape(r) /\ r.at # "grant"
    BY <1>2, <1>5 DEF RequestShape, SkipCard, Idle
  <2>. QED
    BY <1>1, <1>5, <2>1, <2>2 DEF SkipCard, table, Shape
<1>6. CASE TryCard(w)
  <2>1. PICK c \in req[w].todo :
           req' = [req EXCEPT ![w] = [req[w] EXCEPT !.card = c, !.at = "lock"]]
    BY <1>6 DEF TryCard
  <2> DEFINE r == [req[w] EXCEPT !.card = c, !.at = "lock"]
  <2>2. RequestShape(r) /\ r.at # "grant"
    BY <1>2, <1>6 DEF RequestShape, TryCard, Idle
  <2>. QED
    BY <1>1, <1>6, <2>1, <2>2 DEF TryCard, table
<1>7. CASE NoCard(w) \/ SaveCompleted(w) \/ Done(w) \/ Fail(w)
           \/ \E e \in Edits, a \in Amounts : EditCard(w, e, a)
  <2>1. req' = [req EXCEPT ![w] = Idle] /\ UNCHANGED <<lock, payment>>
    BY <1>7 DEF NoCard, SaveCompleted, Done, Fail, EditCard, table
  <2>2. Idle.at # "grant"
    BY DEF Idle
  <2>. QED
    BY <1>1, <2>1, <2>2, IdleShape
<1>8. CASE Charge(w)
  <2>1. PICK c \in req[w].todo :
           req' = [req EXCEPT ![w] = [req[w] EXCEPT !.card = c, !.at = "mark"]]
    BY <1>8 DEF Charge
  <2> DEFINE r == [req[w] EXCEPT !.card = c, !.at = "mark"]
  <2>2. RequestShape(r) /\ r.at # "grant"
    BY <1>2, <1>8 DEF RequestShape, Charge, Idle
  <2>. QED
    BY <1>1, <1>8, <2>1, <2>2 DEF Charge
<1>. QED
  BY <1>3, <1>4, <1>5, <1>6, <1>7, <1>8

\* Requests are submitted.
LEMMA SubmitShape ==
    ASSUME Shape, NEW w \in Workers, Submit(w)
    PROVE  /\ Shape'
           /\ UNCHANGED <<lock, payment>>
           /\ \A x \in Workers : req'[x].at = "grant" => req'[x] = req[x]
<1>1. ASSUME NEW o \in Orders, NEW op \in {"pay", "complete", "cancel", "reset"}, Load(w, op, o)
      PROVE  /\ Shape'
             /\ UNCHANGED <<lock, payment>>
             /\ req'[w].at = "loaded" /\ \A x \in Workers \ {w} : req'[x] = req[x]
  <2> DEFINE r == [Idle EXCEPT !.op = op, !.about = o, !.at = "loaded", !.copy = order[o]]
  <2>1. RequestShape(r) /\ r.at = "loaded"
    BY DEF RequestShape, Idle
  <2>2. req' = [req EXCEPT ![w] = r] /\ UNCHANGED <<lock, payment>>
    BY <1>1 DEF Load, table
  <2>3. TableShape'
    BY <2>2 DEF Shape, TableShape
  <2>4. Shape'
    BY <2>1, <2>2, <2>3, TypedRequest
  <2>. QED
    BY <2>1, <2>2, <2>4 DEF Shape
<1>2. ASSUME NEW c \in Cards, LoadCard(w, c)
      PROVE  /\ Shape'
             /\ UNCHANGED <<lock, payment>>
             /\ req'[w].at = "loaded" /\ \A x \in Workers \ {w} : req'[x] = req[x]
  <2> DEFINE r == [Idle EXCEPT !.op = "edit", !.about = c, !.at = "loaded", !.copy = card[c]]
  <2>1. RequestShape(r) /\ r.at = "loaded"
    BY DEF RequestShape, Idle
  <2>2. req' = [req EXCEPT ![w] = r] /\ UNCHANGED <<lock, payment>>
    BY <1>2 DEF LoadCard, table
  <2>3. TableShape'
    BY <2>2 DEF Shape, TableShape
  <2>4. Shape'
    BY <2>1, <2>2, <2>3, TypedRequest
  <2>. QED
    BY <2>1, <2>2, <2>4 DEF Shape
<1>. QED
  BY <1>1, <1>2 DEF Submit, Pay, Complete, Cancel, Reset

-----------------------------------------------------------------------------
(* The steps that change a lock or a payment.                              *)

\* paymentFor gets the lock of a card: it was free, so no order has the card.
LEMMA LockStep ==
    ASSUME IInv, NEW w \in Workers, LockCard(w)
    PROVE  IInv'
<1> DEFINE r == [req[w] EXCEPT !.at = "grant"]
           k == req[w].card
<1>1. /\ RequestShape(req[w]) /\ req[w].at = "lock"
      /\ k \in Cards /\ req[w].about \in Orders /\ lock[k] = Free
  BY DEF IInv, Shape, RequestShape, LockCard
<1>2. RequestShape(r) /\ r.at = "grant" /\ r.card = k /\ r.about = req[w].about
  BY <1>1 DEF RequestShape, Idle
<1>3. /\ req' = [req EXCEPT ![w] = r]
      /\ lock' = [lock EXCEPT ![k] = req[w].about]
      /\ UNCHANGED payment
  BY DEF LockCard, table, IInv, Shape
<1>4. Shape'
  <2>1. TableShape'
    BY <1>3 DEF IInv, Shape, TableShape
  <2>. QED
    BY <1>2, <1>3, <2>1, TypedRequest DEF IInv
<1>5. CardIsLocked'
  <2> SUFFICES ASSUME NEW o \in Orders, NEW c \in Cards, InProgress(o, c)'
               PROVE  lock'[c] = o
    BY DEF CardIsLocked
  <2>1. InProgress(o, c)
    BY <1>3 DEF InProgress
  <2>2. lock[c] = o
    BY <2>1 DEF IInv, CardIsLocked
  <2>3. c # k
    BY <1>1, <2>2, CardAssumption
  <2>. QED
    BY <1>3, <2>2, <2>3 DEF IInv, Shape, TableShape
<1>6. GrantIsLocked'
  <2> SUFFICES ASSUME NEW x \in Workers, req'[x].at = "grant"
               PROVE  lock'[req'[x].card] = req'[x].about
    BY DEF GrantIsLocked
  <2>1. CASE x = w
    BY <1>1, <1>2, <1>3, <2>1 DEF IInv, Shape, TableShape
  <2>2. CASE x # w
    <3>1. req'[x] = req[x]
      BY <1>3, <2>2 DEF IInv, Shape
    <3>2. /\ lock[req[x].card] = req[x].about
          /\ req[x].card \in Cards /\ req[x].about \in Orders
      BY <3>1 DEF IInv, GrantIsLocked, Shape, RequestShape
    <3>3. req[x].card # k
      BY <1>1, <3>2, CardAssumption
    <3>. QED
      BY <1>3, <3>1, <3>2, <3>3 DEF IInv, Shape, TableShape
  <2>. QED
    BY <2>1, <2>2
<1>. QED
  BY <1>4, <1>5, <1>6 DEF IInv

\* paymentFor saves the payment: its card is locked for the order.
LEMMA GrantStep ==
    ASSUME IInv, NEW w \in Workers, Grant(w)
    PROVE  IInv'
<1> DEFINE k == req[w].card
           a == req[w].about
           new == [amount |-> AmountFor(req[w]), status |-> "IP"]
<1>1. k \in Cards /\ a \in Orders /\ lock[k] = a
  BY DEF IInv, Shape, RequestShape, GrantIsLocked, Grant
<1>2. /\ req' = [req EXCEPT ![w] = Idle]
      /\ UNCHANGED lock
      /\ payment' = payment \/ payment' = [payment EXCEPT ![a][k] = new]
  BY DEF Grant
<1>3. IsPayment(new)
  BY DEF IsPayment
<1>4. \A o \in Orders, c \in Cards :
         \/ payment'[o][c] = payment[o][c]
         \/ o = a /\ c = k /\ payment'[o][c] = new
  <2> HIDE DEF new, a, k
  <2>. QED
    BY <1>1, <1>2 DEF IInv, Shape, TableShape
<1>5. Shape'
  <2>1. TableShape'
    <3>1. DOMAIN payment' = Orders /\ \A o \in Orders : DOMAIN payment'[o] = Cards
      <4> HIDE DEF new, a, k
      <4>. QED
        BY <1>1, <1>2 DEF IInv, Shape, TableShape
    <3>. QED
      <4> HIDE DEF new
      <4>. QED
        BY <1>2, <1>3, <1>4, <3>1 DEF IInv, Shape, TableShape
  <2>. QED
    BY <1>2, <2>1, IdleShape, TypedRequest DEF IInv
<1>6. CardIsLocked'
  <2> SUFFICES ASSUME NEW o \in Orders, NEW c \in Cards, InProgress(o, c)'
               PROVE  lock[c] = o
    BY <1>2 DEF CardIsLocked
  <2>1. CASE payment'[o][c] = payment[o][c]
    BY <2>1 DEF IInv, CardIsLocked, InProgress
  <2>2. CASE o = a /\ c = k
    BY <1>1, <2>2
  <2>. QED
    BY <1>4, <2>1, <2>2
<1>7. GrantIsLocked'
  BY <1>2 DEF IInv, Shape, GrantIsLocked, Idle
<1>. QED
  BY <1>5, <1>6, <1>7 DEF IInv

\* A payment is completed, cancelled or deleted: it no longer waits to be charged.
LEMMA MarkStep ==
    ASSUME IInv, NEW w \in Workers, Mark(w)
    PROVE  IInv'
<1>1. PICK c \in req[w].todo :
         /\ payment' = [payment EXCEPT ![req[w].about][c] =
              CASE req[w].op = "complete" -> [req[w].payments[c] EXCEPT !.status = "C"]
                [] req[w].op = "cancel"   -> [req[w].payments[c] EXCEPT !.status = "CN"]
                [] OTHER                  -> None]
         /\ req' = [req EXCEPT ![w] =
              [req[w] EXCEPT !.todo = @ \ {c}, !.card = None,
                             !.at = IF req[w].op = "complete" THEN "charge" ELSE "mark"]]
         /\ UNCHANGED lock
  BY DEF Mark
<1> DEFINE a == req[w].about
           new == payment'[a][c]
           r == [req[w] EXCEPT !.todo = @ \ {c}, !.card = None,
                               !.at = IF req[w].op = "complete" THEN "charge" ELSE "mark"]
<1>2. /\ RequestShape(req[w]) /\ a \in Orders /\ c \in Cards
      /\ req[w].op \in {"complete", "cancel", "reset"} /\ IsPayment(req[w].payments[c])
  BY <1>1 DEF IInv, Shape, RequestShape, Mark
<1>3. RequestShape(r) /\ r.at # "grant"
  BY <1>1, <1>2 DEF RequestShape, Mark, Idle
<1>4. new = None \/ (IsPayment(new) /\ new.status # "IP")
  <2>1. new = CASE req[w].op = "complete" -> [req[w].payments[c] EXCEPT !.status = "C"]
                [] req[w].op = "cancel"   -> [req[w].payments[c] EXCEPT !.status = "CN"]
                [] OTHER                  -> None
    BY <1>1, <1>2 DEF IInv, Shape, TableShape
  <2>. QED
    BY <1>2, <2>1 DEF IsPayment
<1>5. /\ DOMAIN payment' = Orders
      /\ \A o \in Orders : DOMAIN payment'[o] = Cards
      /\ \A o \in Orders, d \in Cards :
            payment'[o][d] = payment[o][d] \/ (o = a /\ d = c)
  BY <1>1, <1>2 DEF IInv, Shape, TableShape
<1>6. Shape'
  <2>1. TableShape'
    <3> HIDE DEF new
    <3>. QED
      BY <1>1, <1>4, <1>5 DEF new, IInv, Shape, TableShape
  <2>. QED
    BY <1>1, <1>3, <2>1, TypedRequest DEF IInv
<1>7. CardIsLocked'
  <2> SUFFICES ASSUME NEW o \in Orders, NEW d \in Cards, InProgress(o, d)'
               PROVE  lock[d] = o
    BY <1>1 DEF CardIsLocked
  <2>1. ~(o = a /\ d = c)
    BY <1>4 DEF InProgress
  <2>2. payment'[o][d] = payment[o][d]
    BY <1>5, <2>1
  <2>. QED
    BY <2>2 DEF IInv, CardIsLocked, InProgress
<1>8. GrantIsLocked'
  BY <1>1, <1>3 DEF IInv, Shape, GrantIsLocked
<1>. QED
  BY <1>6, <1>7, <1>8 DEF IInv

\* The lock of a card lapses: no order has the card and no request is about to
\* hand it out, which is what Disciplined says.
LEMMA ExpireStep ==
    ASSUME Disciplined, IInv, NEW k \in Cards, Expire(k)
    PROVE  IInv'
<1>1. /\ lock[k] # Free /\ ~InProgress(lock[k], k)
      /\ \A w \in Workers : req[w] = Idle \/ req[w].at = "lock"
      /\ lock' = [lock EXCEPT ![k] = Free]
      /\ UNCHANGED <<payment, req>>
  BY DEF Expire, Lapses, table
<1>2. Shape'
  BY <1>1 DEF IInv, Shape, TableShape
<1>3. CardIsLocked'
  <2> SUFFICES ASSUME NEW o \in Orders, NEW c \in Cards, InProgress(o, c)'
               PROVE  lock'[c] = o
    BY DEF CardIsLocked
  <2>1. InProgress(o, c) /\ lock[c] = o
    BY <1>1 DEF IInv, CardIsLocked, InProgress
  <2>2. c # k
    BY <1>1, <2>1
  <2>. QED
    BY <1>1, <2>1, <2>2 DEF IInv, Shape, TableShape
<1>4. GrantIsLocked'
  BY <1>1 DEF GrantIsLocked, Idle
<1>. QED
  BY <1>2, <1>3, <1>4 DEF IInv

-----------------------------------------------------------------------------
\* A step that leaves locks and payments alone and takes no request to where it
\* hands out a card.
LEMMA QuietStep ==
    ASSUME IInv, Shape', UNCHANGED <<lock, payment>>,
           \A x \in Workers : req'[x].at = "grant" => req'[x] = req[x]
    PROVE  IInv'
BY DEF IInv, CardIsLocked, GrantIsLocked, InProgress

LEMMA Inductive ==
    ASSUME Disciplined
    PROVE  Spec => []IInv
<1>1. Init => IInv
  <2> SUFFICES ASSUME Init
               PROVE  IInv
    OBVIOUS
  <2>1. Shape
    <3>1. TableShape
      BY DEF Init, TableShape
    <3>2. DOMAIN req = Workers /\ \A w \in Workers : req[w] = Idle
      BY DEF Init
    <3>. QED
      BY <3>1, <3>2, IdleShape DEF Shape
  <2>2. CardIsLocked /\ GrantIsLocked
    BY DEF Init, CardIsLocked, InProgress, GrantIsLocked, Idle
  <2>. QED
    BY <2>1, <2>2 DEF IInv
<1>2. IInv /\ [Next]_vars => IInv'
  <2> SUFFICES ASSUME IInv, [Next]_vars
               PROVE  IInv'
    OBVIOUS
  <2>1. ASSUME NEW w \in Workers, Step(w)
        PROVE  IInv'
    <3>1. CASE LockCard(w)
      BY <3>1, LockStep
    <3>2. CASE Grant(w)
      BY <3>2, GrantStep
    <3>3. CASE Mark(w)
      BY <3>3, MarkStep
    <3>4. CASE \/ SaveFirst(w) \/ Read(w) \/ SkipCard(w) \/ TryCard(w) \/ NoCard(w)
               \/ Charge(w) \/ SaveCompleted(w) \/ Done(w) \/ Fail(w)
               \/ \E e \in Edits, a \in Amounts : EditCard(w, e, a)
      BY <3>4, QuietShape, QuietStep DEF IInv
    <3>. QED
      BY <2>1, <3>1, <3>2, <3>3, <3>4 DEF Step
  <2>2. ASSUME NEW w \in Workers, Submit(w)
        PROVE  IInv'
    BY <2>2, SubmitShape, QuietStep DEF IInv
  <2>3. ASSUME NEW c \in Cards, Expire(c)
        PROVE  IInv'
    BY <2>3, ExpireStep
  <2>4. CASE UNCHANGED vars
    BY <2>4 DEF vars, IInv, Shape, TableShape, CardIsLocked, GrantIsLocked, InProgress
  <2>. QED
    BY <2>1, <2>2, <2>3, <2>4 DEF Next
<1>. QED
  BY <1>1, <1>2, PTL DEF Spec

\* Where volunteers are through with a card before its lock lapses, a card that
\* waits to be charged for an order is locked for that order.
THEOREM CardLocked ==
    ASSUME Disciplined
    PROVE  Spec => []CardIsLocked
<1>1. IInv => CardIsLocked
  BY DEF IInv
<1>. QED
  BY <1>1, Inductive, PTL

\* Where volunteers are through with a card before its lock lapses, paymentFor
\* never hands out a card that another order is about to be charged to.
THEOREM OneOrderAtATime ==
    ASSUME Disciplined
    PROVE  Spec => []OneOrderPerCard
<1>1. CardIsLocked => OneOrderPerCard
  BY DEF CardIsLocked, OneOrderPerCard
<1>. QED
  BY <1>1, CardLocked, PTL
=============================================================================
