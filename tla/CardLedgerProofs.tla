--------------------------- MODULE CardLedgerProofs ---------------------------
(***************************************************************************)
(* Proofs about the amounts in CardPayments, for any number of orders,     *)
(* cards and requests at a time.                                           *)
(***************************************************************************)
EXTENDS CardPaymentsProofs, SumFacts

-----------------------------------------------------------------------------
(* Sums of payments and of charges.                                        *)

Paid(p) == {c \in Cards : p[c] # None}

\* An order is paid with finitely many cards.
LEMMA PaidFinite == \A p : IsFiniteSet(Paid(p))
<1> SUFFICES ASSUME NEW p PROVE IsFiniteSet(Paid(p))
  OBVIOUS
<1>1. IsFiniteSet(Cards) /\ Paid(p) \in SUBSET Cards
  BY CardAssumption DEF Paid
<1> QED
  BY <1>1, FS_Subset

\* Sum is a sum in the sense of SumFacts.
LEMMA PaymentSum ==
    ASSUME NEW p
    PROVE  \E F : Sums([c \in Paid(p) |-> p[c].amount], Paid(p), F) /\ Sum(p) = F[Paid(p)]
<1> DEFINE T == {c \in Cards : p[c] # None}
           g == [c \in T |-> p[c].amount]
<1>0. IsFiniteSet(T)
  BY PaidFinite DEF Paid
<1>1. PICK F : Sums(g, T, F)
  <2> HIDE DEF g, T
  <2> QED
    BY <1>0, SumsExist
<1>2. \A s \in SUBSET T : s # {} => g[Chosen(s)] = p[Chosen(s)].amount
  BY ChosenIn
<1>3. F = [s \in SUBSET T |-> IF s = {} THEN 0
                              ELSE p[Chosen(s)].amount + F[s \ {Chosen(s)}]]
  <2>1. \A s \in SUBSET T : SumStep(g, F, s) = IF s = {} THEN 0
                              ELSE p[Chosen(s)].amount + F[s \ {Chosen(s)}]
    BY <1>2 DEF SumStep
  <2> HIDE DEF g, T
  <2> QED
    BY <1>1, <2>1 DEF Sums
<1>4. \E G : /\ G = [s \in SUBSET T |-> IF s = {} THEN 0
                                        ELSE p[Chosen(s)].amount + G[s \ {Chosen(s)}]]
             /\ Sum(p) = G[T]
  BY <1>3 DEF Sum, MapThenSumSet, MapThenFoldSet, Chosen
<1>5. PICK G : /\ G = [s \in SUBSET T |-> IF s = {} THEN 0
                                        ELSE p[Chosen(s)].amount + G[s \ {Chosen(s)}]]
               /\ Sum(p) = G[T]
  BY <1>4
<1>6. G = [s \in SUBSET T |-> SumStep(g, G, s)]
  <2>1. \A s \in SUBSET T : SumStep(g, G, s) = IF s = {} THEN 0
                              ELSE p[Chosen(s)].amount + G[s \ {Chosen(s)}]
    BY <1>2 DEF SumStep
  <2> HIDE DEF g, T
  <2> QED
    BY <1>5, <2>1
<1> QED
  BY <1>5, <1>6 DEF Paid, Sums

\* What an order is paid with is a number.
LEMMA PaymentSumNat ==
    ASSUME NEW p \in [Cards -> Payment \cup {None}]
    PROVE  Sum(p) \in Nat
<1> DEFINE g == [c \in Paid(p) |-> p[c].amount]
<1>1. PICK F : Sums(g, Paid(p), F) /\ Sum(p) = F[Paid(p)]
  BY PaymentSum
<1>2. \A c \in Paid(p) : g[c] \in Nat
  BY DEF Paid, Payment
<1> HIDE DEF g
<1> QED
  BY <1>1, <1>2, PaidFinite, SumsNat

\* Of the payments only the amounts matter.
LEMMA PaymentSumSame ==
    ASSUME NEW p, NEW q, \A c \in Cards : p[c] = None <=> q[c] = None,
           \A c \in Cards : p[c] # None => p[c].amount = q[c].amount
    PROVE  Sum(p) = Sum(q)
<1> DEFINE g == [c \in Paid(p) |-> p[c].amount]
           h == [c \in Paid(q) |-> q[c].amount]
<1>1. PICK F : Sums(g, Paid(p), F) /\ Sum(p) = F[Paid(p)]
  BY PaymentSum
<1>2. PICK G : Sums(h, Paid(q), G) /\ Sum(q) = G[Paid(q)]
  BY PaymentSum
<1>3. Paid(p) = Paid(q)
  BY DEF Paid
<1>4. \A c \in Paid(p) : g[c] = h[c]
  BY <1>3 DEF Paid
<1> HIDE DEF g, h
<1> QED
  BY <1>1, <1>2, <1>3, <1>4, PaidFinite, SumsAgree

\* What was taken from a card altogether.
Taken(m, c) == MapThenSumSet(LAMBDA o : m[o][c], Orders)
Column(m, c) == [o \in Orders |-> m[o][c]]

\* Taken is a sum in the sense of SumFacts.
LEMMA TakenIsSigma == \A m, c : Taken(m, c) = Sigma(Column(m, c), Orders)
<1> SUFFICES ASSUME NEW m, NEW c PROVE Taken(m, c) = Sigma(Column(m, c), Orders)
  OBVIOUS
<1> DEFINE g == Column(m, c)
<1>1. PICK F : Sums(g, Orders, F) /\ Sigma(g, Orders) = F[Orders]
  BY CardAssumption, SumIsSums
<1>2. \A s \in SUBSET Orders : s # {} => g[Chosen(s)] = m[Chosen(s)][c]
  BY ChosenIn DEF Column
<1>3. F = [s \in SUBSET Orders |-> IF s = {} THEN 0
                                   ELSE m[Chosen(s)][c] + F[s \ {Chosen(s)}]]
  <2>1. \A s \in SUBSET Orders : SumStep(g, F, s) = IF s = {} THEN 0
                                   ELSE m[Chosen(s)][c] + F[s \ {Chosen(s)}]
    BY <1>2 DEF SumStep
  <2> HIDE DEF g
  <2> QED
    BY <1>1, <2>1 DEF Sums
<1>4. \E G : /\ G = [s \in SUBSET Orders |-> IF s = {} THEN 0
                                   ELSE m[Chosen(s)][c] + G[s \ {Chosen(s)}]]
             /\ Taken(m, c) = G[Orders]
  BY <1>3 DEF Taken, MapThenSumSet, MapThenFoldSet, Chosen
<1>5. PICK G : /\ G = [s \in SUBSET Orders |-> IF s = {} THEN 0
                                   ELSE m[Chosen(s)][c] + G[s \ {Chosen(s)}]]
               /\ Taken(m, c) = G[Orders]
  BY <1>4
<1>6. Sums(g, Orders, G)
  <2>1. \A s \in SUBSET Orders : SumStep(g, G, s) = IF s = {} THEN 0
                                   ELSE m[Chosen(s)][c] + G[s \ {Chosen(s)}]
    BY <1>2 DEF SumStep
  <2> HIDE DEF g
  <2> QED
    BY <1>5, <2>1 DEF Sums
<1>7. Sigma(g, Orders) = Taken(m, c)
  <2>1. IsFiniteSet(Orders) /\ Orders \in SUBSET Orders
    BY CardAssumption
  <2>2. \A o \in Orders : g[o] = g[o]
    OBVIOUS
  <2>3. F[Orders] = G[Orders]
    <3> HIDE DEF g
    <3> QED
      BY <1>1, <1>6, <2>1, <2>2, SumsAgree
  <2> QED
    BY <1>1, <1>5, <2>3
<1> QED
  BY <1>7

-----------------------------------------------------------------------------
(* Types: what a request holds by the time a step uses it.                 *)

OnOrder == {"pay", "complete", "cancel", "reset"}
Payments == [Cards -> Payment \cup {None}]

TableTypes ==
    /\ card \in [Cards -> Card]
    /\ order \in [Orders -> Order]
    /\ payment \in [Orders -> Payments]
    /\ lock \in [Cards -> Orders \cup {Free}]
    /\ loaded \in [Cards -> Nat]
    /\ charged \in [Orders -> [Cards -> Nat]]

CountTypes ==
    /\ requests \in 0..MaxRequests
    /\ failures \in 0..MaxFailures

HasItsData(r) ==
    /\ r.op \in OnOrder => r.about \in Orders /\ r.copy \in Order
    /\ r.op = "edit" => r.at = "loaded" /\ r.about \in Cards /\ r.copy \in Card
    /\ r.op = "idle" => r.at = "idle"
    /\ r.at = "saved" => r.op \in {"cancel", "reset"}
    /\ r.at \in {"trying", "lock", "grant"} => r.op = "pay" /\ r.payments \in Payments
    /\ r.at \in {"lock", "grant"} => r.card \in Cards
    /\ r.at \in {"charge", "mark"} =>
          /\ r.op \in {"complete", "cancel", "reset"}
          /\ r.cards \in [Cards -> Card]
          /\ r.payments \in Payments
          /\ \A c \in r.todo : r.payments[c] # None
    /\ r.at = "charge" => r.op = "complete"

RequestTypes ==
    /\ req \in [Workers -> Request]
    /\ \A w \in Workers : HasItsData(req[w])

TypeInv == TableTypes /\ CountTypes /\ RequestTypes

\* The types with the shape of requests imply the types.
LEMMA TypeInvIsTypeOK == TypeInv => TypeOK
BY DEF TypeInv, TableTypes, CountTypes, RequestTypes, HasItsData, OnOrder, Payments, TypeOK

\* A worker without a request is well-typed.
LEMMA IdleIsTyped == Idle \in Request /\ HasItsData(Idle)
BY CardAssumption DEF Idle, Request, HasItsData, OnOrder

\* A request that is replaced by a well-typed one.
LEMMA RequestTyped ==
    ASSUME RequestTypes, NEW w \in Workers, NEW r \in Request, HasItsData(r),
           req' = [req EXCEPT ![w] = r]
    PROVE  RequestTypes'
BY DEF RequestTypes

\* Each action keeps the types. A request begins with reading its order...
LEMMA LoadTyped ==
    ASSUME TypeInv, NEW w \in Workers, NEW op \in OnOrder, NEW o \in Orders, Load(w, op, o)
    PROVE  TypeInv'
<1> DEFINE r == [Idle EXCEPT !.op = op, !.about = o, !.at = "loaded", !.copy = order[o]]
<1>1. order[o] \in Order
  BY DEF TypeInv, TableTypes
<1>2. r \in Request /\ HasItsData(r)
  BY <1>1 DEF Request, HasItsData, Idle, OnOrder
<1>3. /\ req' = [req EXCEPT ![w] = r]
      /\ UNCHANGED <<table, lock, ghost, failures>>
      /\ requests' = requests + 1 /\ requests < MaxRequests
  BY DEF Load
<1>4. RequestTypes'
  BY <1>2, <1>3, RequestTyped DEF TypeInv
<1>5. TableTypes' /\ CountTypes'
  BY <1>3, CardAssumption DEF TypeInv, TableTypes, CountTypes, table, ghost
<1> QED
  BY <1>4, <1>5 DEF TypeInv

\* ... or the card that is to be edited.
LEMMA LoadCardTyped ==
    ASSUME TypeInv, NEW w \in Workers, NEW c \in Cards, LoadCard(w, c)
    PROVE  TypeInv'
<1> DEFINE r == [Idle EXCEPT !.op = "edit", !.about = c, !.at = "loaded", !.copy = card[c]]
<1>1. card[c] \in Card
  BY DEF TypeInv, TableTypes
<1>2. r \in Request /\ HasItsData(r)
  BY <1>1 DEF Request, HasItsData, Idle, OnOrder
<1>3. /\ req' = [req EXCEPT ![w] = r]
      /\ UNCHANGED <<table, lock, ghost, failures>>
      /\ requests' = requests + 1 /\ requests < MaxRequests
  BY DEF LoadCard
<1>4. RequestTypes'
  BY <1>2, <1>3, RequestTyped DEF TypeInv
<1>5. TableTypes' /\ CountTypes'
  BY <1>3, CardAssumption DEF TypeInv, TableTypes, CountTypes, table, ghost
<1> QED
  BY <1>4, <1>5 DEF TypeInv

\* A cancellation or reset writes the copy of its order.
LEMMA SaveFirstTyped ==
    ASSUME TypeInv, NEW w \in Workers, SaveFirst(w)
    PROVE  TypeInv'
<1> DEFINE r == [req[w] EXCEPT !.at = "saved"]
           row == [req[w].copy EXCEPT !.status =
                     IF req[w].op = "cancel" THEN "CANCELLED" ELSE "OPEN"]
<1>1. /\ req[w] \in Request /\ HasItsData(req[w])
      /\ req[w].op \in {"cancel", "reset"} /\ req[w].at = "loaded"
  BY DEF TypeInv, RequestTypes, SaveFirst
<1>2. r \in Request /\ HasItsData(r)
  BY <1>1 DEF Request, HasItsData, OnOrder
<1>3. req[w].about \in Orders /\ req[w].copy \in Order
  BY <1>1 DEF HasItsData, OnOrder
<1>4. row \in Order
  BY <1>3 DEF Order
<1>5. /\ req' = [req EXCEPT ![w] = r]
      /\ order' = [order EXCEPT ![req[w].about] = row]
      /\ UNCHANGED <<card, payment, lock, ghost, count>>
  BY DEF SaveFirst, TypeInv, RequestTypes
<1>6. RequestTypes'
  BY <1>2, <1>5, RequestTyped DEF TypeInv
<1>7. order' \in [Orders -> Order]
  <2> HIDE DEF row, r
  <2> QED
    BY <1>3, <1>4, <1>5 DEF TypeInv, TableTypes
<1>8. TableTypes' /\ CountTypes'
  BY <1>5, <1>7 DEF TypeInv, TableTypes, CountTypes, ghost, count
<1> QED
  BY <1>6, <1>8 DEF TypeInv

\* The payments and cards a request works on are read.
LEMMA ReadTyped ==
    ASSUME TypeInv, NEW w \in Workers, Read(w)
    PROVE  TypeInv'
<1> DEFINE at == CASE req[w].op = "pay"      -> "trying"
                   [] req[w].op = "complete" -> "charge"
                   [] OTHER                  -> "mark"
           todo == IF req[w].op = "pay" THEN {c \in Cards : Usable(c)}
                   ELSE {c \in Cards : payment[req[w].about][c] # None}
           r == [req[w] EXCEPT !.at = at, !.cards = card,
                               !.payments = payment[req[w].about], !.todo = todo]
<1>1. /\ req[w] \in Request /\ HasItsData(req[w]) /\ req[w].op \in OnOrder
  BY DEF TypeInv, RequestTypes, Read, OnOrder
<1>2. req[w].about \in Orders /\ req[w].copy \in Order
  BY <1>1 DEF HasItsData
<1>3. payment[req[w].about] \in Payments /\ card \in [Cards -> Card]
  BY <1>2 DEF TypeInv, TableTypes
<1>4. /\ todo \in SUBSET Cards
      /\ req[w].op # "pay" => \A c \in todo : payment[req[w].about][c] # None
  OBVIOUS
<1>5. /\ at \in {"trying", "charge", "mark"}
      /\ at = "trying" <=> req[w].op = "pay"
      /\ at = "charge" <=> req[w].op = "complete"
  BY <1>1 DEF OnOrder
<1>6. /\ r.at = at /\ r.cards = card /\ r.payments = payment[req[w].about] /\ r.todo = todo
      /\ r.op = req[w].op /\ r.about = req[w].about /\ r.copy = req[w].copy
  BY <1>1 DEF Request
<1>7. r \in Request
  <2> HIDE DEF at, todo
  <2> QED
    BY <1>1, <1>3, <1>4, <1>5 DEF Request, Payments
<1>8. HasItsData(r)
  <2> HIDE DEF at, todo, r
  <2> QED
    BY <1>1, <1>2, <1>3, <1>4, <1>5, <1>6 DEF HasItsData, OnOrder
<1>9. req' = [req EXCEPT ![w] = r] /\ UNCHANGED <<table, lock, ghost, count>>
  BY DEF Read
<1>10. RequestTypes'
  <2> HIDE DEF r
  <2> QED
    BY <1>7, <1>8, <1>9, RequestTyped DEF TypeInv
<1>11. TableTypes' /\ CountTypes'
  BY <1>9 DEF TypeInv, TableTypes, CountTypes, table, ghost, count
<1> QED
  BY <1>10, <1>11 DEF TypeInv

\* The steps of paymentFor that leave the tables alone.
LEMMA TryingTyped ==
    ASSUME TypeInv, NEW w \in Workers, SkipCard(w) \/ TryCard(w) \/ LockCard(w)
    PROVE  TypeInv'
<1>1. req[w] \in Request /\ HasItsData(req[w])
  BY DEF TypeInv, RequestTypes
<1>2. ASSUME NEW r \in Request, HasItsData(r), req' = [req EXCEPT ![w] = r],
             UNCHANGED <<table, ghost, count>>, lock' \in [Cards -> Orders \cup {Free}]
      PROVE  TypeInv'
  <2>1. RequestTypes'
    BY <1>2, RequestTyped DEF TypeInv
  <2> QED
    BY <1>2, <2>1 DEF TypeInv, TableTypes, CountTypes, table, ghost, count
<1>3. lock \in [Cards -> Orders \cup {Free}]
  BY DEF TypeInv, TableTypes
<1>4. CASE SkipCard(w)
  <2>1. PICK c \in req[w].todo : req' = [req EXCEPT ![w].todo = @ \ {c}]
    BY <1>4 DEF SkipCard
  <2> DEFINE r == [req[w] EXCEPT !.todo = @ \ {c}]
  <2>2. r \in Request /\ HasItsData(r)
    BY <1>1, <1>4 DEF Request, HasItsData, OnOrder, SkipCard
  <2>3. req' = [req EXCEPT ![w] = r]
    BY <2>1 DEF TypeInv, RequestTypes
  <2> QED
    BY <1>2, <1>3, <1>4, <2>2, <2>3 DEF SkipCard
<1>5. CASE TryCard(w)
  <2>1. PICK c \in req[w].todo :
           req' = [req EXCEPT ![w] = [req[w] EXCEPT !.card = c, !.at = "lock"]]
    BY <1>5 DEF TryCard
  <2> DEFINE r == [req[w] EXCEPT !.card = c, !.at = "lock"]
  <2>2. c \in Cards
    BY <1>1 DEF Request
  <2>3. r \in Request /\ HasItsData(r)
    BY <1>1, <1>5, <2>2 DEF Request, HasItsData, OnOrder, TryCard
  <2> QED
    BY <1>2, <1>3, <1>5, <2>1, <2>3 DEF TryCard
<1>6. CASE LockCard(w)
  <2> DEFINE r == [req[w] EXCEPT !.at = "grant"]
  <2>1. r \in Request /\ HasItsData(r)
    BY <1>1, <1>6 DEF Request, HasItsData, OnOrder, LockCard
  <2>2. req[w].about \in Orders /\ req[w].card \in Cards
    BY <1>1, <1>6 DEF HasItsData, OnOrder, LockCard
  <2>3. lock' \in [Cards -> Orders \cup {Free}]
    BY <1>3, <1>6, <2>2 DEF LockCard
  <2>4. req' = [req EXCEPT ![w] = r]
    BY <1>6 DEF LockCard, TypeInv, RequestTypes
  <2> QED
    BY <1>2, <1>6, <2>1, <2>3, <2>4 DEF LockCard
<1> QED
  BY <1>4, <1>5, <1>6

\* A request ends, or fails.
LEMMA EndTyped ==
    ASSUME TypeInv, NEW w \in Workers, NoCard(w) \/ Done(w) \/ Fail(w)
    PROVE  TypeInv'
<1>1. /\ req' = [req EXCEPT ![w] = Idle]
      /\ UNCHANGED <<table, lock, ghost, requests>>
      /\ failures' = failures \/ (failures < MaxFailures /\ failures' = failures + 1)
  BY DEF NoCard, Done, Fail, count
<1>2. RequestTypes'
  BY <1>1, IdleIsTyped, RequestTyped DEF TypeInv
<1>3. TableTypes' /\ CountTypes'
  BY <1>1, CardAssumption DEF TypeInv, TableTypes, CountTypes, table, ghost
<1> QED
  BY <1>2, <1>3 DEF TypeInv

\* paymentFor asks a card for a number.
LEMMA AmountIsNat ==
    ASSUME NEW r, r.copy \in Order, r.payments \in Payments
    PROVE  AmountFor(r) \in Nat
<1>1. r.copy.subTotal \in Nat
  BY DEF Order
<1> QED
  BY <1>1 DEF AmountFor

\* paymentFor hands out a card.
LEMMA GrantTyped ==
    ASSUME TypeInv, NEW w \in Workers, Grant(w)
    PROVE  TypeInv'
<1> DEFINE a == req[w].about
           k == req[w].card
           new == [amount |-> AmountFor(req[w]), status |-> "IP"]
<1>1. /\ a \in Orders /\ k \in Cards
      /\ req[w].copy \in Order /\ req[w].payments \in Payments
  BY DEF TypeInv, RequestTypes, HasItsData, OnOrder, Grant
<1>2. new \in Payment
  BY <1>1, AmountIsNat DEF Payment
<1>3. /\ req' = [req EXCEPT ![w] = Idle]
      /\ UNCHANGED <<card, order, lock, ghost, count>>
      /\ payment' = payment \/ payment' = [payment EXCEPT ![a][k] = new]
  BY DEF Grant
<1>4. payment' \in [Orders -> Payments]
  <2>1. payment \in [Orders -> Payments]
    BY DEF TypeInv, TableTypes
  <2>2. CASE payment' = [payment EXCEPT ![a][k] = new]
    <3> HIDE DEF new, a, k
    <3> QED
      BY <1>1, <1>2, <2>1, <2>2 DEF Payments
  <2> QED
    BY <1>3, <2>1, <2>2
<1>5. RequestTypes'
  BY <1>3, IdleIsTyped, RequestTyped DEF TypeInv
<1>6. TableTypes' /\ CountTypes'
  BY <1>3, <1>4 DEF TypeInv, TableTypes, CountTypes, ghost, count
<1> QED
  BY <1>5, <1>6 DEF TypeInv

\* A card is charged and written back.
LEMMA ChargeTyped ==
    ASSUME TypeInv, NEW w \in Workers, Charge(w)
    PROVE  TypeInv'
<1>1. PICK c \in req[w].todo :
         /\ card' = [card EXCEPT ![c] = [req[w].cards[c] EXCEPT !.balance =
                                           @ - req[w].payments[c].amount]]
         /\ charged' = [charged EXCEPT ![req[w].about][c] = @ + req[w].payments[c].amount]
         /\ req' = [req EXCEPT ![w] = [req[w] EXCEPT !.card = c, !.at = "mark"]]
         /\ UNCHANGED <<order, payment, lock, loaded, count>>
  BY DEF Charge
<1> DEFINE a == req[w].about
           amount == req[w].payments[c].amount
           row == [req[w].cards[c] EXCEPT !.balance = @ - amount]
           r == [req[w] EXCEPT !.card = c, !.at = "mark"]
<1>2. /\ req[w] \in Request /\ HasItsData(req[w]) /\ req[w].at = "charge" /\ c \in Cards
  BY DEF TypeInv, RequestTypes, Charge, Request
<1>3. /\ a \in Orders /\ req[w].cards \in [Cards -> Card]
      /\ req[w].payments \in Payments /\ req[w].payments[c] # None
  BY <1>2 DEF HasItsData, OnOrder
<1>4. amount \in Nat
  BY <1>2, <1>3 DEF Payments, Payment
<1>5. row \in Card
  <2>1. req[w].cards[c] \in Card
    BY <1>2, <1>3
  <2> HIDE DEF amount
  <2> QED
    BY <1>4, <2>1 DEF Card
<1>6. r \in Request /\ HasItsData(r)
  BY <1>2 DEF Request, HasItsData, OnOrder
<1>7. card' \in [Cards -> Card] /\ charged' \in [Orders -> [Cards -> Nat]]
  <2> HIDE DEF amount, row, a
  <2> QED
    BY <1>1, <1>2, <1>3, <1>4, <1>5 DEF amount, row, a, TypeInv, TableTypes
<1>8. RequestTypes'
  BY <1>1, <1>6, RequestTyped DEF TypeInv
<1>9. TableTypes' /\ CountTypes'
  BY <1>1, <1>7 DEF TypeInv, TableTypes, CountTypes, count
<1> QED
  BY <1>8, <1>9 DEF TypeInv

\* A payment gets the status of its order.
LEMMA MarkTyped ==
    ASSUME TypeInv, NEW w \in Workers, Mark(w)
    PROVE  TypeInv'
<1>1. PICK c \in req[w].todo :
         /\ payment' = [payment EXCEPT ![req[w].about][c] =
              CASE req[w].op = "complete" -> [req[w].payments[c] EXCEPT !.status = "C"]
                [] req[w].op = "cancel"   -> [req[w].payments[c] EXCEPT !.status = "CN"]
                [] OTHER                  -> None]
         /\ req' = [req EXCEPT ![w] =
              [req[w] EXCEPT !.todo = @ \ {c}, !.card = None,
                             !.at = IF req[w].op = "complete" THEN "charge" ELSE "mark"]]
  BY DEF Mark
<1> DEFINE a == req[w].about
           old == req[w].payments[c]
           new == CASE req[w].op = "complete" -> [req[w].payments[c] EXCEPT !.status = "C"]
                    [] req[w].op = "cancel"   -> [req[w].payments[c] EXCEPT !.status = "CN"]
                    [] OTHER                  -> None
           r == [req[w] EXCEPT !.todo = @ \ {c}, !.card = None,
                               !.at = IF req[w].op = "complete" THEN "charge" ELSE "mark"]
<1>2. /\ req[w] \in Request /\ HasItsData(req[w]) /\ req[w].at = "mark" /\ c \in Cards
  BY DEF TypeInv, RequestTypes, Mark, Request
<1>3. /\ a \in Orders /\ old \in Payment
  BY <1>2 DEF HasItsData, OnOrder, Payments
<1>4. new \in Payment \cup {None}
  <2> HIDE DEF old
  <2> QED
    BY <1>3 DEF old, Payment
<1>5. r \in Request /\ HasItsData(r)
  BY <1>2 DEF Request, HasItsData, OnOrder
<1>6. payment' \in [Orders -> Payments]
  <2>1. payment' = [payment EXCEPT ![a][c] = new]
    BY <1>1
  <2> HIDE DEF new, a
  <2> QED
    BY <1>2, <1>3, <1>4, <2>1 DEF TypeInv, TableTypes, Payments
<1>7. RequestTypes'
  BY <1>1, <1>5, RequestTyped DEF TypeInv
<1>8. TableTypes' /\ CountTypes'
  BY <1>6 DEF Mark, TypeInv, TableTypes, CountTypes, ghost, count
<1> QED
  BY <1>7, <1>8 DEF TypeInv

\* The order is written as completed.
LEMMA SaveCompletedTyped ==
    ASSUME TypeInv, NEW w \in Workers, SaveCompleted(w)
    PROVE  TypeInv'
<1>1. PICK amount \in Amounts :
         order' = [order EXCEPT ![req[w].about] =
                     [status |-> "ORDERED",
                      subTotal |-> IF Sum(req[w].payments) > 0 THEN Sum(req[w].payments)
                                   ELSE amount]]
  BY DEF SaveCompleted
<1> DEFINE a == req[w].about
           total == IF Sum(req[w].payments) > 0 THEN Sum(req[w].payments) ELSE amount
           row == [status |-> "ORDERED", subTotal |-> total]
<1>2. /\ a \in Orders /\ req[w].payments \in Payments
  BY DEF TypeInv, RequestTypes, HasItsData, OnOrder, SaveCompleted
<1>3. total \in Nat
  BY <1>2, PaymentSumNat, CardAssumption DEF Payments
<1>4. row \in Order
  <2> HIDE DEF total
  <2> QED
    BY <1>3 DEF Order
<1>5. order' \in [Orders -> Order]
  <2> HIDE DEF total, a
  <2> QED
    BY <1>1, <1>2, <1>4 DEF TypeInv, TableTypes, total, a
<1>6. RequestTypes'
  BY IdleIsTyped, RequestTyped DEF TypeInv, SaveCompleted
<1>7. TableTypes' /\ CountTypes'
  BY <1>5 DEF SaveCompleted, TypeInv, TableTypes, CountTypes, ghost, count
<1> QED
  BY <1>6, <1>7 DEF TypeInv

\* What was taken from a card is a number.
LEMMA TakenNat ==
    ASSUME NEW m \in [Orders -> [Cards -> Nat]], NEW c \in Cards
    PROVE  Taken(m, c) \in Nat
<1>1. \A o \in Orders : Column(m, c)[o] \in Nat
  BY DEF Column
<1>2. IsFiniteSet(Orders)
  BY CardAssumption
<1> QED
  BY <1>1, <1>2, TakenIsSigma, SigmaNat

\* What EditCard writes.
EditedCard(copy, e, amount) ==
    CASE e = "activate"   -> [copy EXCEPT !.active = TRUE]
      [] e = "deactivate" -> [copy EXCEPT !.active = FALSE]
      [] e = "recharge"   -> [copy EXCEPT !.balance = @ + amount]
      [] e = "update"     -> [copy EXCEPT !.balance = amount]

EditedLoad(c, e, amount) ==
    CASE e = "recharge" -> loaded[c] + amount
      [] e = "update"   -> amount + Taken(charged, c)
      [] OTHER          -> loaded[c]

\* What an edit of a card does, with its cases by name.
LEMMA EditCardStep ==
    ASSUME TypeInv, NEW w \in Workers, NEW e \in Edits, NEW amount \in Amounts,
           EditCard(w, e, amount)
    PROVE  LET c == req[w].about IN
           /\ c \in Cards /\ req[w].copy \in Card /\ req[w].op = "edit"
           /\ card' = [card EXCEPT ![c] = EditedCard(req[w].copy, e, amount)]
           /\ loaded' = [loaded EXCEPT ![c] = EditedLoad(c, e, amount)]
           /\ req' = [req EXCEPT ![w] = Idle]
           /\ UNCHANGED <<order, payment, lock, charged, count>>
<1> DEFINE c == req[w].about
<1>1. /\ c \in Cards /\ req[w].copy \in Card /\ req[w].op = "edit"
      /\ req' = [req EXCEPT ![w] = Idle]
      /\ UNCHANGED <<order, payment, lock, charged, count>>
  BY DEF EditCard, TypeInv, RequestTypes, HasItsData
<1>2. card' = [card EXCEPT ![c] = EditedCard(req[w].copy, e, amount)]
  BY DEF EditCard, EditedCard
<1>3. loaded' = [loaded EXCEPT ![c] = EditedLoad(c, e, amount)]
  BY <1>1 DEF EditCard, EditedLoad, Taken, TypeInv, TableTypes
<1> QED
  BY <1>1, <1>2, <1>3

\* An administrator edits a card.
LEMMA EditCardTyped ==
    ASSUME TypeInv, NEW w \in Workers, NEW e \in Edits, NEW amount \in Amounts,
           EditCard(w, e, amount)
    PROVE  TypeInv'
<1> DEFINE c == req[w].about
           row == EditedCard(req[w].copy, e, amount)
           load == EditedLoad(c, e, amount)
<1>1. /\ c \in Cards /\ req[w].copy \in Card
      /\ card' = [card EXCEPT ![c] = row]
      /\ loaded' = [loaded EXCEPT ![c] = load]
      /\ req' = [req EXCEPT ![w] = Idle]
      /\ UNCHANGED <<order, payment, lock, charged, count>>
  BY EditCardStep
<1>2. amount \in Nat /\ e \in {"activate", "deactivate", "recharge", "update"}
  BY CardAssumption
<1>3. row \in Card
  <2>1. req[w].copy \in Card /\ amount \in Int
    BY <1>1, <1>2
  <2>2. [req[w].copy EXCEPT !.active = TRUE] \in Card
    BY <2>1 DEF Card
  <2>3. [req[w].copy EXCEPT !.active = FALSE] \in Card
    BY <2>1 DEF Card
  <2>4. [req[w].copy EXCEPT !.balance = @ + amount] \in Card
    BY <2>1 DEF Card
  <2>5. [req[w].copy EXCEPT !.balance = amount] \in Card
    BY <2>1 DEF Card
  <2> QED
    BY <1>2, <2>2, <2>3, <2>4, <2>5 DEF EditedCard
<1>4. load \in Nat
  <2>1. loaded[c] \in Nat /\ Taken(charged, c) \in Nat
    BY <1>1, TakenNat DEF TypeInv, TableTypes
  <2> QED
    BY <1>2, <2>1 DEF EditedLoad
<1>5. card' \in [Cards -> Card] /\ loaded' \in [Cards -> Nat]
  <2> HIDE DEF row, load, c
  <2> QED
    BY <1>1, <1>3, <1>4 DEF TypeInv, TableTypes
<1>6. RequestTypes'
  BY <1>1, IdleIsTyped, RequestTyped DEF TypeInv
<1>7. TableTypes' /\ CountTypes'
  BY <1>1, <1>5 DEF TypeInv, TableTypes, CountTypes, count
<1> QED
  BY <1>6, <1>7 DEF TypeInv

\* Every step keeps the types.
LEMMA TypeStep == TypeInv /\ [Next]_vars => TypeInv'
<1> SUFFICES ASSUME TypeInv, [Next]_vars PROVE TypeInv'
  OBVIOUS
<1>1. ASSUME NEW w \in Workers, Step(w) PROVE TypeInv'
  <2>1. CASE SkipCard(w) \/ TryCard(w) \/ LockCard(w)
    BY <2>1, TryingTyped
  <2>2. CASE NoCard(w) \/ Done(w) \/ Fail(w)
    BY <2>2, EndTyped
  <2>3. CASE \E e \in Edits, a \in Amounts : EditCard(w, e, a)
    BY <2>3, EditCardTyped
  <2> QED
    BY <1>1, <2>1, <2>2, <2>3, SaveFirstTyped, ReadTyped, GrantTyped, ChargeTyped, MarkTyped,
       SaveCompletedTyped DEF Step
<1>2. ASSUME NEW w \in Workers, Submit(w) PROVE TypeInv'
  BY <1>2, LoadTyped, LoadCardTyped DEF Submit, Pay, Complete, Cancel, Reset, OnOrder
<1>3. ASSUME NEW c \in Cards, Expire(c) PROVE TypeInv'
  <2>1. lock' = [lock EXCEPT ![c] = Free] /\ UNCHANGED <<table, req, ghost, count>>
    BY <1>3 DEF Expire
  <2> QED
    BY <2>1 DEF TypeInv, TableTypes, CountTypes, RequestTypes, table, ghost, count
<1>4. CASE UNCHANGED vars
  BY <1>4 DEF vars, TypeInv, TableTypes, CountTypes, RequestTypes
<1> QED
  BY <1>1, <1>2, <1>3, <1>4 DEF Next

\* They hold in the beginning.
LEMMA TypeInit == Init => TypeInv
<1> SUFFICES ASSUME Init PROVE TypeInv
  OBVIOUS
<1>1. TableTypes
  BY CardAssumption DEF Init, TableTypes, Card, Order, Payments
<1>2. CountTypes
  BY CardAssumption DEF Init, CountTypes
<1>3. RequestTypes
  BY IdleIsTyped DEF Init, RequestTypes
<1> QED
  BY <1>1, <1>2, <1>3 DEF TypeInv

\* Hence they hold always.
LEMMA TypeInvariant == Spec => []TypeInv
BY TypeInit, TypeStep, PTL DEF Spec

\* Rows and copies have their types, whatever requests do at a time and wherever
\* they stop: a request uses only what it has read (TypeOK).
THEOREM TypeCorrect == Spec => []TypeOK
BY TypeInvariant, TypeInvIsTypeOK, PTL

-----------------------------------------------------------------------------
(* No recharge and no charge of a card is lost if a request that writes a  *)
(* card holds a copy of its row as it is.                                  *)

Booked == \A c \in Cards : card[c].balance = loaded[c] - Taken(charged, c)

\* Booked is NothingLost, with the sum as an operator of its own.
LEMMA NothingLostIsBooked == NothingLost <=> Booked
BY DEF NothingLost, Booked, Taken

\* ... in the next state, too.
LEMMA NothingLostNext == NothingLost' <=> Booked'
BY NothingLostIsBooked, PTL

\* A step that leaves the cards and the sums alone loses nothing.
LEMMA SameBooks ==
    ASSUME NothingLost, UNCHANGED <<card, loaded, charged>>
    PROVE  NothingLost'
BY NothingLostIsBooked, NothingLostNext DEF Booked

\* What was taken from a card grows by what is charged to it.
LEMMA TakenChanges ==
    ASSUME NEW m \in [Orders -> [Cards -> Nat]], NEW n \in [Orders -> [Cards -> Nat]],
           NEW o \in Orders, \A p \in Orders \ {o} : n[p] = m[p]
    PROVE  \A d \in Cards : Taken(n, d) = Taken(m, d) + (n[o][d] - m[o][d])
<1> SUFFICES ASSUME NEW d \in Cards
             PROVE  Taken(n, d) = Taken(m, d) + (n[o][d] - m[o][d])
  OBVIOUS
<1> DEFINE g == Column(m, d)
           h == Column(n, d)
<1>1. /\ \A p \in Orders : g[p] \in Int /\ h[p] \in Int
      /\ \A p \in Orders \ {o} : g[p] = h[p]
      /\ h[o] - g[o] = n[o][d] - m[o][d]
  BY DEF Column
<1>2. IsFiniteSet(Orders)
  BY CardAssumption
<1>4. Sigma(h, Orders) = Sigma(g, Orders) + (h[o] - g[o])
  <2> HIDE DEF g, h
  <2> QED
    BY <1>1, <1>2, SigmaChange
<1> QED
  BY <1>1, <1>4, TakenIsSigma

\* A charge loses nothing if the copy of its card is the row.
LEMMA ChargeIsBooked ==
    ASSUME TypeInv, NothingLost, NEW w \in Workers, Charge(w),
           \A c \in req[w].todo : req[w].cards[c] = card[c]
    PROVE  NothingLost'
<1>1. PICK c \in req[w].todo :
         /\ card' = [card EXCEPT ![c] = [req[w].cards[c] EXCEPT !.balance =
                                           @ - req[w].payments[c].amount]]
         /\ charged' = [charged EXCEPT ![req[w].about][c] = @ + req[w].payments[c].amount]
         /\ UNCHANGED loaded
  BY DEF Charge
<1> DEFINE o == req[w].about
           amount == req[w].payments[c].amount
<1>2. /\ c \in Cards /\ o \in Orders /\ req[w].cards[c] = card[c]
      /\ req[w].payments \in Payments /\ req[w].payments[c] # None
  BY DEF TypeInv, RequestTypes, HasItsData, OnOrder, Charge, Request
<1>3. amount \in Nat
  BY <1>2 DEF Payments, Payment
<1>4. /\ charged \in [Orders -> [Cards -> Nat]] /\ charged' \in [Orders -> [Cards -> Nat]]
      /\ card \in [Cards -> Card] /\ loaded \in [Cards -> Nat]
  BY TypeInv, ChargeTyped DEF TypeInv, TableTypes
<1>5. charged' = [charged EXCEPT ![o][c] = @ + amount]
  BY <1>1
<1>6. \A d \in Cards :
         Taken(charged', d) = Taken(charged, d) + (IF d = c THEN amount ELSE 0)
  <2> HIDE DEF o, amount
  <2>1. \A p \in Orders \ {o} : charged'[p] = charged[p]
    BY <1>4, <1>5
  <2>2. \A d \in Cards : Taken(charged', d) = Taken(charged, d) +
                                             (charged'[o][d] - charged[o][d])
    BY <1>2, <1>4, <2>1, TakenChanges
  <2>3. \A d \in Cards : charged'[o][d] = charged[o][d] + (IF d = c THEN amount ELSE 0)
    BY <1>2, <1>3, <1>4, <1>5
  <2>4. \A d \in Cards : charged[o][d] \in Nat
    BY <1>2, <1>4
  <2> QED
    BY <1>3, <2>2, <2>3, <2>4
<1>7. \A d \in Cards : card'[d].balance = card[d].balance - (IF d = c THEN amount ELSE 0)
  <2>1. card' = [card EXCEPT ![c] = [card[c] EXCEPT !.balance = @ - amount]]
    BY <1>1, <1>2
  <2>2. \A d \in Cards : card[d].balance \in Int /\ "balance" \in DOMAIN card[d]
    BY <1>4 DEF Card
  <2> HIDE DEF amount
  <2> QED
    BY <1>2, <1>3, <1>4, <2>1, <2>2
<1>8. ASSUME NEW d \in Cards PROVE card'[d].balance = loaded'[d] - Taken(charged', d)
  <2>1. card[d].balance = loaded[d] - Taken(charged, d)
    BY NothingLostIsBooked DEF Booked
  <2>2. Taken(charged, d) \in Nat /\ loaded[d] \in Nat
    BY <1>4, TakenNat
  <2>3. loaded'[d] = loaded[d]
    BY <1>1
  <2> HIDE DEF amount
  <2> QED
    BY <1>3, <1>6, <1>7, <2>1, <2>2, <2>3
<1> QED
  BY <1>8, NothingLostNext DEF Booked

\* Nor does an edit, whatever it changes.
LEMMA EditIsBooked ==
    ASSUME TypeInv, NothingLost, NEW w \in Workers, NEW e \in Edits, NEW amount \in Amounts,
           EditCard(w, e, amount), req[w].copy = card[req[w].about]
    PROVE  NothingLost'
<1> DEFINE c == req[w].about
           row == EditedCard(card[c], e, amount)
           load == EditedLoad(c, e, amount)
<1>1. /\ c \in Cards /\ card[c] \in Card
      /\ card' = [card EXCEPT ![c] = row]
      /\ loaded' = [loaded EXCEPT ![c] = load]
      /\ charged' = charged
  BY EditCardStep
<1>2. /\ charged \in [Orders -> [Cards -> Nat]]
      /\ card \in [Cards -> Card] /\ loaded \in [Cards -> Nat]
  BY DEF TypeInv, TableTypes
<1>3. /\ amount \in Nat /\ card[c].balance \in Int /\ loaded[c] \in Nat
      /\ Taken(charged, c) \in Nat
  BY <1>1, <1>2, TakenNat, CardAssumption DEF Card
<1>4. card[c].balance = loaded[c] - Taken(charged, c)
  BY <1>1, NothingLostIsBooked DEF Booked
<1>5. row.balance = load - Taken(charged, c)
  <2>1. e \in {"activate", "deactivate", "recharge", "update"}
    BY CardAssumption
  <2>2. /\ [card[c] EXCEPT !.active = TRUE].balance = card[c].balance
        /\ [card[c] EXCEPT !.active = FALSE].balance = card[c].balance
        /\ [card[c] EXCEPT !.balance = @ + amount].balance = card[c].balance + amount
        /\ [card[c] EXCEPT !.balance = amount].balance = amount
    BY <1>1 DEF Card
  <2>3. CASE e \in {"activate", "deactivate"}
    BY <1>4, <2>2, <2>3 DEF EditedCard, EditedLoad
  <2>4. CASE e = "recharge"
    <3>1. row.balance = card[c].balance + amount /\ load = loaded[c] + amount
      BY <2>2, <2>4 DEF EditedCard, EditedLoad
    <3> HIDE DEF row, load
    <3> QED
      BY <1>3, <1>4, <3>1
  <2>5. CASE e = "update"
    <3>1. row.balance = amount /\ load = amount + Taken(charged, c)
      BY <2>2, <2>5 DEF EditedCard, EditedLoad
    <3> HIDE DEF row, load
    <3> QED
      BY <1>3, <3>1
  <2> QED
    BY <2>1, <2>3, <2>4, <2>5
<1>6. ASSUME NEW d \in Cards PROVE card'[d].balance = loaded'[d] - Taken(charged, d)
  <2>1. card[d].balance = loaded[d] - Taken(charged, d)
    BY NothingLostIsBooked DEF Booked
  <2> HIDE DEF row, load, c
  <2> QED
    BY <1>1, <1>2, <1>5, <2>1
<1>7. \A d \in Cards : card'[d].balance = loaded'[d] - Taken(charged', d)
  BY <1>1, <1>6
<1> QED
  BY <1>7, NothingLostNext DEF Booked

-----------------------------------------------------------------------------
(* One request at a time, of any kind, and any of them may stop half-way.  *)

\* Of a card yet to be charged, and of one that is edited, the row has not changed
\* since it was read.
IsFresh(r) ==
    /\ r.op = "edit" => r.copy = card[r.about]
    /\ r.op = "complete" /\ r.at \in {"charge", "mark"} =>
          \A c \in r.todo : (r.at = "mark" /\ c = r.card) \/ r.cards[c] = card[c]

Fresh == \A w \in Workers : IsFresh(req[w])

\* One worker finds the rows as it has read them, after every step of its own.
LEMMA FreshStep ==
    ASSUME \A w, x \in Workers : w = x, TypeInv, Fresh, [Next]_vars
    PROVE  Fresh'
<1>1. ASSUME NEW w \in Workers, NEW r, req' = [req EXCEPT ![w] = r], IsFresh(r)'
      PROVE  Fresh'
  <2>1. \A x \in Workers : x = w
    OBVIOUS
  <2>2. req'[w] = r
    BY <1>1 DEF TypeInv, RequestTypes
  <2> QED
    BY <1>1, <2>1, <2>2 DEF Fresh, IsFresh
<1>2. ASSUME NEW w \in Workers, req' = [req EXCEPT ![w] = Idle] PROVE Fresh'
  <2>1. IsFresh(Idle)'
    BY DEF IsFresh, Idle
  <2> QED
    BY <1>1, <1>2, <2>1
<1>3. ASSUME NEW w \in Workers, Step(w) PROVE Fresh'
  <2>1. req[w] \in Request /\ HasItsData(req[w]) /\ IsFresh(req[w])
    BY DEF TypeInv, RequestTypes, Fresh
  <2>2. CASE SaveFirst(w)
    <3>1. PICK r : r = [req[w] EXCEPT !.at = "saved"]
      OBVIOUS
    <3>2. IsFresh(r)'
      BY <2>1, <2>2, <3>1 DEF IsFresh, SaveFirst, Request
    <3> QED
      BY <1>1, <2>2, <3>1, <3>2 DEF SaveFirst, TypeInv, RequestTypes
  <2>3. CASE Read(w)
    <3>1. PICK r : req' = [req EXCEPT ![w] = r] /\ r.cards = card /\ r.op \in OnOrder
      <4> DEFINE r == [req[w] EXCEPT
                         !.at = CASE req[w].op = "pay"      -> "trying"
                                  [] req[w].op = "complete" -> "charge"
                                  [] OTHER                  -> "mark",
                         !.cards = card, !.payments = payment[req[w].about],
                         !.todo = IF req[w].op = "pay" THEN {c \in Cards : Usable(c)}
                                  ELSE {c \in Cards : payment[req[w].about][c] # None}]
      <4>1. r.cards = card /\ r.op \in OnOrder
        BY <2>1, <2>3 DEF Read, Request, OnOrder
      <4> QED
        BY <2>3, <4>1 DEF Read
    <3>2. IsFresh(r)'
      BY <2>3, <3>1 DEF IsFresh, Read, table, OnOrder
    <3> QED
      BY <1>1, <3>1, <3>2
  <2>4. CASE SkipCard(w)
    <3>1. PICK c \in req[w].todo : req' = [req EXCEPT ![w].todo = @ \ {c}]
      BY <2>4 DEF SkipCard
    <3>2. PICK r : r = [req[w] EXCEPT !.todo = @ \ {c}]
      OBVIOUS
    <3>3. IsFresh(r)'
      BY <2>1, <2>4, <3>2 DEF IsFresh, SkipCard, Request, HasItsData
    <3> QED
      BY <1>1, <3>1, <3>2, <3>3 DEF TypeInv, RequestTypes
  <2>5. CASE TryCard(w)
    <3>1. PICK c \in req[w].todo :
             req' = [req EXCEPT ![w] = [req[w] EXCEPT !.card = c, !.at = "lock"]]
      BY <2>5 DEF TryCard
    <3>2. PICK r : r = [req[w] EXCEPT !.card = c, !.at = "lock"]
      OBVIOUS
    <3>3. IsFresh(r)'
      BY <2>1, <2>5, <3>2 DEF IsFresh, TryCard, Request, HasItsData
    <3> QED
      BY <1>1, <3>1, <3>2, <3>3
  <2>6. CASE LockCard(w)
    <3>1. PICK r : r = [req[w] EXCEPT !.at = "grant"]
      OBVIOUS
    <3>2. IsFresh(r)'
      BY <2>1, <2>6, <3>1 DEF IsFresh, LockCard, Request, HasItsData
    <3> QED
      BY <1>1, <2>6, <3>1, <3>2 DEF LockCard, TypeInv, RequestTypes
  <2>7. CASE Charge(w)
    <3>1. PICK c \in req[w].todo :
             /\ card' = [card EXCEPT ![c] = [req[w].cards[c] EXCEPT !.balance =
                                               @ - req[w].payments[c].amount]]
             /\ req' = [req EXCEPT ![w] = [req[w] EXCEPT !.card = c, !.at = "mark"]]
      BY <2>7 DEF Charge
    <3>2. PICK r : r = [req[w] EXCEPT !.card = c, !.at = "mark"]
      OBVIOUS
    <3>3. \A d \in Cards \ {c} : card'[d] = card[d]
      BY <3>1 DEF TypeInv, TableTypes
    <3>4. req[w].op = "complete" /\ req[w].todo \subseteq Cards
      BY <2>1, <2>7 DEF HasItsData, Charge, Request
    <3>5. /\ r.op = "complete" /\ r.at = "mark" /\ r.card = c
          /\ r.todo = req[w].todo /\ r.cards = req[w].cards
      BY <2>1, <3>2, <3>4 DEF Request
    <3>6. \A d \in req[w].todo : req[w].cards[d] = card[d]
      BY <2>1, <2>7, <3>4 DEF IsFresh, Charge
    <3>7. IsFresh(r)'
      BY <3>3, <3>4, <3>5, <3>6 DEF IsFresh
    <3> QED
      BY <1>1, <3>1, <3>2, <3>7
  <2>8. CASE Mark(w)
    <3>1. PICK c \in req[w].todo :
             /\ req[w].op = "complete" => c = req[w].card
             /\ req' = [req EXCEPT ![w] =
                  [req[w] EXCEPT !.todo = @ \ {c}, !.card = None,
                                 !.at = IF req[w].op = "complete" THEN "charge" ELSE "mark"]]
      BY <2>8 DEF Mark
    <3>2. PICK r : r = [req[w] EXCEPT !.todo = @ \ {c}, !.card = None,
                          !.at = IF req[w].op = "complete" THEN "charge" ELSE "mark"]
      OBVIOUS
    <3>3. /\ r.op = req[w].op /\ r.op # "edit"
          /\ r.todo = req[w].todo \ {c} /\ r.cards = req[w].cards
      BY <2>1, <2>8, <3>2 DEF Request, HasItsData, Mark
    <3>4. card' = card
      BY <2>8 DEF Mark
    <3>5. IsFresh(r)'
      BY <2>1, <2>8, <3>1, <3>3, <3>4 DEF IsFresh, Mark
    <3> QED
      BY <1>1, <3>1, <3>2, <3>5
  <2>9. CASE \/ Grant(w) \/ NoCard(w) \/ SaveCompleted(w) \/ Done(w) \/ Fail(w)
             \/ \E e \in Edits, a \in Amounts : EditCard(w, e, a)
    BY <1>2, <2>9 DEF Grant, NoCard, SaveCompleted, Done, Fail, EditCard
  <2> QED
    BY <1>3, <2>2, <2>3, <2>4, <2>5, <2>6, <2>7, <2>8, <2>9 DEF Step
<1>4. ASSUME NEW w \in Workers, NEW op \in OnOrder, NEW o \in Orders, Load(w, op, o)
      PROVE  Fresh'
  <2>1. PICK r : r = [Idle EXCEPT !.op = op, !.about = o, !.at = "loaded", !.copy = order[o]]
    OBVIOUS
  <2>2. IsFresh(r)'
    BY <2>1 DEF IsFresh, Idle, OnOrder
  <2> QED
    BY <1>1, <1>4, <2>1, <2>2 DEF Load
<1>5. ASSUME NEW w \in Workers, NEW c \in Cards, LoadCard(w, c) PROVE Fresh'
  <2>1. PICK r : r = [Idle EXCEPT !.op = "edit", !.about = c, !.at = "loaded", !.copy = card[c]]
    OBVIOUS
  <2>2. card' = card
    BY <1>5 DEF LoadCard, table
  <2>3. IsFresh(r)'
    BY <2>1, <2>2 DEF IsFresh, Idle
  <2> QED
    BY <1>1, <1>5, <2>1, <2>3 DEF LoadCard
<1>6. ASSUME NEW c \in Cards, Expire(c) PROVE Fresh'
  BY <1>6 DEF Expire, table, Fresh, IsFresh
<1>7. CASE UNCHANGED vars
  BY <1>7 DEF vars, Fresh, IsFresh
<1> QED
  BY <1>3, <1>4, <1>5, <1>6, <1>7 DEF Next, Submit, Pay, Complete, Cancel, Reset, OnOrder

\* In the beginning nothing is lost.
LEMMA BookedInit == Init => NothingLost
<1> SUFFICES ASSUME Init, NEW c \in Cards PROVE card[c].balance = loaded[c] - Taken(charged, c)
  BY NothingLostIsBooked DEF Booked
<1>1. card[c].balance = Balance0[c] /\ loaded[c] = Balance0[c] /\ Balance0[c] \in Nat
  BY CardAssumption DEF Init
<1>2. \A o \in Orders : Column(charged, c)[o] = 0
  BY DEF Init, Column
<1>3. IsFiniteSet(Orders)
  BY CardAssumption
<1>4. Taken(charged, c) = 0
  BY <1>2, <1>3, SigmaZero, TakenIsSigma
<1> QED
  BY <1>1, <1>4

\* Only a charge and an edit touch a balance.
LEMMA BookedStep ==
    ASSUME TypeInv, Fresh, NothingLost, [Next]_vars
    PROVE  NothingLost'
<1>1. ASSUME NEW w \in Workers, Step(w) PROVE NothingLost'
  <2>1. CASE Charge(w)
    <3>1. \A c \in req[w].todo : req[w].cards[c] = card[c]
      BY <2>1 DEF Charge, Fresh, IsFresh, TypeInv, RequestTypes, HasItsData
    <3> QED
      BY <2>1, <3>1, ChargeIsBooked
  <2>2. CASE \E e \in Edits, a \in Amounts : EditCard(w, e, a)
    <3>1. PICK e \in Edits, a \in Amounts : EditCard(w, e, a)
      BY <2>2
    <3>2. req[w].copy = card[req[w].about]
      BY <3>1 DEF EditCard, Fresh, IsFresh
    <3> QED
      BY <3>1, <3>2, EditIsBooked
  <2>3. CASE \/ SaveFirst(w) \/ Read(w) \/ SkipCard(w) \/ TryCard(w) \/ LockCard(w)
             \/ Grant(w) \/ NoCard(w) \/ Mark(w) \/ SaveCompleted(w) \/ Done(w) \/ Fail(w)
    BY <2>3, SameBooks DEF SaveFirst, Read, SkipCard, TryCard, LockCard, Grant, NoCard, Mark,
       SaveCompleted, Done, Fail, table, ghost
  <2> QED
    BY <1>1, <2>1, <2>2, <2>3 DEF Step
<1>2. ASSUME NEW w \in Workers, Submit(w) PROVE NothingLost'
  BY <1>2, SameBooks DEF Submit, Pay, Complete, Cancel, Reset, Load, LoadCard, table, ghost
<1>3. ASSUME NEW c \in Cards, Expire(c) PROVE NothingLost'
  BY <1>3, SameBooks DEF Expire, table, ghost
<1>4. CASE UNCHANGED vars
  BY <1>4, SameBooks DEF vars
<1> QED
  BY <1>1, <1>2, <1>3, <1>4 DEF Next

\* One request at a time: no recharge and no charge of a card is lost, whatever the
\* administrators do and wherever a request stops (completeOrder, rechargeGiftCard).
THEOREM NothingLostOneAtATime ==
    ASSUME \A w, x \in Workers : w = x
    PROVE  Spec => []NothingLost
<1>1. Init => Fresh
  BY DEF Init, Fresh, IsFresh, Idle
<1>2. TypeInv /\ Fresh /\ [Next]_vars => Fresh'
  BY FreshStep
<1>3. TypeInv /\ Fresh /\ NothingLost /\ [Next]_vars => NothingLost'
  BY BookedStep
<1> QED
  BY <1>1, <1>2, <1>3, BookedInit, TypeInvariant, PTL DEF Spec

-----------------------------------------------------------------------------
(* Volunteers who work on different orders at a time.  The invariant says  *)
(* what an order's payments and charges are by its status when no request  *)
(* is about it, and by how far a request has got with them otherwise.      *)

\* Of an open order no payment has been charged yet.
IsOpen(pays, taken) ==
    \A c \in Cards : /\ pays[c] # None => pays[c].status = "IP"
                     /\ taken[c] = 0

IsPaid(pays, taken) ==
    \A c \in Cards :
        IF pays[c] = None THEN taken[c] = 0
        ELSE pays[c].status = "C" /\ taken[c] = pays[c].amount

IsWithdrawn(pays, taken) ==
    \A c \in Cards : /\ pays[c] # None => pays[c].status = "CN"
                     /\ taken[c] = 0

Rest(row, pays, taken) ==
    /\ row.status = "OPEN" => IsOpen(pays, taken)
    /\ row.status = "ORDERED" => IsPaid(pays, taken) /\ Sum(pays) \in {0, row.subTotal}
    /\ row.status = "CANCELLED" => IsWithdrawn(pays, taken)

Positive(row, pays) ==
    /\ row.subTotal > 0
    /\ \A c \in Cards : pays[c] # None => pays[c].amount > 0

\* The request has read the payment of c and written nothing of it yet.
InHand(r, c) == c \in r.todo /\ ~(r.op = "complete" /\ r.at = "mark" /\ c = r.card)

IsLeft(r, c, pays, taken) ==
    /\ r.payments[c] # None /\ r.payments[c].status = "IP" /\ r.payments[c].amount > 0
    /\ pays[c] = r.payments[c]
    /\ taken[c] = 0

\* A card is charged before its payment is marked.
IsHandled(r, c, pays, taken) ==
    /\ taken[c] = IF r.op = "complete" /\ r.payments[c] # None THEN r.payments[c].amount ELSE 0
    /\ r.payments[c] = None => pays[c] = None
    /\ r.payments[c] # None =>
          pays[c] = CASE r.op = "complete" /\ c \in r.todo -> r.payments[c]
                      [] r.op = "complete" /\ c \notin r.todo ->
                            [r.payments[c] EXCEPT !.status = "C"]
                      [] r.op = "cancel" -> [r.payments[c] EXCEPT !.status = "CN"]
                      [] OTHER -> None

InRequest(r, row, pays, taken) ==
    /\ row.status = IF r.op = "cancel" /\ r.at \in {"saved", "mark"} THEN "CANCELLED" ELSE "OPEN"
    /\ r.copy.subTotal > 0
    /\ r.at \in {"loaded", "saved", "trying", "lock", "grant"} => IsOpen(pays, taken)
    /\ r.at \in {"trying", "lock", "grant"} => r.payments = pays
    /\ r.at = "grant" => pays[r.card] = None
    /\ r.op = "complete" /\ r.at = "mark" =>
          r.card \in r.todo /\ r.payments[r.card] # None /\ r.payments[r.card].amount > 0
    /\ r.at \in {"charge", "mark"} =>
          \A c \in Cards : IF InHand(r, c) THEN IsLeft(r, c, pays, taken)
                           ELSE IsHandled(r, c, pays, taken)

\* The rows of the cards yet to be charged have not changed since they were read.
CopiesAreFresh(r, rows) ==
    r.op = "complete" /\ r.at \in {"charge", "mark"} =>
        \A c \in r.todo : InHand(r, c) => r.cards[c] = rows[c]

Works(w) == req[w].op \in OnOrder

OneRequest ==
    \A w, x \in Workers : Works(w) /\ Works(x) /\ req[w].about = req[x].about => w = x

InRequests ==
    \A w \in Workers : Works(w) =>
        LET o == req[w].about IN
        /\ InRequest(req[w], order[o], payment[o], charged[o])
        /\ CopiesAreFresh(req[w], card)

AtRest == \A o \in Orders : ~Busy(o) => Rest(order[o], payment[o], charged[o])

AllPositive == \A o \in Orders : Positive(order[o], payment[o])

NoEdits == \A w \in Workers : Works(w) \/ req[w] = Idle

Book == OneRequest /\ InRequests /\ AtRest /\ AllPositive /\ NoEdits

Inv == TypeInv /\ IInv /\ Book

\* Without edits, requests are about orders.
LEMMA BusyIsWorks ==
    ASSUME NoEdits, NEW o \in Orders, NEW w \in Workers
    PROVE  About(w, o) <=> Works(w) /\ req[w].about = o
BY CardAssumption DEF NoEdits, About, Works, Idle, OnOrder

\* A card is in the hands of one order.
LEMMA InHandOfOne ==
    ASSUME Inv, NEW w \in Workers, NEW o \in Orders, NEW c \in Cards,
           Works(w), req[w].op = "complete", req[w].at \in {"charge", "mark"},
           InHand(req[w], c), InProgress(o, c)
    PROVE  req[w].about = o
<1> DEFINE p == req[w].about
<1>1. p \in Orders /\ InRequest(req[w], order[p], payment[p], charged[p])
  BY DEF Inv, Book, InRequests, TypeInv, RequestTypes, HasItsData, Works
<1>2. IsLeft(req[w], c, payment[p], charged[p])
  BY <1>1 DEF InRequest
<1>3. InProgress(p, c)
  BY <1>2 DEF IsLeft, InProgress
<1> QED
  BY <1>1, <1>3 DEF Inv, IInv, CardIsLocked

\* What a step of a request about an order leaves alone: the other orders and
\* requests.  What is left to see is the order and the request itself.
LEMMA Frame ==
    ASSUME Inv, NEW w \in Workers, NEW o \in Orders, NEW r,
           (Works(w) /\ req[w].about = o) \/ (req[w] = Idle /\ ~Busy(o)),
           req' = [req EXCEPT ![w] = r],
           \A p \in Orders \ {o} :
              order'[p] = order[p] /\ payment'[p] = payment[p] /\ charged'[p] = charged[p],
           \A c \in Cards : card'[c] = card[c] \/ InProgress(o, c),
           r = Idle \/ (r.op \in OnOrder /\ r.about = o),
           r.op \in OnOrder => /\ InRequest(r, order'[o], payment'[o], charged'[o])
                               /\ CopiesAreFresh(r, card'),
           r.op \notin OnOrder => Rest(order'[o], payment'[o], charged'[o]),
           Positive(order'[o], payment'[o])
    PROVE  Book'
<1>1. req'[w] = r /\ \A x \in Workers \ {w} : req'[x] = req[x]
  BY DEF Inv, TypeInv, RequestTypes
<1>2. \A x \in Workers \ {w} : Works(x) => req[x].about # o
  <2> SUFFICES ASSUME NEW x \in Workers \ {w}, Works(x), req[x].about = o PROVE FALSE
    OBVIOUS
  <2>1. CASE Works(w) /\ req[w].about = o
    BY <2>1 DEF Inv, Book, OneRequest
  <2>2. CASE ~Busy(o)
    BY <2>2, BusyIsWorks DEF Busy, Inv, Book
  <2> QED
    BY <2>1, <2>2
<1>3. \A x \in Workers : Works(x)' <=> req'[x].op \in OnOrder
  BY DEF Works
<1>4. NoEdits'
  BY <1>1, <1>3 DEF NoEdits, Inv, Book, Works
<1>5. OneRequest'
  BY <1>1, <1>2 DEF OneRequest, Works, Inv, Book, Idle, OnOrder
<1>6. AllPositive'
  BY DEF AllPositive, Inv, Book
<1>7. AtRest'
  <2> SUFFICES ASSUME NEW p \in Orders, ~Busy(p)'
               PROVE  Rest(order'[p], payment'[p], charged'[p])
    BY DEF AtRest
  <2>1. CASE p = o
    <3>1. ~(r.op \in OnOrder)
      BY <1>1, <2>1 DEF Busy, About, OnOrder, Idle
    <3> QED
      BY <2>1, <3>1
  <2>2. CASE p # o
    <3>1. \A x \in Workers \ {w} : ~About(x, p)
      BY <1>1 DEF Busy, About
    <3>2. ~About(w, p)
      BY <2>2, CardAssumption DEF About, Idle
    <3>3. ~Busy(p)
      BY <3>1, <3>2 DEF Busy
    <3> QED
      BY <2>2, <3>3 DEF AtRest, Inv, Book
  <2> QED
    BY <2>1, <2>2
<1>8. InRequests'
  <2> SUFFICES ASSUME NEW x \in Workers, req'[x].op \in OnOrder
               PROVE  LET p == req'[x].about IN
                      /\ InRequest(req'[x], order'[p], payment'[p], charged'[p])
                      /\ CopiesAreFresh(req'[x], card')
    BY DEF InRequests, Works
  <2>1. CASE x = w
    BY <1>1, <2>1 DEF Idle, OnOrder
  <2>2. CASE x # w
    <3> DEFINE p == req[x].about
    <3>1. req'[x] = req[x] /\ Works(x)
      BY <1>1, <2>2 DEF Works
    <3>2. p # o /\ p \in Orders
      BY <1>2, <2>2, <3>1 DEF Inv, TypeInv, RequestTypes, HasItsData, Works
    <3>3. /\ InRequest(req[x], order[p], payment[p], charged[p])
          /\ CopiesAreFresh(req[x], card)
      BY <3>1 DEF Inv, Book, InRequests
    <3>4. ASSUME req[x].op = "complete", req[x].at \in {"charge", "mark"},
                 NEW c \in req[x].todo, InHand(req[x], c)
          PROVE  req[x].cards[c] = card'[c]
      <4>1. c \in Cards /\ req[x].cards[c] = card[c]
        BY <3>3, <3>4 DEF CopiesAreFresh, Inv, TypeInv, RequestTypes, Request
      <4>2. ~InProgress(o, c)
        BY <3>1, <3>2, <3>4, <4>1, InHandOfOne
      <4> QED
        BY <4>1, <4>2
    <3>5. CopiesAreFresh(req[x], card')
      BY <3>4 DEF CopiesAreFresh
    <3>6. InRequest(req[x], order'[p], payment'[p], charged'[p])
      BY <3>2, <3>3
    <3> QED
      BY <3>1, <3>5, <3>6
  <2> QED
    BY <2>1, <2>2
<1> QED
  BY <1>4, <1>5, <1>6, <1>7, <1>8 DEF Book

\* What the invariant says of a request in progress.
LEMMA AtWork ==
    ASSUME Inv, NEW w \in Workers, Works(w)
    PROVE  LET o == req[w].about IN
           /\ o \in Orders /\ req[w] \in Request /\ HasItsData(req[w])
           /\ InRequest(req[w], order[o], payment[o], charged[o])
           /\ CopiesAreFresh(req[w], card)
           /\ Positive(order[o], payment[o])
           /\ order[o] \in Order /\ payment[o] \in Payments /\ charged[o] \in [Cards -> Nat]
BY DEF Inv, Book, InRequests, AllPositive, TypeInv, RequestTypes, HasItsData, TableTypes, Works

\* Each action keeps the book. A request that starts knows nothing yet.
LEMMA LoadBooked ==
    ASSUME Disciplined, Inv, NEW w \in Workers, NEW op \in OnOrder, NEW o \in Orders,
           Load(w, op, o)
    PROVE  Book'
<1>1. /\ req[w] = Idle /\ ~Busy(o) /\ order[o].status = "OPEN"
      /\ UNCHANGED <<card, order, payment, charged>>
  BY DEF Load, Allowed, table, ghost
<1>2. PICK r : r = [Idle EXCEPT !.op = op, !.about = o, !.at = "loaded", !.copy = order[o]]
  OBVIOUS
<1>3. r.op = op /\ r.about = o /\ r.at = "loaded" /\ r.copy = order[o]
  BY <1>2 DEF Idle
<1>4. /\ Positive(order[o], payment[o])
      /\ IsOpen(payment[o], charged[o])
  BY <1>1 DEF Inv, Book, AllPositive, AtRest, Rest
<1>5. InRequest(r, order[o], payment[o], charged[o])
  BY <1>1, <1>3, <1>4 DEF InRequest, Positive
<1>6. CopiesAreFresh(r, card)
  BY <1>3 DEF CopiesAreFresh
<1>7. req' = [req EXCEPT ![w] = r]
  BY <1>2 DEF Load
<1> QED
  BY <1>1, <1>3, <1>4, <1>5, <1>6, <1>7, Frame

\* A cancellation or reset writes its order, whose payments are still as they were.
LEMMA SaveFirstBooked ==
    ASSUME Inv, NEW w \in Workers, SaveFirst(w)
    PROVE  Book'
<1> DEFINE o == req[w].about
<1>1. Works(w) /\ req[w].op \in {"cancel", "reset"} /\ req[w].at = "loaded"
  BY DEF SaveFirst, Works, OnOrder
<1>2. PICK r : r = [req[w] EXCEPT !.at = "saved"]
  OBVIOUS
<1>3. PICK row : row = [req[w].copy EXCEPT !.status =
                          IF req[w].op = "cancel" THEN "CANCELLED" ELSE "OPEN"]
  OBVIOUS
<1>4. /\ req' = [req EXCEPT ![w] = r] /\ order' = [order EXCEPT ![o] = row]
      /\ UNCHANGED <<card, payment, charged>>
  BY <1>2, <1>3 DEF SaveFirst, ghost, Inv, TypeInv, RequestTypes
<1>5. /\ r.op = req[w].op /\ r.about = o /\ r.at = "saved" /\ r.copy = req[w].copy
      /\ r.op \in OnOrder
  BY <1>1, <1>2, AtWork DEF Request, Works
<1>6. /\ row.status = IF r.op = "cancel" THEN "CANCELLED" ELSE "OPEN"
      /\ row.subTotal = req[w].copy.subTotal
  BY <1>1, <1>3, <1>5, AtWork DEF HasItsData, Order, Works
<1>7. order' = [order EXCEPT ![o] = row] /\ o \in Orders /\ DOMAIN order = Orders
  BY <1>1, <1>4, AtWork DEF Inv, TypeInv, TableTypes
<1>8. req[w].copy.subTotal > 0 /\ IsOpen(payment[o], charged[o])
  BY <1>1, AtWork DEF InRequest
<1>9. InRequest(r, row, payment[o], charged[o])
  BY <1>1, <1>5, <1>6, <1>8 DEF InRequest
<1>10. CopiesAreFresh(r, card) /\ Positive(row, payment[o])
  BY <1>1, <1>5, <1>6, <1>8, AtWork DEF CopiesAreFresh, Positive
<1>11. order'[o] = row /\ \A p \in Orders \ {o} : order'[p] = order[p]
  BY <1>7
<1> HIDE DEF o
<1> QED
  BY <1>1, <1>4, <1>5, <1>7, <1>9, <1>10, <1>11, Frame DEF o

\* The copies of payments and cards are the rows; cards it will charge are its own.
LEMMA ReadBooked ==
    ASSUME Inv, NEW w \in Workers, Read(w)
    PROVE  Book'
<1> DEFINE o == req[w].about
           at == CASE req[w].op = "pay"      -> "trying"
                   [] req[w].op = "complete" -> "charge"
                   [] OTHER                  -> "mark"
           todo == IF req[w].op = "pay" THEN {c \in Cards : Usable(c)}
                   ELSE {c \in Cards : payment[o][c] # None}
<1>1. Works(w) /\ req[w].at = IF req[w].op \in {"pay", "complete"} THEN "loaded" ELSE "saved"
  BY DEF Read, Works, OnOrder
<1>2. PICK r : r = [req[w] EXCEPT !.at = at, !.cards = card, !.payments = payment[o],
                                  !.todo = todo]
  OBVIOUS
<1>3. req' = [req EXCEPT ![w] = r] /\ UNCHANGED <<order, payment, charged, card>>
  BY <1>2 DEF Read, table, ghost
<1>4. /\ r.op = req[w].op /\ r.about = o /\ r.at = at /\ r.copy = req[w].copy
      /\ r.cards = card /\ r.payments = payment[o] /\ r.todo = todo
      /\ r.op \in OnOrder
  BY <1>1, <1>2, AtWork DEF Request, Works
<1>5. /\ o \in Orders
      /\ InRequest(req[w], order[o], payment[o], charged[o])
      /\ Positive(order[o], payment[o])
  BY <1>1, AtWork
<1>6. /\ order[o].status = IF r.op = "cancel" THEN "CANCELLED" ELSE "OPEN"
      /\ r.copy.subTotal > 0
      /\ IsOpen(payment[o], charged[o])
  BY <1>1, <1>4, <1>5 DEF InRequest
<1>7. /\ at = "trying" <=> r.op = "pay"
      /\ at = "charge" <=> r.op = "complete"
      /\ at = "mark" <=> r.op \in {"cancel", "reset"}
      /\ at \in {"trying", "charge", "mark"}
  BY <1>4 DEF OnOrder
<1>8. r.op # "pay" => r.todo = {c \in Cards : payment[o][c] # None}
  BY <1>4
<1> HIDE DEF at, todo, o
<1>9. ASSUME r.at \in {"charge", "mark"}, NEW c \in Cards
      PROVE  IF InHand(r, c) THEN IsLeft(r, c, payment[o], charged[o])
             ELSE IsHandled(r, c, payment[o], charged[o])
  <2>1. InHand(r, c) <=> payment[o][c] # None
    BY <1>4, <1>7, <1>8, <1>9 DEF InHand
  <2>2. CASE payment[o][c] # None
    BY <1>4, <1>5, <1>6, <2>1, <2>2 DEF IsLeft, IsOpen, Positive
  <2>3. CASE payment[o][c] = None
    BY <1>4, <1>6, <2>1, <2>3 DEF IsHandled, IsOpen
  <2> QED
    BY <2>2, <2>3
<1>10. InRequest(r, order[o], payment[o], charged[o])
  BY <1>4, <1>6, <1>7, <1>9 DEF InRequest
<1>11. CopiesAreFresh(r, card)
  BY <1>4 DEF CopiesAreFresh
<1> QED
  BY <1>1, <1>3, <1>4, <1>5, <1>10, <1>11, Frame DEF o

\* The steps of paymentFor that write no table.
LEMMA TryingBooked ==
    ASSUME Inv, NEW w \in Workers, SkipCard(w) \/ TryCard(w) \/ LockCard(w)
    PROVE  Book'
<1> DEFINE o == req[w].about
<1>1. /\ Works(w) /\ req[w].op = "pay" /\ req[w].at \in {"trying", "lock"}
      /\ UNCHANGED <<order, payment, charged, card>>
  BY DEF SkipCard, TryCard, LockCard, table, ghost, Inv, TypeInv, RequestTypes, HasItsData,
         Works, OnOrder
<1>2. /\ o \in Orders /\ req[w] \in Request
      /\ InRequest(req[w], order[o], payment[o], charged[o])
      /\ Positive(order[o], payment[o])
  BY <1>1, AtWork
<1>3. /\ order[o].status = "OPEN" /\ req[w].copy.subTotal > 0
      /\ IsOpen(payment[o], charged[o]) /\ req[w].payments = payment[o]
  BY <1>1, <1>2 DEF InRequest
<1>4. ASSUME NEW r, req' = [req EXCEPT ![w] = r], r.op = "pay", r.about = o,
             r.copy = req[w].copy, r.payments = req[w].payments,
             r.at \in {"trying", "lock", "grant"},
             r.at = "grant" => payment[o][r.card] = None
      PROVE  Book'
  <2>1. InRequest(r, order[o], payment[o], charged[o])
    BY <1>3, <1>4 DEF InRequest
  <2>2. CopiesAreFresh(r, card) /\ r.op \in OnOrder
    BY <1>4 DEF CopiesAreFresh, OnOrder
  <2> QED
    BY <1>1, <1>2, <1>4, <2>1, <2>2, Frame
<1>5. CASE SkipCard(w)
  <2>1. PICK c \in req[w].todo : req' = [req EXCEPT ![w].todo = @ \ {c}]
    BY <1>5 DEF SkipCard
  <2>2. PICK r : r = [req[w] EXCEPT !.todo = @ \ {c}]
    OBVIOUS
  <2>3. /\ r.op = "pay" /\ r.about = o /\ r.copy = req[w].copy
        /\ r.payments = req[w].payments /\ r.at = "trying"
    BY <1>1, <1>2, <1>5, <2>2 DEF Request, SkipCard
  <2>4. req' = [req EXCEPT ![w] = r]
    BY <2>1, <2>2 DEF Inv, TypeInv, RequestTypes
  <2> QED
    BY <1>4, <2>3, <2>4
<1>6. CASE TryCard(w)
  <2>1. PICK c \in req[w].todo :
           req' = [req EXCEPT ![w] = [req[w] EXCEPT !.card = c, !.at = "lock"]]
    BY <1>6 DEF TryCard
  <2>2. PICK r : r = [req[w] EXCEPT !.card = c, !.at = "lock"]
    OBVIOUS
  <2>3. /\ r.op = "pay" /\ r.about = o /\ r.copy = req[w].copy
        /\ r.payments = req[w].payments /\ r.at = "lock"
    BY <1>1, <1>2, <2>2 DEF Request
  <2> QED
    BY <1>4, <2>1, <2>2, <2>3
<1>7. CASE LockCard(w)
  <2>1. PICK r : r = [req[w] EXCEPT !.at = "grant"]
    OBVIOUS
  <2>2. /\ r.op = "pay" /\ r.about = o /\ r.copy = req[w].copy
        /\ r.payments = req[w].payments /\ r.at = "grant" /\ r.card = req[w].card
    BY <1>1, <1>2, <2>1 DEF Request
  <2>3. payment[o][req[w].card] = None
    <3>1. lock[req[w].card] = Free /\ req[w].card \in Cards
      BY <1>7 DEF LockCard, Inv, TypeInv, RequestTypes, HasItsData
    <3>2. ~InProgress(o, req[w].card)
      BY <1>2, <3>1, CardAssumption DEF Inv, IInv, CardIsLocked
    <3> QED
      BY <1>3, <3>1, <3>2 DEF IsOpen, InProgress
  <2>4. req' = [req EXCEPT ![w] = r]
    BY <1>7, <2>1 DEF LockCard, Inv, TypeInv, RequestTypes
  <2> QED
    BY <1>4, <2>2, <2>3, <2>4
<1> QED
  BY <1>5, <1>6, <1>7

\* A card that is handed out is locked for the order, and no payment waits on it.
LEMMA GrantBooked ==
    ASSUME Inv, NEW w \in Workers, Grant(w)
    PROVE  Book'
<1> DEFINE o == req[w].about
           k == req[w].card
<1>1. Works(w) /\ req[w].op = "pay" /\ req[w].at = "grant" /\ k \in Cards
  BY DEF Grant, Inv, TypeInv, RequestTypes, HasItsData, Works, OnOrder
<1>2. /\ o \in Orders
      /\ InRequest(req[w], order[o], payment[o], charged[o])
      /\ Positive(order[o], payment[o]) /\ payment[o] \in Payments
  BY <1>1, AtWork
<1>3. /\ order[o].status = "OPEN" /\ req[w].copy.subTotal > 0
      /\ IsOpen(payment[o], charged[o]) /\ req[w].payments = payment[o]
      /\ payment[o][k] = None
  BY <1>1, <1>2 DEF InRequest
<1>4. PICK new : new = [amount |-> AmountFor(req[w]), status |-> "IP"]
  OBVIOUS
<1>5. new.amount > 0 /\ new.status = "IP"
  BY <1>3, <1>4 DEF AmountFor
<1>6. /\ payment' = [payment EXCEPT ![o][k] = new]
      /\ req' = [req EXCEPT ![w] = Idle] /\ UNCHANGED <<order, charged, card>>
  BY <1>3, <1>4 DEF Grant, ghost
<1>7. /\ \A p \in Orders \ {o} : payment'[p] = payment[p]
      /\ payment'[o] = [payment[o] EXCEPT ![k] = new]
  <2> HIDE DEF o, k
  <2> QED
    BY <1>2, <1>6 DEF Inv, TypeInv, TableTypes
<1>8. \A c \in Cards : payment'[o][c] = IF c = k THEN new ELSE payment[o][c]
  <2> HIDE DEF o, k
  <2> QED
    BY <1>1, <1>2, <1>7 DEF Payments
<1>9. Rest(order[o], payment'[o], charged[o])
  BY <1>3, <1>5, <1>8 DEF Rest, IsOpen
<1>10. Positive(order[o], payment'[o])
  BY <1>2, <1>5, <1>8 DEF Positive
<1>11. Idle.op \notin OnOrder
  BY DEF Idle, OnOrder
<1> QED
  BY <1>1, <1>2, <1>6, <1>7, <1>9, <1>10, <1>11, Frame

\* paymentFor ends without a card.
LEMMA NoCardBooked ==
    ASSUME Inv, NEW w \in Workers, NoCard(w)
    PROVE  Book'
<1> DEFINE o == req[w].about
<1>1. /\ Works(w) /\ req[w].op = "pay" /\ req[w].at = "trying"
      /\ req' = [req EXCEPT ![w] = Idle]
      /\ UNCHANGED <<order, payment, charged, card>>
  BY DEF NoCard, table, ghost, Inv, TypeInv, RequestTypes, HasItsData, Works, OnOrder
<1>2. /\ o \in Orders
      /\ InRequest(req[w], order[o], payment[o], charged[o])
      /\ Positive(order[o], payment[o])
  BY <1>1, AtWork
<1>3. Rest(order[o], payment[o], charged[o])
  BY <1>1, <1>2 DEF InRequest, Rest
<1>4. Idle.op \notin OnOrder
  BY DEF Idle, OnOrder
<1> QED
  BY <1>1, <1>2, <1>3, <1>4, Frame

\* A charge is the last word on its card: no other request has a copy to write.
LEMMA ChargeBooked ==
    ASSUME Inv, NEW w \in Workers, Charge(w)
    PROVE  Book'
<1>1. PICK c \in req[w].todo :
         /\ card' = [card EXCEPT ![c] = [req[w].cards[c] EXCEPT !.balance =
                                           @ - req[w].payments[c].amount]]
         /\ charged' = [charged EXCEPT ![req[w].about][c] = @ + req[w].payments[c].amount]
         /\ req' = [req EXCEPT ![w] = [req[w] EXCEPT !.card = c, !.at = "mark"]]
         /\ UNCHANGED <<order, payment>>
  BY DEF Charge
<1> DEFINE o == req[w].about
           pays == payment[o]
<1>2. Works(w) /\ req[w].op = "complete" /\ req[w].at = "charge"
  BY DEF Charge, Inv, TypeInv, RequestTypes, HasItsData, Works, OnOrder
<1>3. /\ o \in Orders /\ req[w] \in Request /\ c \in Cards
      /\ InRequest(req[w], order[o], pays, charged[o])
      /\ CopiesAreFresh(req[w], card)
      /\ Positive(order[o], pays) /\ charged[o] \in [Cards -> Nat]
  BY <1>2, AtWork DEF Request
<1>4. PICK r : r = [req[w] EXCEPT !.card = c, !.at = "mark"]
  OBVIOUS
<1>5. /\ r.op = "complete" /\ r.about = o /\ r.copy = req[w].copy /\ r.at = "mark"
      /\ r.card = c /\ r.todo = req[w].todo /\ r.payments = req[w].payments
      /\ r.cards = req[w].cards
  BY <1>2, <1>3, <1>4 DEF Request
<1>6. /\ order[o].status = "OPEN" /\ r.copy.subTotal > 0
  BY <1>2, <1>3, <1>5 DEF InRequest
<1>7. \A d \in Cards : InHand(req[w], d) <=> d \in r.todo
  BY <1>2, <1>5 DEF InHand
<1>8. \A d \in Cards : InHand(r, d) <=> d \in r.todo /\ d # c
  BY <1>5 DEF InHand
<1>9. \A d \in Cards : d \in r.todo => IsLeft(req[w], d, pays, charged[o])
  BY <1>2, <1>3, <1>7 DEF InRequest
<1>10. \A d \in Cards : d \notin r.todo => IsHandled(req[w], d, pays, charged[o])
  BY <1>2, <1>3, <1>7 DEF InRequest
<1>11. PICK amount : amount = r.payments[c].amount
  OBVIOUS
<1>12. /\ pays[c] = r.payments[c] /\ r.payments[c] # None /\ amount > 0 /\ charged[o][c] = 0
       /\ InProgress(o, c)
  BY <1>1, <1>3, <1>5, <1>9, <1>11 DEF IsLeft, InProgress
<1>13. amount \in Nat
  <2>1. r.payments \in Payments
    BY <1>2, <1>5, AtWork DEF HasItsData
  <2> QED
    BY <1>3, <1>11, <1>12, <2>1 DEF Payments, Payment
<1>14. PICK taken : taken = charged'[o]
  OBVIOUS
<1>15. /\ \A p \in Orders \ {o} : charged'[p] = charged[p]
       /\ \A d \in Cards : taken[d] = IF d = c THEN amount ELSE charged[o][d]
  <2>1. charged' = [charged EXCEPT ![o][c] = @ + amount]
    BY <1>1, <1>5, <1>11
  <2>2. charged \in [Orders -> [Cards -> Nat]]
    BY DEF Inv, TypeInv, TableTypes
  <2> HIDE DEF o
  <2> QED
    BY <1>3, <1>12, <1>13, <1>14, <2>1, <2>2
<1>16. \A d \in Cards : d # c => card'[d] = card[d]
  BY <1>1 DEF Inv, TypeInv, TableTypes
<1> HIDE DEF pays
<1>17. ASSUME NEW d \in Cards
       PROVE  IF InHand(r, d) THEN IsLeft(r, d, pays, taken) ELSE IsHandled(r, d, pays, taken)
  <2>1. CASE InHand(r, d)
    BY <1>5, <1>8, <1>9, <1>15, <2>1 DEF IsLeft
  <2>2. CASE d = c
    BY <1>1, <1>5, <1>8, <1>11, <1>12, <1>15, <2>2 DEF IsHandled
  <2>3. CASE d \notin r.todo
    <3>1. IsHandled(req[w], d, pays, charged[o]) /\ d # c
      BY <1>1, <1>5, <1>10, <2>3
    <3>2. taken[d] = charged[o][d]
      BY <1>15, <3>1
    <3> QED
      BY <1>2, <1>5, <1>8, <2>3, <3>1, <3>2 DEF IsHandled
  <2> QED
    BY <1>8, <2>1, <2>2, <2>3
<1>18. InRequest(r, order[o], pays, taken)
  BY <1>1, <1>5, <1>6, <1>11, <1>12, <1>17 DEF InRequest
<1>19. CopiesAreFresh(r, card')
  <2>1. \A d \in r.todo : d # c => r.cards[d] = card[d] /\ d \in Cards
    BY <1>2, <1>3, <1>5, <1>7 DEF CopiesAreFresh, Request
  <2> QED
    BY <1>5, <1>16, <2>1 DEF CopiesAreFresh, InHand
<1>20. \A d \in Cards : card'[d] = card[d] \/ InProgress(o, d)
  BY <1>12, <1>16
<1>21. req' = [req EXCEPT ![w] = r] /\ r.op \in OnOrder
  BY <1>1, <1>4, <1>5 DEF OnOrder
<1>22. order' = order /\ payment' = payment /\ taken = charged'[o] /\ r.about = o
  BY <1>1, <1>5, <1>14
<1>23. \A p \in Orders \ {o} : charged'[p] = charged[p]
  BY <1>15
<1>24. InRequest(r, order'[o], payment'[o], charged'[o])
  BY <1>18, <1>22 DEF pays
<1>25. Positive(order'[o], payment'[o])
  BY <1>3, <1>22 DEF pays
<1>26. Works(w) /\ req[w].about = o /\ o \in Orders
  BY <1>2, <1>3
<1> HIDE DEF o
<1> QED
  BY <1>19, <1>20, <1>21, <1>22, <1>23, <1>24, <1>25, <1>26, Frame

\* A payment is marked after it was charged, or withdrawn.
LEMMA MarkBooked ==
    ASSUME Inv, NEW w \in Workers, Mark(w)
    PROVE  Book'
<1>1. PICK c \in req[w].todo :
         /\ req[w].op = "complete" => c = req[w].card
         /\ payment' = [payment EXCEPT ![req[w].about][c] =
              CASE req[w].op = "complete" -> [req[w].payments[c] EXCEPT !.status = "C"]
                [] req[w].op = "cancel"   -> [req[w].payments[c] EXCEPT !.status = "CN"]
                [] OTHER                  -> None]
         /\ req' = [req EXCEPT ![w] =
              [req[w] EXCEPT !.todo = @ \ {c}, !.card = None,
                             !.at = IF req[w].op = "complete" THEN "charge" ELSE "mark"]]
  BY DEF Mark
<1>2. UNCHANGED <<card, order, charged>>
  BY DEF Mark, ghost
<1> DEFINE o == req[w].about
           pays == payment[o]
           taken == charged[o]
<1>3. Works(w) /\ req[w].op \in {"complete", "cancel", "reset"} /\ req[w].at = "mark"
  BY DEF Mark, Inv, TypeInv, RequestTypes, HasItsData, Works, OnOrder
<1>4. /\ o \in Orders /\ req[w] \in Request /\ c \in Cards
      /\ InRequest(req[w], order[o], pays, taken)
      /\ CopiesAreFresh(req[w], card)
      /\ Positive(order[o], pays) /\ pays \in Payments
  BY <1>3, AtWork DEF Request
<1>5. PICK r : r = [req[w] EXCEPT !.todo = @ \ {c}, !.card = None,
                      !.at = IF req[w].op = "complete" THEN "charge" ELSE "mark"]
  OBVIOUS
<1>6. /\ r.op = req[w].op /\ r.about = o /\ r.copy = req[w].copy
      /\ r.at = IF r.op = "complete" THEN "charge" ELSE "mark"
      /\ r.todo = req[w].todo \ {c} /\ r.payments = req[w].payments /\ r.cards = req[w].cards
  BY <1>4, <1>5 DEF Request
<1>7. PICK new : new = CASE r.op = "complete" -> [r.payments[c] EXCEPT !.status = "C"]
                         [] r.op = "cancel"   -> [r.payments[c] EXCEPT !.status = "CN"]
                         [] OTHER             -> None
  OBVIOUS
<1>8. /\ order[o].status = IF r.op = "cancel" THEN "CANCELLED" ELSE "OPEN"
      /\ r.copy.subTotal > 0
  BY <1>3, <1>4, <1>6 DEF InRequest
<1>9. \A d \in Cards : InHand(r, d) <=> InHand(req[w], d) /\ d # c
  BY <1>1, <1>3, <1>6 DEF InHand
<1>10. \A d \in Cards : IF InHand(req[w], d) THEN IsLeft(req[w], d, pays, taken)
                        ELSE IsHandled(req[w], d, pays, taken)
  BY <1>3, <1>4 DEF InRequest
<1>11. r.payments[c] # None /\ r.payments[c].amount > 0
  BY <1>1, <1>3, <1>4, <1>6, <1>10 DEF InRequest, InHand, IsLeft
<1>12. r.payments[c] \in Payment
  <2>1. r.payments \in Payments
    BY <1>3, <1>6, AtWork DEF HasItsData
  <2> QED
    BY <1>4, <1>11, <2>1 DEF Payments
<1>13. new # None => new.amount > 0
  BY <1>7, <1>11, <1>12 DEF Payment
<1>14. PICK pays2 : pays2 = payment'[o]
  OBVIOUS
<1>15. /\ \A p \in Orders \ {o} : payment'[p] = payment[p]
       /\ \A d \in Cards : pays2[d] = IF d = c THEN new ELSE pays[d]
  <2>1. payment' = [payment EXCEPT ![o][c] = new]
    BY <1>1, <1>6, <1>7
  <2>2. payment \in [Orders -> Payments]
    BY DEF Inv, TypeInv, TableTypes
  <2> HIDE DEF o
  <2> QED
    BY <1>4, <1>14, <2>1, <2>2 DEF Payments
<1> HIDE DEF pays, taken
<1>16. IsHandled(r, c, pays2, taken)
  <2>1. c \notin r.todo /\ pays2[c] = new
    BY <1>4, <1>6, <1>15
  <2>2. taken[c] = IF r.op = "complete" THEN r.payments[c].amount ELSE 0
    <3>1. CASE r.op = "complete"
      <4>1. ~InHand(req[w], c)
        BY <1>1, <1>3, <1>6, <3>1 DEF InHand
      <4> QED
        BY <1>4, <1>6, <1>10, <1>11, <3>1, <4>1 DEF IsHandled
    <3>2. CASE r.op # "complete"
      <4>1. InHand(req[w], c)
        BY <1>1, <1>6, <3>2 DEF InHand
      <4> QED
        BY <1>4, <1>10, <3>2, <4>1 DEF IsLeft
    <3> QED
      BY <3>1, <3>2
  <2> QED
    BY <1>3, <1>6, <1>7, <1>11, <2>1, <2>2 DEF IsHandled
<1>17. ASSUME NEW d \in Cards
       PROVE  IF InHand(r, d) THEN IsLeft(r, d, pays2, taken) ELSE IsHandled(r, d, pays2, taken)
  <2>1. CASE d = c
    BY <1>9, <1>16, <2>1
  <2>2. CASE d # c /\ InHand(req[w], d)
    <3>1. IsLeft(req[w], d, pays, taken) /\ InHand(r, d) /\ pays2[d] = pays[d]
      BY <1>9, <1>10, <1>15, <2>2
    <3> QED
      BY <1>6, <3>1 DEF IsLeft
  <2>3. CASE d # c /\ ~InHand(req[w], d)
    <3>1. /\ IsHandled(req[w], d, pays, taken) /\ ~InHand(r, d) /\ pays2[d] = pays[d]
          /\ d \in r.todo <=> d \in req[w].todo
      BY <1>6, <1>9, <1>10, <1>15, <2>3
    <3> QED
      BY <1>3, <1>6, <3>1 DEF IsHandled
  <2> QED
    BY <2>1, <2>2, <2>3
<1>18. InRequest(r, order[o], pays2, taken)
  BY <1>3, <1>6, <1>8, <1>17 DEF InRequest
<1>19. CopiesAreFresh(r, card)
  <2> SUFFICES ASSUME r.op = "complete", NEW d \in r.todo, InHand(r, d)
               PROVE  r.cards[d] = card[d]
    BY DEF CopiesAreFresh
  <2>1. d \in Cards /\ d \in req[w].todo /\ InHand(req[w], d)
    BY <1>4, <1>6, <1>9 DEF Request
  <2> QED
    BY <1>3, <1>4, <1>6, <2>1 DEF CopiesAreFresh
<1>20. Positive(order[o], pays2)
  BY <1>4, <1>13, <1>15 DEF Positive
<1>21. req' = [req EXCEPT ![w] = r] /\ r.op \in OnOrder
  BY <1>1, <1>3, <1>5, <1>6 DEF OnOrder
<1> HIDE DEF o
<1> QED
  BY <1>2, <1>3, <1>4, <1>6, <1>14, <1>15, <1>18, <1>19, <1>20, <1>21, Frame DEF taken, o

\* The order is completed when no payment is left to charge.
LEMMA SaveCompletedBooked ==
    ASSUME Inv, NEW w \in Workers, SaveCompleted(w)
    PROVE  Book'
<1>1. PICK a \in Amounts :
         order' = [order EXCEPT ![req[w].about] =
                     [status |-> "ORDERED",
                      subTotal |-> IF Sum(req[w].payments) > 0 THEN Sum(req[w].payments) ELSE a]]
  BY DEF SaveCompleted
<1> DEFINE o == req[w].about
           pays == payment[o]
           taken == charged[o]
           read == req[w].payments
<1>2. /\ Works(w) /\ req[w].op = "complete" /\ req[w].at = "charge" /\ req[w].todo = {}
      /\ req' = [req EXCEPT ![w] = Idle] /\ UNCHANGED <<card, payment, charged>>
  BY DEF SaveCompleted, ghost, Inv, TypeInv, RequestTypes, HasItsData, Works, OnOrder
<1>3. /\ o \in Orders
      /\ InRequest(req[w], order[o], pays, taken)
      /\ Positive(order[o], pays) /\ pays \in Payments /\ read \in Payments
  BY <1>2, AtWork DEF HasItsData
<1>4. PICK row : row = [status |-> "ORDERED",
                        subTotal |-> IF Sum(read) > 0 THEN Sum(read) ELSE a]
  OBVIOUS
<1>5. /\ order'[o] = row /\ \A p \in Orders \ {o} : order'[p] = order[p]
  <2>1. order' = [order EXCEPT ![o] = row]
    BY <1>1, <1>4
  <2> HIDE DEF o
  <2> QED
    BY <1>3, <2>1 DEF Inv, TypeInv, TableTypes
<1>6. \A c \in Cards : IsHandled(req[w], c, pays, taken)
  BY <1>2, <1>3 DEF InRequest, InHand
<1>7. \A c \in Cards : /\ read[c] = None => pays[c] = None /\ taken[c] = 0
                       /\ read[c] # None => /\ pays[c] = [read[c] EXCEPT !.status = "C"]
                                            /\ taken[c] = read[c].amount
  BY <1>2, <1>6 DEF IsHandled
<1>8. \A c \in Cards : read[c] # None => read[c] \in Payment
  BY <1>3 DEF Payments
<1> HIDE DEF pays, taken, read
<1>9. /\ \A c \in Cards : read[c] = None <=> pays[c] = None
      /\ \A c \in Cards : read[c] # None => read[c].amount = pays[c].amount
                                            /\ pays[c].status = "C"
  <2>1. ASSUME NEW c \in Cards, read[c] # None
        PROVE  pays[c] # None /\ read[c].amount = pays[c].amount /\ pays[c].status = "C"
    <3>1. pays[c] = [read[c] EXCEPT !.status = "C"] /\ read[c] \in Payment
      BY <1>7, <1>8, <2>1
    <3>2. pays[c] \in Payment /\ read[c].amount = pays[c].amount /\ pays[c].status = "C"
      BY <3>1 DEF Payment
    <3> QED
      BY <3>2, NoneIsNoPayment
  <2> QED
    BY <1>7, <2>1
<1>10. IsPaid(pays, taken)
  BY <1>7, <1>9 DEF IsPaid
<1>11. Sum(read) = Sum(pays) /\ Sum(pays) \in Nat
  <2>1. \A c \in Cards : read[c] # None => read[c].amount = pays[c].amount
    BY <1>9
  <2>2. \A c \in Cards : read[c] = None <=> pays[c] = None
    BY <1>9
  <2>3. Sum(read) = Sum(pays)
    BY <2>1, <2>2, PaymentSumSame
  <2> QED
    BY <1>3, <2>3, PaymentSumNat DEF Payments
<1>12. row.status = "ORDERED" /\ row.subTotal > 0 /\ Sum(pays) \in {0, row.subTotal}
  BY <1>4, <1>11, CardAssumption
<1>13. Rest(row, pays, taken) /\ Positive(row, pays)
  BY <1>3, <1>10, <1>12 DEF Rest, Positive
<1>14. Idle.op \notin OnOrder
  BY DEF Idle, OnOrder
<1> HIDE DEF o
<1> QED
  BY <1>2, <1>3, <1>5, <1>13, <1>14, Frame DEF pays, taken, o

\* A cancellation or reset ends when no payment is left to mark.
LEMMA DoneBooked ==
    ASSUME Inv, NEW w \in Workers, Done(w)
    PROVE  Book'
<1> DEFINE o == req[w].about
<1>1. /\ Works(w) /\ req[w].op \in {"cancel", "reset"} /\ req[w].at = "mark"
      /\ req[w].todo = {} /\ req' = [req EXCEPT ![w] = Idle]
      /\ UNCHANGED <<card, order, payment, charged>>
  BY DEF Done, table, ghost, Works, OnOrder
<1>2. /\ o \in Orders
      /\ InRequest(req[w], order[o], payment[o], charged[o])
      /\ Positive(order[o], payment[o]) /\ req[w].payments \in Payments
  BY <1>1, AtWork DEF HasItsData
<1>3. \A c \in Cards : IsHandled(req[w], c, payment[o], charged[o])
  BY <1>1, <1>2 DEF InRequest, InHand
<1>4. \A c \in Cards :
         /\ charged[o][c] = 0
         /\ payment[o][c] # None => req[w].op = "cancel" /\ payment[o][c].status = "CN"
  <2> SUFFICES ASSUME NEW c \in Cards
               PROVE  /\ charged[o][c] = 0
                      /\ payment[o][c] # None => req[w].op = "cancel" /\ payment[o][c].status = "CN"
    OBVIOUS
  <2>1. IsHandled(req[w], c, payment[o], charged[o])
    BY <1>3
  <2>2. req[w].payments[c] # None => [req[w].payments[c] EXCEPT !.status = "CN"].status = "CN"
    BY <1>2 DEF Payments, Payment
  <2> QED
    BY <1>1, <2>1, <2>2 DEF IsHandled
<1>5. order[o].status = IF req[w].op = "cancel" THEN "CANCELLED" ELSE "OPEN"
  BY <1>1, <1>2 DEF InRequest
<1>6. Rest(order[o], payment[o], charged[o])
  BY <1>1, <1>4, <1>5 DEF Rest, IsOpen, IsWithdrawn
<1>7. Idle.op \notin OnOrder
  BY DEF Idle, OnOrder
<1> QED
  BY <1>1, <1>2, <1>6, <1>7, Frame

\* A step that changes no request and no table.
LEMMA StillBooked ==
    ASSUME Book, UNCHANGED <<card, order, payment, charged, req>>
    PROVE  Book'
BY DEF Book, OneRequest, InRequests, AtRest, AllPositive, NoEdits, Works, Busy, About

\* The book is in order in the beginning.
LEMMA BookInit == Init => Book
<1> SUFFICES ASSUME Init PROVE Book
  OBVIOUS
<1>1. \A w \in Workers : req[w] = Idle /\ ~Works(w)
  BY DEF Init, Works, Idle, OnOrder
<1>2. \A o \in Orders :
         /\ \A c \in Cards : payment[o][c] = None /\ charged[o][c] = 0
         /\ order[o].status = "OPEN" /\ order[o].subTotal > 0
  BY CardAssumption DEF Init
<1>3. AtRest /\ AllPositive
  BY <1>2 DEF AtRest, AllPositive, Positive, Rest, IsOpen
<1> QED
  BY <1>1, <1>3 DEF Book, OneRequest, InRequests, NoEdits

\* What the theorems below assume: volunteers work on different orders and are
\* through with a card before its lock lapses, nobody edits a card by hand
\* meanwhile, and no request stops half-way.
Calm == Disciplined /\ Edits = {} /\ MaxFailures = 0

\* Every step keeps it.
LEMMA BookStep ==
    ASSUME Calm, Inv, [Next]_vars
    PROVE  Book'
<1>1. ASSUME NEW w \in Workers, Step(w) PROVE Book'
  <2>1. CASE SkipCard(w) \/ TryCard(w) \/ LockCard(w)
    BY <2>1, TryingBooked
  <2>2. ~\E e \in Edits, a \in Amounts : EditCard(w, e, a)
    BY DEF Calm
  <2>3. ~Fail(w)
    BY DEF Fail, Calm, Inv, TypeInv, CountTypes
  <2> QED
    BY <1>1, <2>1, <2>2, <2>3, SaveFirstBooked, ReadBooked, GrantBooked, NoCardBooked,
       ChargeBooked, MarkBooked, SaveCompletedBooked, DoneBooked DEF Step
<1>2. ASSUME NEW w \in Workers, Submit(w) PROVE Book'
  <2>1. \A c \in Cards : ~LoadCard(w, c)
    BY DEF LoadCard, Calm
  <2> QED
    BY <1>2, <2>1, LoadBooked DEF Submit, Pay, Complete, Cancel, Reset, OnOrder, Calm
<1>3. ASSUME NEW c \in Cards, Expire(c) PROVE Book'
  BY <1>3, StillBooked DEF Expire, table, ghost, Inv
<1>4. CASE UNCHANGED vars
  BY <1>4, StillBooked DEF vars, Inv
<1> QED
  BY <1>1, <1>2, <1>3, <1>4 DEF Next

\* Hence it is in order always.
LEMMA BookInvariant ==
    ASSUME Calm
    PROVE  Spec => []Inv
<1>1. Spec => []IInv
  BY Inductive DEF Calm
<1>2. TypeInv /\ IInv /\ Book /\ [Next]_vars => Book'
  BY BookStep DEF Inv
<1>3. TypeInv /\ IInv /\ Book <=> Inv
  BY DEF Inv
<1> QED
  BY <1>1, <1>2, <1>3, TypeInvariant, BookInit, PTL DEF Spec

\* Requests about different orders at a time: a completed order was charged to its
\* cards once, and its subtotal is what was charged (completeOrder).
THEOREM CompletedOrdersArePaid ==
    ASSUME Calm
    PROVE  Spec => []CompletedIsPaid
<1>1. Inv => CompletedIsPaid
  BY DEF Inv, Book, AtRest, Rest, IsPaid, CompletedIsPaid
<1> QED
  BY <1>1, BookInvariant, PTL

\* Requests about different orders at a time: of a cancelled order no payment is
\* left that is still good, and none was charged (OrderServiceHelper.cancelOrder).
THEOREM CancelledOrdersAreUnpaid ==
    ASSUME Calm
    PROVE  Spec => []CancelledIsUnpaid
<1>1. Inv => CancelledIsUnpaid
  BY DEF Inv, Book, AtRest, Rest, IsWithdrawn, CancelledIsUnpaid
<1> QED
  BY <1>1, BookInvariant, PTL

\* Requests about different orders at a time: no charge of a card is lost, though a
\* card is written back with the balance it had when the payments were read
\* (updateOrderPaymentStatusAndGetSubTotal).
THEOREM NothingLostOnOneCard ==
    ASSUME Calm
    PROVE  Spec => []NothingLost
<1>1. ASSUME Inv, NothingLost, [Next]_vars PROVE NothingLost'
  <2>1. ASSUME NEW w \in Workers, Charge(w) PROVE NothingLost'
    <3>1. Works(w) /\ req[w].op = "complete" /\ req[w].at = "charge"
      BY <1>1, <2>1 DEF Charge, Inv, TypeInv, RequestTypes, HasItsData, Works, OnOrder
    <3>2. \A c \in req[w].todo : req[w].cards[c] = card[c]
      BY <1>1, <3>1, AtWork DEF CopiesAreFresh, InHand
    <3> QED
      BY <1>1, <2>1, <3>2, ChargeIsBooked DEF Inv
  <2>2. ASSUME NEW w \in Workers,
               \/ SaveFirst(w) \/ Read(w) \/ SkipCard(w) \/ TryCard(w) \/ LockCard(w)
               \/ Grant(w) \/ NoCard(w) \/ Mark(w) \/ SaveCompleted(w) \/ Done(w) \/ Fail(w)
               \/ Submit(w)
        PROVE  NothingLost'
    BY <1>1, <2>2, SameBooks DEF SaveFirst, Read, SkipCard, TryCard, LockCard, Grant, NoCard, Mark,
       SaveCompleted, Done, Fail, Submit, Pay, Complete, Cancel, Reset, Load, LoadCard, table, ghost
  <2>3. \A w \in Workers : ~\E e \in Edits, a \in Amounts : EditCard(w, e, a)
    BY DEF Calm
  <2>4. ASSUME NEW c \in Cards, Expire(c) PROVE NothingLost'
    BY <1>1, <2>4, SameBooks DEF Expire, table, ghost
  <2>5. CASE UNCHANGED vars
    BY <1>1, <2>5, SameBooks DEF vars
  <2> QED
    BY <1>1, <2>1, <2>2, <2>3, <2>4, <2>5 DEF Next, Step
<1>2. Inv /\ NothingLost /\ [Next]_vars => NothingLost'
  BY <1>1
<1> QED
  BY <1>2, BookInvariant, BookedInit, PTL DEF Spec

-----------------------------------------------------------------------------
(* The account book of CardLedger.  Handing out a card puts it down for    *)
(* the order, writing its balance takes the amount, and marking a payment  *)
(* withdraws what is left of it; an order is closed when its last request  *)
(* ends.  All other steps leave the book alone.                            *)

DueOf(pays, taken) ==
    [c \in Cards |-> IF pays[c] # None /\ pays[c].status = "IP" /\ taken[c] = 0
                     THEN pays[c].amount ELSE 0]

\* The refinement mapping, as functions of the rows.
LEMMA DueIs ==
    /\ Due = [o \in Orders |-> DueOf(payment[o], charged[o])]
    /\ Due' = [o \in Orders |-> DueOf(payment'[o], charged'[o])]
BY DEF Due, DueOf, InProgress

\* The balance of the ledger is that of the row.
LEMMA BalanceIs ==
    /\ Balance = [c \in Cards |-> card[c].balance]
    /\ Balance' = [c \in Cards |-> card'[c].balance]
BY DEF Balance

\* An order is open as long as a request is about it.
LEMMA FateIs ==
    /\ Fate = [o \in Orders |-> IF Busy(o) THEN "OPEN" ELSE order[o].status]
    /\ Fate' = [o \in Orders |-> IF Busy(o)' THEN "OPEN" ELSE order'[o].status]
BY DEF Fate

\* A step of a request makes no other order busy, or idle.
LEMMA BusySteps ==
    ASSUME Inv, NEW w \in Workers, NEW o \in Orders, NEW r,
           (Works(w) /\ req[w].about = o) \/ (req[w] = Idle /\ ~Busy(o)),
           req' = [req EXCEPT ![w] = r],
           r = Idle \/ (r.op \in OnOrder /\ r.about = o)
    PROVE  /\ \A p \in Orders \ {o} : Busy(p)' <=> Busy(p)
           /\ Busy(o)' <=> r # Idle
<1>1. req'[w] = r /\ \A x \in Workers \ {w} : req'[x] = req[x]
  BY DEF Inv, TypeInv, RequestTypes
<1>2. \A x \in Workers \ {w} : ~About(x, o)
  <2> SUFFICES ASSUME NEW x \in Workers \ {w}, About(x, o) PROVE FALSE
    OBVIOUS
  <2>1. Works(x) /\ req[x].about = o
    BY BusyIsWorks DEF Inv, Book
  <2>2. CASE Works(w) /\ req[w].about = o
    BY <2>1, <2>2 DEF Inv, Book, OneRequest
  <2>3. CASE ~Busy(o)
    BY <2>3 DEF Busy
  <2> QED
    BY <2>2, <2>3
<1>3. \A p \in Orders \ {o} : ~About(w, p) /\ ~(r.op # "edit" /\ r.about = p)
  BY CardAssumption DEF About, Idle
<1>4. \A p \in Orders : Busy(p)' <=> \E x \in Workers : req'[x].op # "edit" /\ req'[x].about = p
  BY DEF Busy, About
<1>5. \A p \in Orders : Busy(p) <=> \E x \in Workers : req[x].op # "edit" /\ req[x].about = p
  BY DEF Busy, About
<1>6. r # Idle <=> r.op # "edit" /\ r.about = o
  BY CardAssumption DEF Idle, OnOrder
<1> QED
  BY <1>1, <1>2, <1>3, <1>4, <1>5, <1>6 DEF About

\* A request that is about o, or the start of one.
MayTake(w, o) ==
    \/ Works(w) /\ req[w].about = o
    \/ req[w] = Idle /\ ~Busy(o) /\ order[o].status = "OPEN"

IsAbout(r, o) == r = Idle \/ (r.op \in OnOrder /\ r.about = o)

\* A step changes no row of orders but that of o.
OnlyOrder(o) == \A p \in Orders \ {o} : order'[p] = order[p]

\* An order stays open while a request is about it, and a request that ends shows
\* what it has come to.
LEMMA FateSteps ==
    ASSUME Inv, NEW w \in Workers, NEW o \in Orders, NEW r, MayTake(w, o),
           req' = [req EXCEPT ![w] = r], IsAbout(r, o),
           OnlyOrder(o)
    PROVE  /\ Fate[o] = "OPEN"
           /\ r # Idle => Fate' = Fate
           /\ r = Idle => Fate' = [Fate EXCEPT ![o] = order'[o].status] /\ ~Busy(o)'
<1>1. /\ \A p \in Orders \ {o} : Busy(p)' <=> Busy(p)
      /\ Busy(o)' <=> r # Idle
  BY BusySteps DEF MayTake, IsAbout
<1>2. Fate[o] = "OPEN"
  <2>1. CASE Works(w) /\ req[w].about = o
    <3>1. Busy(o)
      BY <2>1, BusyIsWorks DEF Busy, Inv, Book
    <3> QED
      BY <3>1, FateIs
  <2>2. CASE ~Busy(o) /\ order[o].status = "OPEN"
    BY <2>2, FateIs
  <2> QED
    BY <2>1, <2>2 DEF MayTake
<1>3. \A p \in Orders \ {o} : Fate'[p] = Fate[p]
  BY <1>1, FateIs DEF OnlyOrder
<1>4. Fate'[o] = IF r # Idle THEN "OPEN" ELSE order'[o].status
  BY <1>1, FateIs
<1>5. \E f, g : Fate = [p \in Orders |-> f[p]] /\ Fate' = [p \in Orders |-> g[p]]
  BY FateIs
<1> QED
  BY <1>1, <1>2, <1>3, <1>4, <1>5

\* Requests start and go on: the book stays as it is.
LEMMA SameBook ==
    ASSUME Fate' = Fate, UNCHANGED <<card, payment, charged>>
    PROVE  UNCHANGED <<Balance, Due, charged, Fate>>
BY DueIs, BalanceIs

\* Each action maps to a step of the ledger or to a stutter. A request starts: a stutter.
LEMMA LoadKeepsBook ==
    ASSUME Disciplined, Inv, NEW w \in Workers, NEW op \in OnOrder, NEW o \in Orders,
           Load(w, op, o)
    PROVE  UNCHANGED <<Balance, Due, charged, Fate>>
<1>1. /\ req[w] = Idle /\ ~Busy(o) /\ order[o].status = "OPEN"
      /\ UNCHANGED <<card, order, payment, charged>>
  BY DEF Load, Allowed, table, ghost
<1>2. PICK r : r = [Idle EXCEPT !.op = op, !.about = o, !.at = "loaded", !.copy = order[o]]
  OBVIOUS
<1>3. r.op \in OnOrder /\ r.about = o /\ r # Idle
  BY <1>2 DEF Idle, OnOrder
<1>4. req' = [req EXCEPT ![w] = r]
  BY <1>2 DEF Load
<1>5. Fate' = Fate
  BY <1>1, <1>3, <1>4, FateSteps DEF MayTake, IsAbout, OnlyOrder
<1> QED
  BY <1>1, <1>5, SameBook

\* So is whatever a request does before it changes a payment.
LEMMA GoesOnKeepsBook ==
    ASSUME Disciplined, Inv, NEW w \in Workers,
           SaveFirst(w) \/ Read(w) \/ SkipCard(w) \/ TryCard(w) \/ LockCard(w)
    PROVE  UNCHANGED <<Balance, Due, charged, Fate>>
<1>0. PICK o : o = req[w].about
  OBVIOUS
<1>1. Works(w) /\ UNCHANGED <<card, payment, charged>>
  BY DEF SaveFirst, Read, SkipCard, TryCard, LockCard, table, ghost, Inv, TypeInv, RequestTypes,
         HasItsData, Works, OnOrder
<1>2. o \in Orders /\ req[w] \in Request /\ req[w].op \in OnOrder
  BY <1>0, <1>1, AtWork DEF Works
<1>3. OnlyOrder(o)
  BY <1>0 DEF SaveFirst, Read, SkipCard, TryCard, LockCard, table, Inv, TypeInv, TableTypes,
         OnlyOrder
<1>4. req'[w].op = req[w].op /\ req'[w].about = o /\ req' = [req EXCEPT ![w] = req'[w]]
  <2> DEFINE Goes(r) == r.op = req[w].op /\ r.about = o /\ req' = [req EXCEPT ![w] = r]
  <2>1. \A r : Goes(r) => req'[w] = r
    BY DEF Inv, TypeInv, RequestTypes
  <2>2. SUFFICES \E r : Goes(r)
    BY <2>1
  <2>3. CASE SaveFirst(w)
    <3>1. Goes([req[w] EXCEPT !.at = "saved"])
      BY <1>0, <1>2, <2>3 DEF Request, SaveFirst, Inv, TypeInv, RequestTypes
    <3> HIDE DEF Goes
    <3> QED
      BY <3>1
  <2>4. CASE Read(w)
    <3> DEFINE r == [req[w] EXCEPT
                       !.at = CASE req[w].op = "pay"      -> "trying"
                                [] req[w].op = "complete" -> "charge"
                                [] OTHER                  -> "mark",
                       !.cards = card, !.payments = payment[req[w].about],
                       !.todo = IF req[w].op = "pay" THEN {c \in Cards : Usable(c)}
                                ELSE {c \in Cards : payment[req[w].about][c] # None}]
    <3>1. Goes(r)
      BY <1>0, <1>2, <2>4 DEF Request, Read
    <3> HIDE DEF Goes
    <3> QED
      BY <3>1
  <2>5. CASE SkipCard(w)
    <3>1. PICK c : req' = [req EXCEPT ![w].todo = @ \ {c}]
      BY <2>5 DEF SkipCard
    <3>2. Goes([req[w] EXCEPT !.todo = @ \ {c}])
      BY <1>0, <1>2, <3>1 DEF Request, Inv, TypeInv, RequestTypes
    <3> HIDE DEF Goes
    <3> QED
      BY <3>2
  <2>6. CASE TryCard(w)
    <3>1. PICK c : req' = [req EXCEPT ![w] = [req[w] EXCEPT !.card = c, !.at = "lock"]]
      BY <2>6 DEF TryCard
    <3>2. Goes([req[w] EXCEPT !.card = c, !.at = "lock"])
      BY <1>0, <1>2, <3>1 DEF Request
    <3> HIDE DEF Goes
    <3> QED
      BY <3>2
  <2>7. CASE LockCard(w)
    <3>1. Goes([req[w] EXCEPT !.at = "grant"])
      BY <1>0, <1>2, <2>7 DEF Request, LockCard, Inv, TypeInv, RequestTypes
    <3> HIDE DEF Goes
    <3> QED
      BY <3>1
  <2> QED
    BY <2>3, <2>4, <2>5, <2>6, <2>7
<1>5. req'[w] # Idle /\ req'[w].op \in OnOrder
  BY <1>0, <1>2, <1>4 DEF Idle, OnOrder
<1>6. Fate' = Fate
  <2>1. PICK r : r = req'[w]
    OBVIOUS
  <2>2. r # Idle /\ IsAbout(r, o)
    BY <1>4, <1>5, <2>1 DEF IsAbout
  <2>3. req' = [req EXCEPT ![w] = r]
    BY <1>4, <2>1
  <2>4. MayTake(w, o) /\ o \in Orders
    BY <1>0, <1>1, <1>2 DEF MayTake
  <2> QED
    BY <1>0, <1>1, <1>2, <1>3, <1>4, <1>5, <2>1, FateSteps DEF MayTake, IsAbout
<1> QED
  BY <1>1, <1>6, SameBook

\* A request ends: its order is what it has become.
LEMMA EndIsFate ==
    ASSUME Inv, NEW w \in Workers, Works(w), NEW o \in Orders, o = req[w].about,
           req' = [req EXCEPT ![w] = Idle], OnlyOrder(o)
    PROVE  /\ Fate[o] = "OPEN"
           /\ Fate' = [Fate EXCEPT ![o] = order'[o].status]
           /\ ~Busy(o)'
BY FateSteps DEF MayTake, IsAbout

\* A request goes on: its order stays open.
LEMMA GoesOnIsFate ==
    ASSUME Inv, NEW w \in Workers, Works(w), NEW o \in Orders, o = req[w].about,
           req' = [req EXCEPT ![w] = req'[w]], req'[w].op = req[w].op, req'[w].about = o,
           OnlyOrder(o)
    PROVE  Fate[o] = "OPEN" /\ Fate' = Fate
<1>1. PICK r : r = req'[w]
  OBVIOUS
<1>2. r.op \in OnOrder /\ r # Idle
  BY <1>1 DEF Works, Idle, OnOrder
<1> QED
  BY <1>1, <1>2, FateSteps DEF MayTake, IsAbout

\* An open order that stays open.
LEMMA FateStays ==
    ASSUME NEW o \in Orders, Fate[o] = "OPEN", NEW s, s = "OPEN", Fate' = [Fate EXCEPT ![o] = s]
    PROVE  Fate' = Fate
<1>1. PICK f : Fate = [p \in Orders |-> f[p]]
  BY FateIs
<1> QED
  BY <1>1

\* paymentFor finds no card, or a reset is done.
LEMMA EndsOpenKeepsBook ==
    ASSUME Inv, NEW w \in Workers, NoCard(w) \/ (Done(w) /\ req[w].op = "reset")
    PROVE  UNCHANGED <<Balance, Due, charged, Fate>>
<1>0. PICK o : o = req[w].about
  OBVIOUS
<1>1. /\ Works(w) /\ req' = [req EXCEPT ![w] = Idle]
      /\ UNCHANGED <<card, order, payment, charged>>
      /\ ~(req[w].op = "cancel" /\ req[w].at \in {"saved", "mark"})
  BY DEF NoCard, Done, table, ghost, Inv, TypeInv, RequestTypes, HasItsData, Works, OnOrder
<1>2. o \in Orders /\ order[o].status = "OPEN"
  BY <1>0, <1>1, AtWork DEF InRequest
<1>3. OnlyOrder(o)
  BY <1>1 DEF OnlyOrder
<1>4. Fate[o] = "OPEN" /\ Fate' = [Fate EXCEPT ![o] = order'[o].status]
  BY <1>0, <1>1, <1>2, <1>3, EndIsFate
<1>5. Fate' = Fate
  BY <1>1, <1>2, <1>4, FateStays
<1> QED
  BY <1>1, <1>5, SameBook

\* A cancelled or a completed order is closed.
LEMMA EndsClosed ==
    ASSUME Inv, Book', NEW w \in Workers, SaveCompleted(w) \/ (Done(w) /\ req[w].op = "cancel")
    PROVE  \E o \in Orders : Ledger!Close(o)
<1>0. PICK o : o = req[w].about
  OBVIOUS
<1>1. /\ Works(w) /\ req' = [req EXCEPT ![w] = Idle]
      /\ UNCHANGED <<card, payment, charged>>
  BY DEF SaveCompleted, Done, table, ghost, Inv, TypeInv, RequestTypes, HasItsData, Works, OnOrder
<1>2. /\ o \in Orders
      /\ InRequest(req[w], order[o], payment[o], charged[o])
  BY <1>0, <1>1, AtWork
<1>3. OnlyOrder(o)
  BY <1>0 DEF OnlyOrder, SaveCompleted, Done, table, Inv, TypeInv, TableTypes
<1>4. /\ Fate[o] = "OPEN" /\ ~Busy(o)'
      /\ Fate' = [Fate EXCEPT ![o] = order'[o].status]
  BY <1>0, <1>1, <1>2, <1>3, EndIsFate
<1>5. Rest(order'[o], payment[o], charged[o])
  BY <1>1, <1>2, <1>4 DEF Book, AtRest
<1>6. \/ /\ order'[o].status = "ORDERED"
         /\ IsPaid(payment[o], charged[o])
      \/ /\ order'[o].status = "CANCELLED"
         /\ IsWithdrawn(payment[o], charged[o])
  <2>1. CASE SaveCompleted(w)
    <3>1. order'[o].status = "ORDERED"
      BY <1>0, <1>2, <2>1 DEF SaveCompleted, Inv, TypeInv, TableTypes
    <3> QED
      BY <1>5, <3>1 DEF Rest
  <2>2. CASE Done(w) /\ req[w].op = "cancel"
    <3>1. order' = order /\ req[w].at = "mark"
      BY <2>2 DEF Done, table
    <3>2. order'[o].status = "CANCELLED"
      BY <1>2, <2>2, <3>1 DEF InRequest
    <3> QED
      BY <1>5, <3>2 DEF Rest
  <2> QED
    BY <2>1, <2>2
<1>7. \A c \in Cards : Due[o][c] = 0
  BY <1>2, <1>6, DueIs DEF DueOf, IsPaid, IsWithdrawn
<1>8. order'[o].status = "CANCELLED" => \A c \in Cards : charged[o][c] = 0
  BY <1>6 DEF IsWithdrawn
<1>9. Balance' = Balance /\ Due' = Due /\ charged' = charged
  BY <1>1, DueIs, BalanceIs
<1>10. Ledger!Close(o)
  BY <1>4, <1>6, <1>7, <1>8, <1>9 DEF Ledger!Close
<1> QED
  BY <1>2, <1>10

\* A card is handed out.
LEMMA GrantPutsDown ==
    ASSUME Inv, NEW w \in Workers, Grant(w)
    PROVE  \E o \in Orders, c \in Cards : Ledger!PutDown(o, c)
<1>0. PICK o, k : o = req[w].about /\ k = req[w].card
  OBVIOUS
<1>1. Works(w) /\ req[w].op = "pay" /\ req[w].at = "grant" /\ k \in Cards
  BY <1>0 DEF Grant, Inv, TypeInv, RequestTypes, HasItsData, Works, OnOrder
<1>2. /\ o \in Orders
      /\ InRequest(req[w], order[o], payment[o], charged[o])
      /\ payment[o] \in Payments
  BY <1>0, <1>1, AtWork
<1>3. /\ order[o].status = "OPEN" /\ req[w].copy.subTotal > 0
      /\ IsOpen(payment[o], charged[o]) /\ req[w].payments = payment[o]
      /\ payment[o][k] = None
  BY <1>0, <1>1, <1>2 DEF InRequest
<1>4. PICK new : new = [amount |-> AmountFor(req[w]), status |-> "IP"]
  OBVIOUS
<1>5. new.amount > 0 /\ new.status = "IP" /\ new # None
  <2>1. new.amount > 0 /\ new.status = "IP"
    BY <1>3, <1>4 DEF AmountFor
  <2>2. AmountFor(req[w]) \in Nat
    BY <1>1, AmountIsNat DEF Inv, TypeInv, RequestTypes, HasItsData, Works
  <2>3. new \in Payment
    BY <1>4, <2>2 DEF Payment
  <2> QED
    BY <2>1, <2>3, NoneIsNoPayment
<1>6. /\ payment' = [payment EXCEPT ![o][k] = new]
      /\ req' = [req EXCEPT ![w] = Idle] /\ UNCHANGED <<order, charged, card>>
  BY <1>0, <1>3, <1>4 DEF Grant, ghost
<1>7. /\ \A p \in Orders \ {o} : payment'[p] = payment[p]
      /\ \A c \in Cards : payment'[o][c] = IF c = k THEN new ELSE payment[o][c]
  BY <1>1, <1>2, <1>6 DEF Inv, TypeInv, TableTypes, Payments
<1>8. Fate[o] = "OPEN" /\ Fate' = Fate
  <2>1. OnlyOrder(o)
    BY <1>6 DEF OnlyOrder
  <2>2. Fate[o] = "OPEN" /\ Fate' = [Fate EXCEPT ![o] = order'[o].status]
    BY <1>0, <1>1, <1>2, <1>6, <2>1, EndIsFate
  <2> QED
    BY <1>2, <1>3, <1>6, <2>2, FateStays
<1>9. \A p \in Orders : Due[p][k] = 0
  <2> SUFFICES ASSUME NEW p \in Orders PROVE ~InProgress(p, k)
    BY <1>1, DueIs DEF DueOf, InProgress
  <2>1. lock[k] = o
    BY <1>0, <1>1 DEF Inv, IInv, GrantIsLocked
  <2>2. InProgress(p, k) => p = o
    BY <1>1, <2>1 DEF Inv, IInv, CardIsLocked
  <2> QED
    BY <1>3, <2>2 DEF InProgress
<1>10. \A p \in Orders, c \in Cards :
          Due'[p][c] = IF p = o /\ c = k THEN new.amount ELSE Due[p][c]
  <2>1. \A c \in Cards : charged[o][c] = 0
    BY <1>3 DEF IsOpen
  <2>2. \A c \in Cards : Due'[o][c] = IF c = k THEN new.amount ELSE Due[o][c]
    BY <1>2, <1>5, <1>6, <1>7, <2>1, DueIs DEF DueOf
  <2>3. \A p \in Orders \ {o} : Due'[p] = Due[p]
    BY <1>6, <1>7, DueIs
  <2> QED
    BY <2>2, <2>3
<1>11. Due' = [Due EXCEPT ![o][k] = Due'[o][k]]
  <2>1. /\ Due = [p \in Orders |-> [c \in Cards |-> Due[p][c]]]
        /\ Due' = [p \in Orders |-> [c \in Cards |-> Due'[p][c]]]
    BY DueIs DEF DueOf
  <2> QED
    BY <1>1, <1>2, <1>10, <2>1
<1>12. Balance' = Balance /\ charged' = charged
  BY <1>6, BalanceIs
<1>13. Due'[o][k] > 0
  BY <1>1, <1>2, <1>5, <1>10
<1>14. Ledger!PutDown(o, k)
  BY <1>8, <1>9, <1>11, <1>12, <1>13 DEF Ledger!PutDown
<1> QED
  BY <1>1, <1>2, <1>14

\* The balance of a card is written.
LEMMA ChargeTakes ==
    ASSUME Inv, NEW w \in Workers, Charge(w)
    PROVE  \E o \in Orders, c \in Cards : Ledger!Take(o, c)
<1>0. PICK o : o = req[w].about
  OBVIOUS
<1>1. PICK c \in req[w].todo :
         /\ card' = [card EXCEPT ![c] = [req[w].cards[c] EXCEPT !.balance =
                                           @ - req[w].payments[c].amount]]
         /\ charged' = [charged EXCEPT ![o][c] = @ + req[w].payments[c].amount]
         /\ req' = [req EXCEPT ![w] = [req[w] EXCEPT !.card = c, !.at = "mark"]]
         /\ UNCHANGED <<order, payment>>
  BY <1>0 DEF Charge
<1>2. Works(w) /\ req[w].op = "complete" /\ req[w].at = "charge"
  BY DEF Charge, Inv, TypeInv, RequestTypes, HasItsData, Works, OnOrder
<1>3. /\ o \in Orders /\ req[w] \in Request /\ c \in Cards
      /\ InRequest(req[w], order[o], payment[o], charged[o])
      /\ CopiesAreFresh(req[w], card)
      /\ charged[o] \in [Cards -> Nat] /\ req[w].payments \in Payments
  BY <1>0, <1>2, AtWork DEF Request, HasItsData
<1>4. PICK amount : amount = req[w].payments[c].amount
  OBVIOUS
<1>5. IsLeft(req[w], c, payment[o], charged[o]) /\ req[w].cards[c] = card[c]
  BY <1>2, <1>3 DEF InRequest, InHand, CopiesAreFresh
<1>6. /\ payment[o][c] # None /\ payment[o][c].status = "IP" /\ payment[o][c].amount = amount
      /\ amount > 0 /\ charged[o][c] = 0
  BY <1>4, <1>5 DEF IsLeft
<1>7. amount \in Nat
  BY <1>3, <1>4, <1>5 DEF IsLeft, Payments, Payment
<1>8. Fate[o] = "OPEN" /\ Fate' = Fate
  <2>1. req'[w] = [req[w] EXCEPT !.card = c, !.at = "mark"]
    BY <1>1 DEF Inv, TypeInv, RequestTypes
  <2>2. req'[w].op = req[w].op /\ req'[w].about = o
    BY <1>0, <1>3, <2>1 DEF Request
  <2>3. req' = [req EXCEPT ![w] = req'[w]]
    BY <1>1, <2>1
  <2>4. OnlyOrder(o)
    BY <1>1 DEF OnlyOrder
  <2> QED
    BY <1>0, <1>2, <1>3, <2>2, <2>3, <2>4, GoesOnIsFate
<1>9. /\ \A p \in Orders \ {o} : charged'[p] = charged[p]
      /\ \A d \in Cards : charged'[o][d] = IF d = c THEN amount ELSE charged[o][d]
  <2>1. charged' = [charged EXCEPT ![o][c] = @ + amount]
    BY <1>1, <1>4
  <2>2. charged \in [Orders -> [Cards -> Nat]]
    BY DEF Inv, TypeInv, TableTypes
  <2> QED
    BY <1>3, <1>6, <1>7, <2>1, <2>2
<1>10. Due[o][c] = amount
  BY <1>3, <1>6, DueIs DEF DueOf
<1>11. \A p \in Orders, d \in Cards :
          Due'[p][d] = IF p = o /\ d = c THEN 0 ELSE Due[p][d]
  <2>1. \A d \in Cards : Due'[o][d] = IF d = c THEN 0 ELSE Due[o][d]
    BY <1>1, <1>3, <1>6, <1>9, DueIs DEF DueOf
  <2>2. \A p \in Orders \ {o} : Due'[p] = Due[p]
    BY <1>1, <1>9, DueIs
  <2> QED
    BY <2>1, <2>2
<1>12. Due' = [Due EXCEPT ![o][c] = 0]
  <2>1. /\ Due = [p \in Orders |-> [d \in Cards |-> Due[p][d]]]
        /\ Due' = [p \in Orders |-> [d \in Cards |-> Due'[p][d]]]
    BY DueIs DEF DueOf
  <2> QED
    BY <1>3, <1>11, <2>1
<1>13. charged' = [charged EXCEPT ![o][c] = amount]
  <2>1. charged[o][c] + amount = amount
    BY <1>6, <1>7
  <2>2. charged' = [charged EXCEPT ![o][c] = charged[o][c] + amount]
    BY <1>1, <1>4
  <2> QED
    BY <2>1, <2>2
<1>14. Balance' = [Balance EXCEPT ![c] = @ - amount]
  <2>1. card' = [card EXCEPT ![c] = [card[c] EXCEPT !.balance = @ - amount]]
    BY <1>1, <1>4, <1>5
  <2>2. card \in [Cards -> Card] /\ card[c] \in Card
    BY <1>3 DEF Inv, TypeInv, TableTypes
  <2>3. card'[c].balance = card[c].balance - amount
    BY <1>3, <2>1, <2>2 DEF Card
  <2>4. \A d \in Cards \ {c} : card'[d] = card[d]
    BY <2>1, <2>2
  <2> QED
    BY <1>3, <2>3, <2>4, BalanceIs
<1>15. Ledger!Take(o, c)
  BY <1>6, <1>8, <1>10, <1>12, <1>13, <1>14 DEF Ledger!Take
<1> QED
  BY <1>3, <1>15

\* A payment is marked: nothing is due for it any more.
LEMMA MarkWithdraws ==
    ASSUME Inv, NEW w \in Workers, Mark(w)
    PROVE  \E o \in Orders, c \in Cards : Ledger!Withdraw(o, c)
<1>0. PICK o : o = req[w].about
  OBVIOUS
<1>1. PICK c \in req[w].todo :
         /\ payment' = [payment EXCEPT ![o][c] =
              CASE req[w].op = "complete" -> [req[w].payments[c] EXCEPT !.status = "C"]
                [] req[w].op = "cancel"   -> [req[w].payments[c] EXCEPT !.status = "CN"]
                [] OTHER                  -> None]
         /\ req' = [req EXCEPT ![w] =
              [req[w] EXCEPT !.todo = @ \ {c}, !.card = None,
                             !.at = IF req[w].op = "complete" THEN "charge" ELSE "mark"]]
  BY <1>0 DEF Mark
<1>2. UNCHANGED <<card, order, charged>>
  BY DEF Mark, ghost
<1>3. Works(w) /\ req[w].op \in {"complete", "cancel", "reset"} /\ req[w].at = "mark"
  BY DEF Mark, Inv, TypeInv, RequestTypes, HasItsData, Works, OnOrder
<1>4. /\ o \in Orders /\ req[w] \in Request /\ c \in Cards
      /\ req[w].payments[c] \in Payment
  BY <1>0, <1>1, <1>3, AtWork DEF Request, HasItsData, Payments
<1>5. PICK new : new = CASE req[w].op = "complete" -> [req[w].payments[c] EXCEPT !.status = "C"]
                         [] req[w].op = "cancel"   -> [req[w].payments[c] EXCEPT !.status = "CN"]
                         [] OTHER                  -> None
  OBVIOUS
<1>6. new = None \/ new.status \in {"C", "CN"}
  BY <1>3, <1>4, <1>5 DEF Payment
<1>7. /\ \A p \in Orders \ {o} : payment'[p] = payment[p]
      /\ \A d \in Cards : payment'[o][d] = IF d = c THEN new ELSE payment[o][d]
  <2>1. payment' = [payment EXCEPT ![o][c] = new]
    BY <1>1, <1>5
  <2>2. payment \in [Orders -> Payments]
    BY DEF Inv, TypeInv, TableTypes
  <2> QED
    BY <1>4, <2>1, <2>2 DEF Payments
<1>8. Fate[o] = "OPEN" /\ Fate' = Fate
  <2>1. req'[w] = [req[w] EXCEPT !.todo = @ \ {c}, !.card = None,
                      !.at = IF req[w].op = "complete" THEN "charge" ELSE "mark"]
    BY <1>1 DEF Inv, TypeInv, RequestTypes
  <2>2. req'[w].op = req[w].op /\ req'[w].about = o
    BY <1>0, <1>4, <2>1 DEF Request
  <2>3. req' = [req EXCEPT ![w] = req'[w]]
    BY <1>1, <2>1
  <2>4. OnlyOrder(o)
    BY <1>2 DEF OnlyOrder
  <2> QED
    BY <1>0, <1>3, <1>4, <2>2, <2>3, <2>4, GoesOnIsFate
<1>9. \A p \in Orders, d \in Cards :
         Due'[p][d] = IF p = o /\ d = c THEN 0 ELSE Due[p][d]
  <2>1. \A d \in Cards : Due'[o][d] = IF d = c THEN 0 ELSE Due[o][d]
    BY <1>2, <1>4, <1>6, <1>7, DueIs DEF DueOf
  <2>2. \A p \in Orders \ {o} : Due'[p] = Due[p]
    BY <1>2, <1>7, DueIs
  <2> QED
    BY <2>1, <2>2
<1>10. Due' = [Due EXCEPT ![o][c] = 0]
  <2>1. /\ Due = [p \in Orders |-> [d \in Cards |-> Due[p][d]]]
        /\ Due' = [p \in Orders |-> [d \in Cards |-> Due'[p][d]]]
    BY DueIs DEF DueOf
  <2> QED
    BY <1>4, <1>9, <2>1
<1>11. Balance' = Balance /\ charged' = charged
  BY <1>2, BalanceIs
<1>12. Ledger!Withdraw(o, c)
  BY <1>8, <1>10, <1>11 DEF Ledger!Withdraw
<1> QED
  BY <1>4, <1>12

\* Locks and counters are no part of the ledger.
LEMMA StillKeepsBook ==
    ASSUME UNCHANGED <<card, order, payment, charged, req>>
    PROVE  UNCHANGED <<Balance, Due, charged, Fate>>
<1>1. \A o \in Orders : Busy(o)' <=> Busy(o)
  BY DEF Busy, About
<1>2. Fate' = Fate
  BY <1>1, FateIs
<1> QED
  BY <1>2, SameBook

\* The initial states map to an initial ledger.
LEMMA LedgerInitial == Init => Ledger!LedgerInit
<1> SUFFICES ASSUME Init PROVE Ledger!LedgerInit
  OBVIOUS
<1>1. \A o \in Orders : ~Busy(o)
  BY CardAssumption DEF Init, Busy, About, Idle
<1>2. Fate = [o \in Orders |-> "OPEN"]
  BY <1>1, FateIs DEF Init
<1>3. Due = [o \in Orders |-> [c \in Cards |-> 0]]
  BY DueIs DEF Init, DueOf
<1>4. Balance = Balance0 /\ charged = [o \in Orders |-> [c \in Cards |-> 0]]
  BY BalanceIs, CardAssumption DEF Init
<1> QED
  BY <1>2, <1>3, <1>4 DEF Ledger!LedgerInit

\* Every step maps to a step of the ledger or to a stutter.
LEMMA LedgerStep ==
    ASSUME Calm, Inv, Book', [Next]_vars
    PROVE  [Ledger!LedgerNext]_<<Balance, Due, charged, Fate>>
<1> DEFINE Kept == UNCHANGED <<Balance, Due, charged, Fate>>
<1>1. ASSUME NEW w \in Workers, Step(w) PROVE Kept \/ Ledger!LedgerNext
  <2>1. CASE SaveFirst(w) \/ Read(w) \/ SkipCard(w) \/ TryCard(w) \/ LockCard(w)
    BY <2>1, GoesOnKeepsBook DEF Calm
  <2>2. CASE NoCard(w) \/ (Done(w) /\ req[w].op = "reset")
    BY <2>2, EndsOpenKeepsBook
  <2>3. CASE SaveCompleted(w) \/ (Done(w) /\ req[w].op = "cancel")
    BY <2>3, EndsClosed DEF Ledger!LedgerNext
  <2>4. CASE Grant(w)
    BY <2>4, GrantPutsDown DEF Ledger!LedgerNext
  <2>5. CASE Charge(w)
    BY <2>5, ChargeTakes DEF Ledger!LedgerNext
  <2>6. CASE Mark(w)
    BY <2>6, MarkWithdraws DEF Ledger!LedgerNext
  <2>7. ~\E e \in Edits, a \in Amounts : EditCard(w, e, a)
    BY DEF Calm
  <2>8. ~Fail(w)
    BY DEF Fail, Calm, Inv, TypeInv, CountTypes
  <2>9. Done(w) => req[w].op \in {"cancel", "reset"}
    BY DEF Done
  <2> QED
    BY <1>1, <2>1, <2>2, <2>3, <2>4, <2>5, <2>6, <2>7, <2>8, <2>9 DEF Step
<1>2. ASSUME NEW w \in Workers, Submit(w) PROVE Kept
  <2>1. \A c \in Cards : ~LoadCard(w, c)
    BY DEF LoadCard, Calm
  <2> QED
    BY <1>2, <2>1, LoadKeepsBook DEF Submit, Pay, Complete, Cancel, Reset, OnOrder, Calm
<1>3. ASSUME NEW c \in Cards, Expire(c) PROVE Kept
  BY <1>3, StillKeepsBook DEF Expire, table, ghost
<1>4. CASE UNCHANGED vars
  BY <1>4, StillKeepsBook DEF vars
<1> QED
  BY <1>1, <1>2, <1>3, <1>4 DEF Next

\* Requests about different orders at a time come to an account book in which every
\* amount a card was handed out for is taken once and in full, or withdrawn before
\* its order is closed (paymentFor, completeOrder, cancelOrder, reset).
THEOREM CardsImplementLedger ==
    ASSUME Calm
    PROVE  Spec => ImplementsCardLedger
<1>1. Inv /\ Inv' /\ [Next]_vars => [Ledger!LedgerNext]_<<Balance, Due, charged, Fate>>
  BY LedgerStep DEF Inv
<1>2. Spec => []Inv
  BY BookInvariant
<1> QED
  BY <1>1, <1>2, LedgerInitial, PTL DEF Spec, ImplementsCardLedger, Ledger!LedgerSpec
=============================================================================
