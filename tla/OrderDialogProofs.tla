-------------------------- MODULE OrderDialogProofs --------------------------
(***************************************************************************)
(* Proofs about OrderDialog, for any number of users and of messages that  *)
(* are handled at once: type correctness, and that a dialog places at most *)
(* one order.  The second rests on the delete of the dialog's row, which   *)
(* only one of the transactions that read the row can commit.              *)
(***************************************************************************)
EXTENDS OrderDialog, FiniteSetTheorems, SequenceTheorems, TLAPS

OrderRec == [user: Users, location: Locations \cup {None},
             items: Seq(Items), today: BOOLEAN, dialog: Pids, named: Named, again: BOOLEAN]

Transaction(t) ==
    /\ t.op \in {"insert", "update", "delete", "order"}
    /\ t.pid \in Pids
    /\ t.base \in PartialOrder
    /\ t.row \in PartialOrder

-----------------------------------------------------------------------------
(* The allowance is a number: the day's meals are finitely many.           *)

Mine(s, u) == {i \in DOMAIN s : s[i].user = u /\ s[i].today}
MealSet(s, u) == UNION {{i} \X DOMAIN s[i].items : i \in Mine(s, u)}

\* The meals of one order are as many as its items.
LEMMA ItemsCount ==
    ASSUME NEW items \in Seq(Items), NEW i
    PROVE  /\ IsFiniteSet({i} \X DOMAIN items)
           /\ Cardinality({i} \X DOMAIN items) = Len(items)
<1>1. DOMAIN items = 1..Len(items) /\ Len(items) \in Nat
  BY LenProperties
<1>2. IsFiniteSet(DOMAIN items) /\ Cardinality(DOMAIN items) = Len(items)
  BY <1>1, FS_Interval
<1>3. IsFiniteSet({i}) /\ Cardinality({i}) = 1
  BY FS_Singleton
<1>4. /\ IsFiniteSet({i} \X DOMAIN items)
      /\ Cardinality({i} \X DOMAIN items) = Cardinality({i}) * Cardinality(DOMAIN items)
  BY <1>2, <1>3, FS_Product
<1>. QED
  BY <1>1, <1>2, <1>3, <1>4

\* The meals of a user are finitely many.
LEMMA MealSetFinite ==
    ASSUME NEW u, NEW s \in Seq(OrderRec)
    PROVE  IsFiniteSet(MealSet(s, u))
<1> DEFINE meals(i) == {i} \X DOMAIN s[i].items
           image == {meals(i) : i \in Mine(s, u)}
           f == [i \in Mine(s, u) |-> meals(i)]
<1>1. IsFiniteSet(Mine(s, u))
  <2>1. Len(s) \in Int /\ Mine(s, u) \in SUBSET (1..Len(s))
    BY LenProperties DEF Mine
  <2>. QED
    BY <2>1, FS_Interval, FS_Subset
<1>2. IsFiniteSet(image)
  <2>1. f \in Surjection(Mine(s, u), image)
    BY DEF Surjection
  <2>. QED
    BY <1>1, <2>1, FS_Surjection
<1>3. ASSUME NEW i \in Mine(s, u)
      PROVE  IsFiniteSet(meals(i))
  <2>1. i \in 1..Len(s)
    BY LenProperties DEF Mine
  <2>2. s[i] \in OrderRec
    BY <2>1, ElementOfSeq
  <2>3. s[i].items \in Seq(Items)
    BY <2>2 DEF OrderRec
  <2>. QED
    BY <2>3, ItemsCount
<1>4. \A T \in image : IsFiniteSet(T)
  BY <1>3
<1>5. MealSet(s, u) = UNION image
  BY DEF MealSet
<1> HIDE DEF image
<1>. QED
  BY <1>2, <1>4, <1>5, FS_UNION

\* MealsToday counts them.
LEMMA MealsTodayIs == \A u : MealsToday(u) = Cardinality(MealSet(orders, u))
BY DEF MealsToday, MealSet, Mine

\* The day's meals are a number.
LEMMA MealsTodayType ==
    ASSUME NEW u \in Users, orders \in Seq(OrderRec)
    PROVE  MealsToday(u) \in Nat
BY MealSetFinite, MealsTodayIs, FS_CardinalityType

\* And so is what is left of the allowance.
LEMMA MaxAllowedType ==
    ASSUME NEW u \in Users, orders \in Seq(OrderRec)
    PROVE  MaxAllowed(u) \in Int
BY MealsTodayType, DialogAssumption DEF MaxAllowed

-----------------------------------------------------------------------------
(* The handlers of the phases keep the type of a row.                      *)

\* The number in a message.
LEMMA MessageNumber ==
    ASSUME NEW m \in Messages
    PROVE  m.number \in Int
<1> DEFINE words == {"ENDMEAL", "STATUS", "MEAL", "CONFIRM", "REDO", "TEXT"}
<1>1. CASE m \in [word: words, number: {0}]
  <2> HIDE DEF words
  <2>1. m.number \in {0}
    BY <1>1
  <2>. QED
    BY <2>1
<1>2. CASE m \in [word: {"TEXT"}, number: Numbers]
  <2>1. m.number \in Numbers
    BY <1>2
  <2>. QED
    BY <2>1, DialogAssumption
<1>. QED
  BY <1>1, <1>2 DEF Messages

\* A new row is well-typed.
LEMMA NewPartialType ==
    ASSUME NEW u \in Users
    PROVE  NewPartial(u) \in PartialOrder
BY EmptySeq DEF NewPartial, PartialOrder, Phases, Named

\* MEAL.
LEMMA RequestingMealType ==
    ASSUME NEW m \in Messages, NEW row \in PartialOrder
    PROVE  RequestingMeal(m, row) \in PartialOrder
BY DEF RequestingMeal, PartialOrder, Phases

\* An address.
LEMMA FindNearbyMealsType ==
    ASSUME NEW row \in PartialOrder, NEW r \in FindNearbyMeals(row)
    PROVE  r \in PartialOrder
<1>1. ASSUME NEW s \in NearbyWithMenu
      PROVE  s \in Seq(Locations)
  <2>1. PICK n \in 1..MaxNearby : s \in [1..n -> {l \in Locations : current[l]}]
    BY DEF NearbyWithMenu
  <2>2. n \in Nat /\ s \in [1..n -> Locations]
    BY <2>1, DialogAssumption
  <2>. QED
    BY <2>2
<1>2. CASE r = row
  BY <1>2
<1>3. ASSUME NEW s \in NearbyWithMenu, r = [row EXCEPT !.locs = s, !.phase = "CHOOSING_LOCATION"]
      PROVE  r \in PartialOrder
  BY <1>1, <1>3 DEF PartialOrder, Phases
<1>. QED
  BY <1>2, <1>3 DEF FindNearbyMeals

\* A location's number.
LEMMA ChooseLocationType ==
    ASSUME NEW m \in Messages, NEW row \in PartialOrder
    PROVE  ChooseLocation(m, row) \in PartialOrder
<1>1. CASE m.number \notin DOMAIN row.locs
  BY <1>1 DEF ChooseLocation
<1>2. CASE m.number \in DOMAIN row.locs
  <2> DEFINE l == row.locs[m.number]
             n == Smaller(Len(MenuOf[l]), MaxChoices)
             menu == IF current[l] THEN SubSeq(MenuOf[l], 1, n) ELSE <<>>
  <2>1. l \in Locations
    <3>1. row.locs \in Seq(Locations)
      BY DEF PartialOrder
    <3>. QED
      BY <1>2, <3>1, LenProperties, ElementOfSeq
  <2>2. MenuOf[l] \in Seq(Items)
    BY <2>1, DialogAssumption
  <2>3. n \in Nat /\ n <= Len(MenuOf[l])
    BY <2>2, LenProperties, DialogAssumption DEF Smaller
  <2>4. SubSeq(MenuOf[l], 1, n) \in Seq(Items)
    <3>1. \A i \in 1..n : MenuOf[l][i] \in Items
      <4>1. \A i \in 1..n : i \in 1..Len(MenuOf[l])
        BY <2>2, <2>3, LenProperties
      <4>. QED
        BY <2>2, <4>1, ElementOfSeq
    <3>. QED
      BY <2>3, <3>1, SubSeqProperties
  <2>5. menu \in Seq(Items)
    BY <2>4, EmptySeq
  <2>6. ChooseLocation(m, row) =
          [row EXCEPT !.menu = menu, !.chosen = l, !.phase = "CHOOSING_MENU_ITEM"]
    BY <1>2 DEF ChooseLocation
  <2> HIDE DEF l, menu
  <2>. QED
    BY <2>1, <2>5, <2>6 DEF PartialOrder, Phases
<1>. QED
  BY <1>1, <1>2

\* An item's number.
LEMMA ChooseItemType ==
    ASSUME NEW m \in Messages, NEW row \in PartialOrder
    PROVE  ChooseItem(m, row) \in PartialOrder
<1> DEFINE multiple == MaxAllowed(row.user) > 1
           phase == IF multiple THEN "MULTIPLE_ORDER" ELSE "CONFIRM_OR_REDO"
           item == row.menu[m.number]
           selected == Append(row.selected, item)
           named == IF multiple THEN row.named ELSE <<item, row.chosen>>
<1>1. CASE \/ m.number \notin 1..Smaller(MaxChoices, Len(row.menu))
           \/ ~multiple /\ row.chosen = None
  BY <1>1 DEF ChooseItem
<1>2. CASE m.number \in 1..Smaller(MaxChoices, Len(row.menu))
           /\ ~(~multiple /\ row.chosen = None)
  <2>1. row.menu \in Seq(Items) /\ row.selected \in Seq(Items)
    BY DEF PartialOrder
  <2>2. m.number \in 1..Len(row.menu)
    BY <1>2, <2>1, LenProperties, DialogAssumption DEF Smaller
  <2>3. item \in Items /\ selected \in Seq(Items)
    BY <2>1, <2>2, ElementOfSeq, AppendProperties
  <2>4. ChooseItem(m, row) =
          [row EXCEPT !.selected = selected, !.phase = phase, !.named = named]
    BY <1>2 DEF ChooseItem
  <2>5. phase \in Phases /\ named \in Named
    <3>1. row.named \in Named /\ row.chosen \in Locations \cup {None}
      BY DEF PartialOrder
    <3> HIDE DEF item
    <3>. QED
      BY <1>2, <2>3, <3>1 DEF Phases, Named
  <2> HIDE DEF selected, phase, named
  <2>. QED
    BY <2>3, <2>4, <2>5 DEF PartialOrder
<1>. QED
  BY <1>1, <1>2

\* How many.
LEMMA HandleMultipleOrdersType ==
    ASSUME NEW m \in Messages, NEW row \in PartialOrder, orders \in Seq(OrderRec),
           NEW r \in HandleMultipleOrders(m, row)
    PROVE  r \in PartialOrder
<1>1. CASE m.number <= 0
  <2>1. PICK q \in FindNearbyMeals(row) :
          r = [q EXCEPT !.again = q.again \/ q.phase = "CHOOSING_LOCATION"]
    BY <1>1 DEF HandleMultipleOrders
  <2>2. q \in PartialOrder
    BY FindNearbyMealsType
  <2>3. (q.again \/ q.phase = "CHOOSING_LOCATION") \in BOOLEAN
    OBVIOUS
  <2>. QED
    BY <2>1, <2>2, <2>3 DEF PartialOrder
<1>2. CASE ~(m.number <= 0) /\ (row.selected = <<>> \/ row.chosen = None)
  BY <1>2 DEF HandleMultipleOrders
<1>3. CASE ~(m.number <= 0) /\ row.selected # <<>> /\ row.chosen # None
  <2> DEFINE n == Smaller(m.number, MaxAllowed(row.user)) - 1
             more == Copies(row.selected[1], n)
  <2>1. r = [row EXCEPT !.selected = row.selected \o more, !.phase = "CONFIRM_OR_REDO",
                        !.named = <<row.selected[1], row.chosen>>]
    BY <1>3 DEF HandleMultipleOrders
  <2>2. row.user \in Users /\ row.selected \in Seq(Items)
    BY DEF PartialOrder
  <2>3. n \in Int
    <3>1. m.number \in Int
      BY MessageNumber
    <3>2. MaxAllowed(row.user) \in Int
      BY <2>2, MaxAllowedType
    <3>. QED
      BY <3>1, <3>2 DEF Smaller
  <2>4. row.selected[1] \in Items
    BY <1>3, <2>2, EmptySeq, ElementOfSeq
  <2>5. more \in Seq(Items)
    <3>1. 1..n = 1..(IF n < 0 THEN 0 ELSE n) /\ (IF n < 0 THEN 0 ELSE n) \in Nat
      BY <2>3
    <3>2. more \in [1..(IF n < 0 THEN 0 ELSE n) -> Items]
      BY <2>4, <3>1 DEF Copies
    <3> HIDE DEF n, more
    <3>. QED
      BY <3>1, <3>2
  <2>6. row.selected \o more \in Seq(Items)
    BY <2>2, <2>5, ConcatProperties
  <2>7. <<row.selected[1], row.chosen>> \in Named
    BY <1>3, <2>4 DEF PartialOrder, Named
  <2> HIDE DEF more
  <2>. QED
    BY <2>1, <2>6, <2>7 DEF PartialOrder, Phases
<1>. QED
  BY <1>1, <1>2, <1>3

\* Whatever the phase.
LEMMA NextRowsType ==
    ASSUME NEW m \in Messages, NEW row \in PartialOrder, orders \in Seq(OrderRec),
           NEW r \in NextRows(m, row)
    PROVE  r \in PartialOrder
<1>1. Redo(row) \in PartialOrder
  BY EmptySeq DEF Redo, PartialOrder, Phases, Named
<1>2. row.phase \in Phases
  BY DEF PartialOrder
<1>. QED
  BY <1>1, <1>2, RequestingMealType, FindNearbyMealsType, ChooseLocationType,
     ChooseItemType, HandleMultipleOrdersType DEF NextRows, Phases

-----------------------------------------------------------------------------
(* Transactions.                                                           *)

\* A row that is written over another.
LEMMA WrittenType ==
    ASSUME NEW now \in PartialOrder, NEW base \in PartialOrder, NEW row \in PartialOrder,
           NEW address \in BOOLEAN
    PROVE  Written(now, base, row, address) \in PartialOrder
<1> DEFINE columns == address \/ <<row.phase, row.chosen>> # <<base.phase, base.chosen>>
           phase == IF columns THEN row.phase ELSE now.phase
           chosen == IF columns THEN row.chosen ELSE now.chosen
           locs == IF row.locs # base.locs THEN row.locs ELSE now.locs
           menu == IF row.menu # base.menu THEN row.menu ELSE now.menu
           selected == IF row.selected # base.selected THEN row.selected ELSE now.selected
           named == IF row.named # base.named THEN row.named ELSE now.named
           again == IF row.again # base.again THEN row.again ELSE now.again
<1>1. Written(now, base, row, address) =
        [now EXCEPT !.phase = phase, !.chosen = chosen, !.locs = locs, !.menu = menu,
                    !.selected = selected, !.named = named, !.again = again]
  BY DEF Written
<1>2. /\ phase \in Phases /\ chosen \in Locations \cup {None} /\ locs \in Seq(Locations)
      /\ menu \in Seq(Items) /\ selected \in Seq(Items) /\ named \in Named
      /\ again \in BOOLEAN
  BY DEF PartialOrder
<1> HIDE DEF phase, chosen, locs, menu, selected, named, again
<1>. QED
  BY <1>1, <1>2 DEF PartialOrder

\* A transaction begins.
LEMMA BeginType ==
    ASSUME TypeOK, NEW h \in Handlers, NEW op \in {"insert", "update", "delete", "order"},
           NEW p \in Pids, NEW base \in PartialOrder, NEW row \in PartialOrder,
           Begin(h, op, p, base, row)
    PROVE  /\ DOMAIN tx' = Handlers
           /\ \A g \in Handlers : tx'[g] # None => Transaction(tx'[g])
BY DEF Begin, Transaction, TypeOK

\* A first message.
LEMMA StartType ==
    ASSUME TypeOK, NEW h \in Handlers, NEW u \in Users, NEW m \in Messages,
           StartDialog(h, u, m)
    PROVE  TypeOK'
<1>1. lastPid' \in Pids /\ lastPid' \in 0..MaxPartials
  BY DialogAssumption DEF StartDialog, TypeOK, Pids
<1>2. NewPartial(u) \in PartialOrder /\ RequestingMeal(m, NewPartial(u)) \in PartialOrder
  BY NewPartialType, RequestingMealType
<1>3. /\ DOMAIN tx' = Handlers
      /\ \A g \in Handlers : tx'[g] # None => Transaction(tx'[g])
  BY <1>1, <1>2, BeginType DEF StartDialog
<1>. QED
  BY <1>1, <1>3 DEF StartDialog, TypeOK, Transaction

\* A message of a dialog.
LEMMA ContinueType ==
    ASSUME TypeOK, NEW h \in Handlers, NEW u \in Users, NEW m \in Messages,
           ContinueDialog(h, u, m)
    PROVE  TypeOK'
<1>1. PICK p \in Rows(u) :
         \/ Begin(h, "delete", p, partials[p], partials[p])
         \/ Begin(h, "order", p, partials[p], partials[p])
         \/ \E r \in NextRows(m, partials[p]) : Begin(h, "update", p, partials[p], r)
  BY DEF ContinueDialog
<1>2. p \in Pids /\ partials[p] \in PartialOrder
  BY DEF Rows, TypeOK
<1>3. orders \in Seq(OrderRec)
  BY DEF TypeOK, OrderRec
<1>4. \A r \in NextRows(m, partials[p]) : r \in PartialOrder
  BY <1>2, <1>3, NextRowsType
<1>5. /\ DOMAIN tx' = Handlers
      /\ \A g \in Handlers : tx'[g] # None => Transaction(tx'[g])
  BY <1>1, <1>2, <1>4, BeginType
<1>. QED
  BY <1>5 DEF ContinueDialog, TypeOK, Transaction

\* A transaction commits.
LEMMA CommitType ==
    ASSUME TypeOK, NEW h \in Handlers, Commit(h)
    PROVE  TypeOK'
<1>0. PICK address \in BOOLEAN :
         LET t == tx[h]
             row == CASE t.op = "insert" -> t.row
                      [] t.op = "update" -> Written(partials[t.pid], t.base, t.row, address)
                      [] OTHER           -> None
         IN
         /\ partials' = IF TakesEffect(t) THEN [partials EXCEPT ![t.pid] = row] ELSE partials
         /\ orders' = IF TakesEffect(t) /\ t.op = "order"
                      THEN Append(orders, PlacedOrder(t.pid, t.row)) ELSE orders
  BY DEF Commit, AddressChanges
<1> DEFINE t == tx[h]
           row == CASE t.op = "insert" -> t.row
                    [] t.op = "update" -> Written(partials[t.pid], t.base, t.row, address)
                    [] OTHER           -> None
<1>1. /\ Transaction(t)
      /\ partials' = IF TakesEffect(t) THEN [partials EXCEPT ![t.pid] = row] ELSE partials
      /\ orders' = IF TakesEffect(t) /\ t.op = "order"
                   THEN Append(orders, PlacedOrder(t.pid, t.row)) ELSE orders
      /\ tx' = [tx EXCEPT ![h] = None]
      /\ UNCHANGED <<lastPid, current>>
  BY <1>0 DEF Commit, TypeOK, Transaction
<1>2. TakesEffect(t) => row = None \/ row \in PartialOrder
  BY <1>1, WrittenType DEF TakesEffect, Transaction, TypeOK
<1>3. /\ DOMAIN partials' = Pids
      /\ \A p \in Pids : partials'[p] = None \/ partials'[p] \in PartialOrder
  <2> HIDE DEF row, t
  <2>. QED
    BY <1>1, <1>2 DEF TypeOK
<1>4. orders' \in Seq(OrderRec)
  <2>1. PlacedOrder(t.pid, t.row) \in OrderRec
    BY <1>1 DEF PlacedOrder, OrderRec, Transaction, PartialOrder
  <2>2. orders \in Seq(OrderRec)
    BY DEF TypeOK, OrderRec
  <2>. QED
    BY <1>1, <2>1, <2>2, AppendProperties
<1>5. DOMAIN tx' = Handlers /\ \A g \in Handlers : tx'[g] = None \/ tx'[g] = tx[g]
  BY <1>1 DEF TypeOK
<1>. QED
  BY <1>1, <1>3, <1>4, <1>5 DEF TypeOK, OrderRec

\* Another day.
LEMMA MidnightType ==
    ASSUME TypeOK, Midnight
    PROVE  TypeOK'
<1>1. orders \in Seq(OrderRec)
  BY DEF TypeOK, OrderRec
<1>2. orders' = [i \in 1..Len(orders) |-> [orders[i] EXCEPT !.today = FALSE]]
  BY <1>1, LenProperties DEF Midnight
<1>3. \A i \in 1..Len(orders) : [orders[i] EXCEPT !.today = FALSE] \in OrderRec
  <2>1. \A i \in 1..Len(orders) : orders[i] \in OrderRec
    BY <1>1, ElementOfSeq
  <2>. QED
    BY <2>1 DEF OrderRec
<1>4. orders' \in Seq(OrderRec)
  <2>1. Len(orders) \in Nat
    BY <1>1, LenProperties
  <2>2. orders' \in [1..Len(orders) -> OrderRec]
    BY <1>2, <1>3
  <2>. QED
    BY <2>1, <2>2
<1>. QED
  BY <1>4 DEF Midnight, TypeOK, OrderRec

\* Every reachable dialog, order and transaction is well typed: each handler finds
\* the fields it works with and leaves rows that the next one can use.
THEOREM TypeCorrect == Spec => []TypeOK
<1>1. Init => TypeOK
  BY EmptySeq, DialogAssumption DEF Init, TypeOK
<1>2. TypeOK /\ [Next]_vars => TypeOK'
  <2> SUFFICES ASSUME TypeOK, [Next]_vars
               PROVE  TypeOK'
    OBVIOUS
  <2>1. ASSUME NEW l \in Locations, ToggleCurrent(l)
        PROVE  TypeOK'
    BY <2>1 DEF ToggleCurrent, TypeOK
  <2>2. CASE UNCHANGED vars
    BY <2>2 DEF vars, TypeOK
  <2>. QED
    BY <2>1, <2>2, StartType, ContinueType, CommitType, MidnightType DEF Next
<1>. QED
  BY <1>1, <1>2, PTL DEF Spec

-----------------------------------------------------------------------------
(* One order for a dialog.  The row of a dialog that has placed its order is *)
(* gone, and no row comes back: an id is given to one insert, which commits  *)
(* before the row is there to be read.                                       *)

Placed(p) == \E i \in DOMAIN orders : orders[i].dialog = p
Inserts(h, p) == tx[h] # None /\ tx[h].op = "insert" /\ tx[h].pid = p

\* Ids of rows, of pending inserts and of placed orders have been given out.
IdsGiven ==
    \A p \in Pids : partials[p] # None \/ Placed(p) \/ (\E h \in Handlers : Inserts(h, p))
                    => p <= lastPid

\* A pending insert is the only one of its id, and its row has never been there.
InsertsAreNew ==
    \A h \in Handlers, p \in Pids : Inserts(h, p) =>
        /\ partials[p] = None
        /\ ~Placed(p)
        /\ \A g \in Handlers : Inserts(g, p) => g = h

PlacedAreGone == \A p \in Pids : Placed(p) => partials[p] = None

IInv == TypeOK /\ IdsGiven /\ InsertsAreNew /\ PlacedAreGone /\ OneOrderPerDialog

\* A first message takes an id that was not given out.
LEMMA StartStep ==
    ASSUME IInv, NEW h \in Handlers, NEW u \in Users, NEW m \in Messages,
           StartDialog(h, u, m)
    PROVE  IdsGiven' /\ InsertsAreNew' /\ PlacedAreGone' /\ OneOrderPerDialog'
<1> DEFINE q == lastPid + 1
<1>1. /\ lastPid \in Nat /\ lastPid' = q /\ q \in Pids
      /\ tx'[h].op = "insert" /\ tx'[h].pid = q
      /\ \A g \in Handlers \ {h} : tx'[g] = tx[g]
      /\ UNCHANGED <<partials, orders>>
  BY DialogAssumption DEF StartDialog, Begin, IInv, TypeOK, Pids
<1>2. partials[q] = None /\ ~Placed(q) /\ \A g \in Handlers : ~Inserts(g, q)
  BY <1>1 DEF IInv, IdsGiven
<1>3. \A p \in Pids : Placed(p)' <=> Placed(p)
  BY <1>1 DEF Placed
<1>4. \A g \in Handlers, p \in Pids : Inserts(g, p)' => Inserts(g, p) \/ (g = h /\ p = q)
  BY <1>1 DEF Inserts
<1>5. IdsGiven'
  <2> SUFFICES ASSUME NEW p \in Pids,
                      (partials[p] # None \/ Placed(p) \/ \E g \in Handlers : Inserts(g, p))'
               PROVE  p <= q
    BY <1>1 DEF IdsGiven
  <2>1. p <= lastPid \/ p = q
    BY <1>1, <1>3, <1>4 DEF IInv, IdsGiven
  <2>. QED
    BY <1>1, <2>1 DEF Pids
<1>6. InsertsAreNew'
  <2> SUFFICES ASSUME NEW g \in Handlers, NEW p \in Pids, Inserts(g, p)'
               PROVE  /\ partials[p] = None
                      /\ ~Placed(p)
                      /\ \A k \in Handlers : Inserts(k, p)' => k = g
    BY <1>1, <1>3 DEF InsertsAreNew
  <2>1. CASE p = q
    BY <1>2, <1>4, <2>1
  <2>2. CASE p # q
    BY <1>4, <2>2 DEF IInv, InsertsAreNew
  <2>. QED
    BY <2>1, <2>2
<1>7. PlacedAreGone' /\ OneOrderPerDialog'
  BY <1>1, <1>3 DEF IInv, PlacedAreGone, OneOrderPerDialog
<1>. QED
  BY <1>5, <1>6, <1>7

\* A step of which the ids are as before, and which adds no pending insert.
LEMMA SameIds ==
    ASSUME IInv, UNCHANGED <<partials, lastPid>>,
           \A g \in Handlers, p \in Pids : Inserts(g, p)' => Inserts(g, p),
           DOMAIN orders' = DOMAIN orders,
           \A i \in DOMAIN orders : orders'[i].dialog = orders[i].dialog
    PROVE  IdsGiven' /\ InsertsAreNew' /\ PlacedAreGone' /\ OneOrderPerDialog'
<1>1. \A p \in Pids : Placed(p)' <=> Placed(p)
  BY DEF Placed
<1>2. IdsGiven' /\ InsertsAreNew' /\ PlacedAreGone'
  BY <1>1 DEF IInv, IdsGiven, InsertsAreNew, PlacedAreGone
<1>3. OneOrderPerDialog'
  BY DEF IInv, OneOrderPerDialog
<1>. QED
  BY <1>2, <1>3

\* A message of a dialog inserts nothing.
LEMMA ContinueStep ==
    ASSUME IInv, NEW h \in Handlers, NEW u \in Users, NEW m \in Messages,
           ContinueDialog(h, u, m)
    PROVE  IdsGiven' /\ InsertsAreNew' /\ PlacedAreGone' /\ OneOrderPerDialog'
<1>1. tx'[h].op # "insert" /\ \A g \in Handlers \ {h} : tx'[g] = tx[g]
  BY DEF ContinueDialog, Begin, IInv, TypeOK
<1>2. \A g \in Handlers, p \in Pids : Inserts(g, p)' => Inserts(g, p)
  BY <1>1 DEF Inserts
<1>3. UNCHANGED <<partials, lastPid, orders>>
  BY DEF ContinueDialog
<1>. QED
  BY <1>2, <1>3, SameIds

\* Another day changes no id.
LEMMA MidnightStep ==
    ASSUME IInv, Midnight
    PROVE  IdsGiven' /\ InsertsAreNew' /\ PlacedAreGone' /\ OneOrderPerDialog'
<1>1. \A i \in DOMAIN orders : orders[i] \in OrderRec
  <2>1. orders \in Seq(OrderRec)
    BY DEF IInv, TypeOK, OrderRec
  <2>. QED
    BY <2>1, LenProperties, ElementOfSeq
<1>2. /\ DOMAIN orders' = DOMAIN orders
      /\ \A i \in DOMAIN orders : orders'[i].dialog = orders[i].dialog
  BY <1>1 DEF Midnight, OrderRec
<1>3. UNCHANGED <<partials, lastPid, tx>>
  BY DEF Midnight
<1>. QED
  BY <1>2, <1>3, SameIds DEF Inserts

\* The transaction of h commits: what it inserts is new, and what it places it
\* deletes in the same step.
LEMMA CommitStep ==
    ASSUME IInv, NEW h \in Handlers, Commit(h)
    PROVE  IdsGiven' /\ InsertsAreNew' /\ PlacedAreGone' /\ OneOrderPerDialog'
<1> DEFINE t == tx[h]
           q == t.pid
           n == Len(orders) + 1
<1>1. Transaction(t) /\ tx[h] # None /\ q \in Pids
  BY DEF Commit, IInv, TypeOK, Transaction
<1>2. UNCHANGED lastPid /\ \A g \in Handlers, p \in Pids : Inserts(g, p)' => Inserts(g, p) /\ g # h
  BY DEF Commit, Inserts, IInv, TypeOK
<1>3. orders \in Seq(OrderRec) /\ DOMAIN orders = 1..Len(orders) /\ Len(orders) \in Nat
  <2>1. orders \in Seq(OrderRec)
    BY DEF IInv, TypeOK, OrderRec
  <2>. QED
    BY <2>1, LenProperties
<1>4. CASE ~TakesEffect(t)
  <2>1. UNCHANGED <<partials, orders>>
    BY <1>4 DEF Commit
  <2>. QED
    BY <1>2, <2>1, SameIds
<1>5. CASE TakesEffect(t) /\ t.op # "order"
  <2>1. /\ \A p \in Pids : p # q => partials'[p] = partials[p]
        /\ UNCHANGED orders
    BY <1>5 DEF Commit, IInv, TypeOK
  <2>2. \A p \in Pids : Placed(p)' <=> Placed(p)
    BY <2>1 DEF Placed
  <2>3. q <= lastPid /\ ~Placed(q)
    <3>1. CASE t.op = "insert"
      BY <1>1, <3>1 DEF Inserts, IInv, IdsGiven, InsertsAreNew
    <3>2. CASE t.op # "insert"
      BY <1>1, <1>5, <3>2 DEF TakesEffect, IInv, IdsGiven, PlacedAreGone
    <3>. QED
      BY <3>1, <3>2
  <2>4. \A g \in Handlers, p \in Pids : Inserts(g, p)' => p # q
    <3>1. CASE t.op = "insert"
      BY <1>1, <1>2, <3>1 DEF Inserts, IInv, InsertsAreNew
    <3>2. CASE t.op # "insert"
      BY <1>1, <1>2, <1>5, <3>2 DEF TakesEffect, IInv, InsertsAreNew
    <3>. QED
      BY <3>1, <3>2
  <2> HIDE DEF q
  <2>5. IdsGiven'
    BY <1>1, <1>2, <2>1, <2>2, <2>3 DEF IInv, IdsGiven
  <2>6. InsertsAreNew'
    BY <1>1, <1>2, <2>1, <2>2, <2>4 DEF IInv, InsertsAreNew
  <2>7. PlacedAreGone' /\ OneOrderPerDialog'
    BY <1>1, <2>1, <2>2, <2>3 DEF IInv, PlacedAreGone, OneOrderPerDialog
  <2>. QED
    BY <2>5, <2>6, <2>7
<1>6. CASE TakesEffect(t) /\ t.op = "order"
  <2>1. /\ partials' = [partials EXCEPT ![q] = None]
        /\ orders' = Append(orders, PlacedOrder(q, t.row))
    BY <1>6 DEF Commit
  <2>2. PlacedOrder(q, t.row).dialog = q /\ PlacedOrder(q, t.row) \in OrderRec
    BY <1>1 DEF PlacedOrder, Transaction, PartialOrder, OrderRec
  <2>3. /\ DOMAIN orders' = 1..n
        /\ orders'[n].dialog = q
        /\ \A i \in 1..Len(orders) : orders'[i] = orders[i]
    BY <1>3, <2>1, <2>2, AppendProperties, LenProperties
  <2>4. partials[q] # None /\ ~Placed(q) /\ q <= lastPid
    BY <1>1, <1>6 DEF TakesEffect, IInv, IdsGiven, PlacedAreGone
  <2>5. \A p \in Pids : Placed(p)' <=> Placed(p) \/ p = q
    BY <1>3, <2>3 DEF Placed
  <2>6. \A p \in Pids : partials'[p] = IF p = q THEN None ELSE partials[p]
    BY <2>1 DEF IInv, TypeOK
  <2>7. \A g \in Handlers : ~Inserts(g, q)
    BY <1>1, <2>4 DEF IInv, InsertsAreNew
  <2>8. OneOrderPerDialog'
    <3> SUFFICES ASSUME NEW i \in 1..n, NEW j \in 1..n,
                        orders'[i].dialog = orders'[j].dialog
                 PROVE  i = j
      BY <2>3 DEF OneOrderPerDialog
    <3>1. CASE i \in 1..Len(orders) /\ j \in 1..Len(orders)
      BY <1>3, <2>3, <3>1 DEF IInv, OneOrderPerDialog
    <3>2. CASE i = n \/ j = n
      <4>1. \A k \in 1..Len(orders) : orders'[k].dialog # q
        BY <1>3, <2>3, <2>4 DEF Placed
      <4>. QED
        BY <1>3, <2>3, <3>2, <4>1
    <3>. QED
      BY <1>3, <3>1, <3>2
  <2> HIDE DEF q
  <2>9. IdsGiven'
    BY <1>1, <1>2, <2>4, <2>5, <2>6 DEF IInv, IdsGiven
  <2>10. InsertsAreNew'
    BY <1>1, <1>2, <2>5, <2>6, <2>7 DEF IInv, InsertsAreNew
  <2>11. PlacedAreGone'
    BY <2>5, <2>6 DEF IInv, PlacedAreGone
  <2>. QED
    BY <2>8, <2>9, <2>10, <2>11
<1>. QED
  BY <1>4, <1>5, <1>6

\* However many messages of a user are handled at once, and however often CONFIRM
\* is sent, a dialog places at most one order.
THEOREM OneOrder == Spec => []OneOrderPerDialog
<1>1. Init => IInv
  <2>1. Init => TypeOK
    BY EmptySeq, DialogAssumption DEF Init, TypeOK
  <2>2. Init => DOMAIN orders = {}
    BY DEF Init
  <2>3. Init => IdsGiven /\ InsertsAreNew /\ PlacedAreGone /\ OneOrderPerDialog
    BY <2>2 DEF Init, IdsGiven, InsertsAreNew, PlacedAreGone, OneOrderPerDialog, Placed, Inserts
  <2>. QED
    BY <2>1, <2>3 DEF IInv
<1>2. IInv /\ [Next]_vars => IdsGiven' /\ InsertsAreNew' /\ PlacedAreGone' /\ OneOrderPerDialog'
  <2> SUFFICES ASSUME IInv, [Next]_vars
               PROVE  IdsGiven' /\ InsertsAreNew' /\ PlacedAreGone' /\ OneOrderPerDialog'
    OBVIOUS
  <2>1. CASE UNCHANGED <<partials, lastPid, orders, tx>>
    BY <2>1, SameIds DEF Inserts
  <2>. QED
    BY <2>1, StartStep, ContinueStep, CommitStep, MidnightStep DEF Next, ToggleCurrent, vars
<1>3. TypeOK' /\ IdsGiven' /\ InsertsAreNew' /\ PlacedAreGone' /\ OneOrderPerDialog' => IInv'
  BY DEF IInv
<1>4. IInv => OneOrderPerDialog
  BY DEF IInv
<1>. QED
  BY <1>1, <1>2, <1>3, <1>4, TypeCorrect, PTL DEF Spec
=============================================================================
