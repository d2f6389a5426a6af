---------------------- MODULE OrderDialogSequentialProofs ----------------------
(***************************************************************************)
(* Proofs about OrderDialog where messages are handled one after the other: *)
(* what the phases need of a dialog's row is there, a user has one dialog,  *)
(* and what is ordered is complete, as it was confirmed and within the      *)
(* day's allowance.  With two messages at a time a transaction may write a  *)
(* row that another one has changed since, and none of this holds.          *)
(***************************************************************************)
EXTENDS OrderDialogProofs

OneHandler == \A g, h \in Handlers : g = h

-----------------------------------------------------------------------------
(* The inductive invariant.                                                *)

OneMeal(items) == \A x, y \in Elements(items) : x = y

\* What the phases leave in a row: what the next one needs, and one meal of the chosen
\* provider's menu, the one that the text asking to CONFIRM names, unless the user was
\* sent back.
GoodRow(row) ==
    /\ row.phase = "CHOOSING_LOCATION" => row.locs # <<>>
    /\ row.phase \in {"CHOOSING_MENU_ITEM", "MULTIPLE_ORDER", "CONFIRM_OR_REDO"} =>
          row.chosen \in Elements(row.locs)
    /\ row.phase = "CHOOSING_MENU_ITEM" => Elements(row.menu) \subseteq Elements(MenuOf[row.chosen])
    /\ row.phase \in {"MULTIPLE_ORDER", "CONFIRM_OR_REDO"} =>
          /\ row.selected # <<>>
          /\ ~row.again => /\ OneMeal(row.selected)
                           /\ Elements(row.selected) \subseteq Elements(MenuOf[row.chosen])
    /\ row.phase = "CONFIRM_OR_REDO" /\ ~row.again =>
          \A x \in Elements(row.selected) : row.named = <<x, row.chosen>>
    /\ row.phase = "MULTIPLE_ORDER" /\ ~row.again => Len(row.selected) = 1
    /\ row.phase \notin {"MULTIPLE_ORDER", "CONFIRM_OR_REDO"} /\ ~row.again => row.selected = <<>>

SentBack(u) == \E i \in DOMAIN orders : orders[i].user = u /\ orders[i].today /\ orders[i].again

\* There is a dialog only while the user may order a meal, and what is selected may be
\* ordered unless the user was sent back.
Allowed(row) ==
    /\ MealsToday(row.user) < MaxMealsPerDay[row.user]
    /\ ~row.again => MealsToday(row.user) + Len(row.selected) <= MaxMealsPerDay[row.user]

RowsGood == \A p \in Pids : partials[p] # None => GoodRow(partials[p]) /\ Allowed(partials[p])

\* A transaction has read the row as it is.
Current(t) ==
    /\ t.op = "insert" => Rows(t.row.user) = {}
    /\ t.op # "insert" => partials[t.pid] = t.base /\ t.row.user = t.base.user
    /\ t.op = "order" => t.row = t.base /\ t.row.phase = "CONFIRM_OR_REDO"

TxGood ==
    \A h \in Handlers : tx[h] # None => GoodRow(tx[h].row) /\ Allowed(tx[h].row) /\ Current(tx[h])

GoodOrder(o) ==
    /\ o.location # None /\ o.items # <<>>
    /\ ~o.again => \A x \in Elements(o.items) :
                      o.named = <<x, o.location>> /\ x \in Elements(MenuOf[o.location])

OrdersGood == \A i \in DOMAIN orders : GoodOrder(orders[i])

Sound == RowsGood /\ TxGood /\ OrdersGood /\ OneDialogPerUser /\ DailyAllowance

-----------------------------------------------------------------------------
(* The handlers of the phases keep a row good and within the allowance.    *)

\* What saving r over row has to keep.
Keeps(row, r) == GoodRow(r) /\ Allowed(r) /\ r.user = row.user

\* A row whose meals and flag are as they were is within the allowance.
LEMMA SameAllowed ==
    ASSUME NEW row, NEW r, Allowed(row), r.user = row.user,
           r.again = row.again, r.selected = row.selected
    PROVE  Allowed(r)
BY DEF Allowed

\* Sequences and their elements.
LEMMA ElementsIn ==
    ASSUME NEW S, NEW s \in Seq(S)
    PROVE  /\ Elements(s) = {s[i] : i \in 1..Len(s)}
           /\ Len(s) \in Nat
           /\ s # <<>> => Len(s) > 0 /\ s[1] \in Elements(s)
<1>1. DOMAIN s = 1..Len(s) /\ Len(s) \in Nat
  BY LenProperties
<1>2. s # <<>> => Len(s) > 0
  BY <1>1, EmptySeq
<1>. QED
  BY <1>1, <1>2 DEF Elements

\* Each handler keeps a good row. MEAL starts the dialog.
LEMMA RequestingMealKeeps ==
    ASSUME NEW m \in Messages, NEW row \in PartialOrder, GoodRow(row), Allowed(row),
           row.phase = "MEAL"
    PROVE  Keeps(row, RequestingMeal(m, row))
<1> DEFINE r == RequestingMeal(m, row)
<1>1. CASE m.word = "MEAL"
  <2>1. r = [row EXCEPT !.phase = "PROVIDING_ADDRESS"]
    BY <1>1 DEF RequestingMeal
  <2>2. /\ r.phase = "PROVIDING_ADDRESS" /\ r.user = row.user /\ r.again = row.again
        /\ r.selected = row.selected
    BY <2>1 DEF PartialOrder
  <2> HIDE DEF r
  <2>3. GoodRow(r)
    BY <2>2 DEF GoodRow
  <2>4. Keeps(row, r)
    BY <2>2, <2>3, SameAllowed DEF Keeps
  <2>. QED
    BY <2>4 DEF r
<1>2. CASE m.word # "MEAL"
  BY <1>2 DEF RequestingMeal, Keeps
<1>. QED
  BY <1>1, <1>2

\* Locations to choose from are found, or the row stays.
LEMMA NearbyFound ==
    ASSUME NEW row \in PartialOrder, NEW r \in FindNearbyMeals(row), r # row
    PROVE  /\ r.locs # <<>>
           /\ r.phase = "CHOOSING_LOCATION"
           /\ r.user = row.user /\ r.again = row.again /\ r.selected = row.selected
<1>1. PICK s \in NearbyWithMenu : r = [row EXCEPT !.locs = s, !.phase = "CHOOSING_LOCATION"]
  BY DEF FindNearbyMeals
<1>2. PICK n \in 1..MaxNearby : s \in [1..n -> {l \in Locations : current[l]}]
  BY DEF NearbyWithMenu
<1>3. 1 \in DOMAIN s
  BY <1>2, DialogAssumption
<1>4. s # <<>>
  BY <1>3
<1>. QED
  BY <1>1, <1>4 DEF PartialOrder

\* There is a location to choose from as soon as the user is asked to choose.
LEMMA FindNearbyMealsKeeps ==
    ASSUME NEW row \in PartialOrder, GoodRow(row), Allowed(row),
           row.phase = "PROVIDING_ADDRESS", NEW r \in FindNearbyMeals(row)
    PROVE  Keeps(row, r)
<1>1. CASE r = row
  BY <1>1 DEF Keeps
<1>2. CASE r # row
  <2>1. GoodRow(r)
    BY <1>2, NearbyFound DEF GoodRow
  <2>. QED
    BY <1>2, <2>1, NearbyFound, SameAllowed DEF Keeps
<1>. QED
  BY <1>1, <1>2

\* What is offered is on the menu of the chosen location.
LEMMA ChooseLocationKeeps ==
    ASSUME NEW m \in Messages, NEW row \in PartialOrder, GoodRow(row), Allowed(row),
           row.phase = "CHOOSING_LOCATION"
    PROVE  Keeps(row, ChooseLocation(m, row))
<1>1. CASE m.number \notin DOMAIN row.locs
  BY <1>1 DEF ChooseLocation, Keeps
<1>2. CASE m.number \in DOMAIN row.locs
  <2> DEFINE l == row.locs[m.number]
             n == Smaller(Len(MenuOf[l]), MaxChoices)
             menu == IF current[l] THEN SubSeq(MenuOf[l], 1, n) ELSE <<>>
             r == ChooseLocation(m, row)
  <2>1. l \in Elements(row.locs) /\ l \in Locations
    <3>1. row.locs \in Seq(Locations)
      BY DEF PartialOrder
    <3>. QED
      BY <1>2, <3>1, LenProperties, ElementOfSeq DEF Elements
  <2>2. MenuOf[l] \in Seq(Items)
    BY <2>1, DialogAssumption
  <2>3. n \in Nat /\ n <= Len(MenuOf[l])
    BY <2>2, LenProperties, DialogAssumption DEF Smaller
  <2>4. Elements(SubSeq(MenuOf[l], 1, n)) \subseteq Elements(MenuOf[l])
    <3>1. DOMAIN MenuOf[l] = 1..Len(MenuOf[l]) /\ Len(MenuOf[l]) \in Nat
      BY <2>2, LenProperties
    <3>2. SubSeq(MenuOf[l], 1, n) = [i \in 1..n |-> MenuOf[l][i]]
      BY <2>2, <2>3, <3>1
    <3> HIDE DEF n
    <3>. QED
      BY <2>3, <3>1, <3>2 DEF Elements
  <2>5. Elements(menu) \subseteq Elements(MenuOf[l])
    <3>1. Elements(<<>>) = {}
      BY EmptySeq DEF Elements
    <3>. QED
      BY <2>4, <3>1
  <2>6. r = [row EXCEPT !.menu = menu, !.chosen = l, !.phase = "CHOOSING_MENU_ITEM"]
    BY <1>2 DEF ChooseLocation
  <2> HIDE DEF l, menu, r
  <2>7. /\ r.phase = "CHOOSING_MENU_ITEM" /\ r.chosen = l /\ r.menu = menu
        /\ r.locs = row.locs /\ r.user = row.user /\ r.again = row.again
        /\ r.selected = row.selected
    BY <2>6 DEF PartialOrder
  <2>8. GoodRow(r)
    BY <2>1, <2>5, <2>7 DEF GoodRow
  <2>9. Keeps(row, r)
    BY <2>7, <2>8, SameAllowed DEF Keeps
  <2>. QED
    BY <2>9 DEF r
<1>. QED
  BY <1>1, <1>2

\* REDO clears what was selected.
LEMMA RedoKeeps ==
    ASSUME NEW row \in PartialOrder, GoodRow(row), Allowed(row), orders \in Seq(OrderRec),
           row.locs # <<>>
    PROVE  Keeps(row, Redo(row))
<1> DEFINE r == Redo(row)
<1>1. /\ r.phase = "CHOOSING_LOCATION" /\ r.selected = <<>> /\ r.again = FALSE
      /\ r.user = row.user /\ r.locs = row.locs
  BY DEF Redo, PartialOrder
<1> HIDE DEF r
<1>2. GoodRow(r)
  BY <1>1 DEF GoodRow
<1>3. Allowed(r)
  <2>1. row.user \in Users
    BY DEF PartialOrder
  <2>2. MealsToday(row.user) \in Nat /\ MaxMealsPerDay[row.user] \in Nat /\ Len(<<>>) = 0
    BY <2>1, MealsTodayType, DialogAssumption, EmptySeq
  <2>. QED
    BY <1>1, <2>2 DEF Allowed
<1>4. Keeps(row, r)
  BY <1>1, <1>2, <1>3 DEF Keeps
<1>. QED
  BY <1>4 DEF r

\* What the allowance says of a row, in numbers.
LEMMA AllowedNumbers ==
    ASSUME NEW row \in PartialOrder, orders \in Seq(OrderRec)
    PROVE  /\ MealsToday(row.user) \in Nat /\ MaxMealsPerDay[row.user] \in Nat
           /\ Len(row.selected) \in Nat
           /\ MaxAllowed(row.user) \in Int
           /\ Allowed(row) =>
                 MaxAllowed(row.user) = MaxMealsPerDay[row.user] - MealsToday(row.user)
<1>1. row.user \in Users /\ row.selected \in Seq(Items)
  BY DEF PartialOrder
<1>2. /\ MealsToday(row.user) \in Nat /\ MaxMealsPerDay[row.user] \in Nat
      /\ Len(row.selected) \in Nat
  BY <1>1, MealsTodayType, DialogAssumption, LenProperties
<1>3. Allowed(row) => MaxMealsPerDay[row.user] > MealsToday(row.user)
  BY <1>2 DEF Allowed
<1>. QED
  BY <1>2, <1>3 DEF MaxAllowed

\* An item is of the chosen location's menu, and the first one unless the user was
\* sent back.
LEMMA ChooseItemKeeps ==
    ASSUME NEW m \in Messages, NEW row \in PartialOrder, orders \in Seq(OrderRec),
           GoodRow(row), Allowed(row), row.phase = "CHOOSING_MENU_ITEM"
    PROVE  Keeps(row, ChooseItem(m, row))
<1> DEFINE multiple == MaxAllowed(row.user) > 1
           phase == IF multiple THEN "MULTIPLE_ORDER" ELSE "CONFIRM_OR_REDO"
           item == row.menu[m.number]
           named == IF multiple THEN row.named ELSE <<item, row.chosen>>
           r == ChooseItem(m, row)
<1>1. CASE \/ m.number \notin 1..Smaller(MaxChoices, Len(row.menu))
           \/ ~multiple /\ row.chosen = None
  BY <1>1 DEF ChooseItem, Keeps
<1>2. CASE m.number \in 1..Smaller(MaxChoices, Len(row.menu))
           /\ ~(~multiple /\ row.chosen = None)
  <2>1. row.menu \in Seq(Items) /\ row.selected \in Seq(Items) /\ row.again \in BOOLEAN
    BY DEF PartialOrder
  <2>2. m.number \in 1..Len(row.menu)
    BY <1>2, <2>1, LenProperties, DialogAssumption DEF Smaller
  <2>3. item \in Items /\ item \in Elements(MenuOf[row.chosen])
    <3>1. item \in Items /\ item \in Elements(row.menu)
      BY <2>1, <2>2, LenProperties, ElementOfSeq DEF Elements
    <3>. QED
      BY <3>1 DEF GoodRow
  <2>4. r = [row EXCEPT !.selected = Append(row.selected, item), !.phase = phase,
                        !.named = named]
    BY <1>2 DEF ChooseItem
  <2>5. phase = "MULTIPLE_ORDER" \/ (phase = "CONFIRM_OR_REDO" /\ named = <<item, row.chosen>>)
    OBVIOUS
  <2> HIDE DEF item, phase, named, r
  <2>6. /\ r.selected = Append(row.selected, item) /\ r.phase = phase
        /\ r.user = row.user /\ r.again = row.again /\ r.chosen = row.chosen
        /\ r.locs = row.locs /\ r.named = named
    BY <2>4 DEF PartialOrder
  <2>7. Len(r.selected) = Len(row.selected) + 1 /\ r.selected # <<>>
    <3>1. Append(row.selected, item) \in Seq(Items)
      BY <2>1, <2>3, AppendProperties
    <3>2. Len(r.selected) = Len(row.selected) + 1 /\ Len(row.selected) \in Nat
      BY <2>1, <2>3, <2>6, AppendProperties, LenProperties
    <3>. QED
      BY <2>6, <3>1, <3>2, EmptySeq
  <2>8. ~row.again => Len(r.selected) = 1 /\ Elements(r.selected) = {item}
    <3> SUFFICES ASSUME ~row.again PROVE Len(r.selected) = 1 /\ Elements(r.selected) = {item}
      OBVIOUS
    <3>1. row.selected = <<>>
      BY DEF GoodRow
    <3>2. Append(row.selected, item) = <<item>>
      BY <2>3, <3>1
    <3>3. Elements(<<item>>) = {item} /\ Len(<<item>>) = 1
      BY DEF Elements
    <3>. QED
      BY <2>6, <3>2, <3>3
  <2>9. GoodRow(r)
    BY <2>3, <2>5, <2>6, <2>7, <2>8 DEF GoodRow, OneMeal
  <2>10. Allowed(r)
    <3>1. MealsToday(row.user) < MaxMealsPerDay[row.user]
      BY DEF Allowed
    <3>. QED
      BY <2>6, <2>8, <3>1, AllowedNumbers DEF Allowed
  <2>11. Keeps(row, r)
    BY <2>6, <2>9, <2>10 DEF Keeps
  <2>. QED
    BY <2>11 DEF r
<1>. QED
  BY <1>1, <1>2

\* So many copies of an item.
LEMMA MoreOfIt ==
    ASSUME NEW item \in Items, NEW n \in Int, NEW s \in Seq(Items), s # <<>>, s[1] = item,
           Elements(s) = {item}
    PROVE  LET t == s \o Copies(item, n) IN
           /\ t # <<>> /\ Elements(t) = {item}
           /\ Len(t) = Len(s) + (IF n > 0 THEN n ELSE 0)
<1> DEFINE k == IF n > 0 THEN n ELSE 0
           c == Copies(item, n)
           t == s \o c
<1>1. k \in Nat /\ c = [i \in 1..k |-> item]
  <2>1. 1..n = 1..k
    OBVIOUS
  <2>. QED
    BY <2>1 DEF Copies
<1> HIDE DEF k, c
<1>2. c \in Seq(Items) /\ Len(c) = k
  BY <1>1
<1>3. /\ t \in Seq(Items) /\ Len(t) = Len(s) + k
      /\ \A i \in 1..Len(t) : t[i] = IF i <= Len(s) THEN s[i] ELSE c[i - Len(s)]
  BY <1>2, ConcatProperties
<1>4. Len(s) \in Nat /\ Len(s) > 0 /\ \A i \in 1..Len(s) : s[i] = item
  BY ElementsIn
<1>5. Elements(t) = {t[i] : i \in 1..Len(t)} /\ Len(t) \in Nat
  BY <1>3, ElementsIn
<1>6. \A i \in 1..Len(t) : t[i] = item
  BY <1>1, <1>3, <1>4
<1>7. 1 \in 1..Len(t) /\ t # <<>>
  BY <1>1, <1>3, <1>4, EmptySeq
<1>8. Elements(t) = {item}
  BY <1>5, <1>6, <1>7
<1>. QED
  BY <1>3, <1>7, <1>8 DEF k, c

\* Less than one sends the user back; otherwise the meals are as many as asked for,
\* and no more than are left today.
LEMMA HandleMultipleOrdersKeeps ==
    ASSUME NEW m \in Messages, NEW row \in PartialOrder, orders \in Seq(OrderRec),
           GoodRow(row), Allowed(row), row.phase = "MULTIPLE_ORDER",
           NEW r \in HandleMultipleOrders(m, row)
    PROVE  Keeps(row, r)
<1>0. row.again \in BOOLEAN
  BY DEF PartialOrder
<1>1. CASE m.number <= 0
  <2>1. PICK q \in FindNearbyMeals(row) :
          r = [q EXCEPT !.again = q.again \/ q.phase = "CHOOSING_LOCATION"]
    BY <1>1 DEF HandleMultipleOrders
  <2>2. q \in PartialOrder
    BY FindNearbyMealsType
  <2>3. /\ r.again = (q.again \/ q.phase = "CHOOSING_LOCATION") /\ r.phase = q.phase
        /\ r.locs = q.locs /\ r.user = q.user /\ r.chosen = q.chosen /\ r.selected = q.selected
    BY <2>1, <2>2 DEF PartialOrder
  <2>4. CASE q = row
    <3>1. r.again = row.again
      BY <1>0, <2>3, <2>4
    <3>2. GoodRow(r)
      BY <2>3, <2>4, <3>1 DEF GoodRow
    <3>. QED
      BY <2>3, <2>4, <3>1, <3>2, SameAllowed DEF Keeps
  <2>5. CASE q # row
    <3>1. /\ r.locs # <<>> /\ r.phase = "CHOOSING_LOCATION" /\ r.user = row.user
          /\ r.again = TRUE
      BY <2>3, <2>5, NearbyFound
    <3>2. GoodRow(r)
      BY <3>1 DEF GoodRow
    <3>. QED
      BY <3>1, <3>2 DEF Keeps, Allowed
  <2>. QED
    BY <2>4, <2>5
<1>2. CASE ~(m.number <= 0) /\ (row.selected = <<>> \/ row.chosen = None)
  BY <1>2 DEF HandleMultipleOrders, Keeps
<1>3. CASE ~(m.number <= 0) /\ row.selected # <<>> /\ row.chosen # None
  <2> DEFINE n == Smaller(m.number, MaxAllowed(row.user)) - 1
             item == row.selected[1]
             more == row.selected \o Copies(item, n)
  <2>1. r = [row EXCEPT !.selected = more, !.phase = "CONFIRM_OR_REDO",
                        !.named = <<item, row.chosen>>]
    BY <1>3 DEF HandleMultipleOrders
  <2>2. row.user \in Users /\ row.selected \in Seq(Items) /\ item \in Items
    <3>1. row.user \in Users /\ row.selected \in Seq(Items)
      BY DEF PartialOrder
    <3>. QED
      BY <1>3, <3>1, ElementsIn, ElementOfSeq
  <2>3. m.number \in Int /\ m.number > 0
    BY <1>3, MessageNumber
  <2>4. n \in Int /\ n < MaxAllowed(row.user)
    BY <2>3, AllowedNumbers DEF Smaller
  <2>5. more # <<>>
    <3>1. Copies(item, n) \in Seq(Items)
      <4>1. 1..n = 1..(IF n > 0 THEN n ELSE 0) /\ (IF n > 0 THEN n ELSE 0) \in Nat
        BY <2>4
      <4>2. Copies(item, n) \in [1..(IF n > 0 THEN n ELSE 0) -> Items]
        BY <2>2, <4>1 DEF Copies
      <4> HIDE DEF n, item
      <4>. QED
        BY <4>1, <4>2
    <3>2. more \in Seq(Items) /\ Len(more) = Len(row.selected) + Len(Copies(item, n))
      BY <2>2, <3>1, ConcatProperties
    <3>3. Len(row.selected) > 0 /\ Len(row.selected) \in Nat /\ Len(Copies(item, n)) \in Nat
      BY <1>3, <2>2, <3>1, ElementsIn
    <3> HIDE DEF n, item, more
    <3>4. Len(more) # 0
      BY <3>2, <3>3
    <3>. QED
      BY <3>2, <3>4, EmptySeq
  <2>6. ~row.again => /\ Elements(more) = {item} /\ item \in Elements(MenuOf[row.chosen])
                      /\ Len(more) = 1 + (IF n > 0 THEN n ELSE 0)
    <3> SUFFICES ASSUME ~row.again
                 PROVE  /\ Elements(more) = {item} /\ item \in Elements(MenuOf[row.chosen])
                        /\ Len(more) = 1 + (IF n > 0 THEN n ELSE 0)
      OBVIOUS
    <3>1. Len(row.selected) = 1 /\ Elements(row.selected) \subseteq Elements(MenuOf[row.chosen])
      BY DEF GoodRow
    <3>2. Elements(row.selected) = {item}
      BY <2>2, <3>1, ElementsIn
    <3>3. row.selected[1] = item
      OBVIOUS
    <3> HIDE DEF n, item
    <3>4. Elements(more) = {item} /\ Len(more) = Len(row.selected) + (IF n > 0 THEN n ELSE 0)
      BY <1>3, <2>2, <2>4, <3>2, <3>3, MoreOfIt
    <3> HIDE DEF more
    <3>. QED
      BY <3>1, <3>2, <3>4
  <2> HIDE DEF n, item, more
  <2>7. /\ r.selected = more /\ r.phase = "CONFIRM_OR_REDO" /\ r.user = row.user
        /\ r.again = row.again /\ r.chosen = row.chosen /\ r.locs = row.locs
        /\ r.named = <<item, row.chosen>>
    BY <2>1 DEF PartialOrder
  <2>8. GoodRow(r)
    BY <2>5, <2>6, <2>7 DEF GoodRow, OneMeal
  <2>9. Allowed(r)
    <3>1. MealsToday(row.user) < MaxMealsPerDay[row.user]
      BY DEF Allowed
    <3>2. /\ MaxAllowed(row.user) = MaxMealsPerDay[row.user] - MealsToday(row.user)
          /\ MaxMealsPerDay[row.user] \in Nat /\ MealsToday(row.user) \in Nat
      BY AllowedNumbers
    <3>3. ~row.again => MealsToday(row.user) + Len(more) <= MaxMealsPerDay[row.user]
      <4> SUFFICES ASSUME ~row.again
                   PROVE  MealsToday(row.user) + Len(more) <= MaxMealsPerDay[row.user]
        OBVIOUS
      <4>1. Len(more) = 1 + (IF n > 0 THEN n ELSE 0)
        BY <2>6
      <4>2. n \in Int /\ n < MaxMealsPerDay[row.user] - MealsToday(row.user)
        BY <2>4, <3>2
      <4>. QED
        BY <3>1, <3>2, <4>1, <4>2
    <3>. QED
      BY <2>7, <3>1, <3>3 DEF Allowed
  <2>. QED
    BY <2>7, <2>8, <2>9 DEF Keeps
<1>. QED
  BY <1>1, <1>2, <1>3

\* Whatever the phase and the message.
LEMMA NextRowsKeep ==
    ASSUME NEW m \in Messages, NEW row \in PartialOrder, orders \in Seq(OrderRec),
           GoodRow(row), Allowed(row), NEW r \in NextRows(m, row)
    PROVE  Keeps(row, r)
<1>1. row.phase \in Phases
  BY DEF PartialOrder
<1>2. Keeps(row, row)
  BY DEF Keeps
<1>. QED
  BY <1>1, <1>2, RequestingMealKeeps, FindNearbyMealsKeeps, ChooseLocationKeeps,
     ChooseItemKeeps, HandleMultipleOrdersKeeps, RedoKeeps DEF NextRows, Phases

-----------------------------------------------------------------------------
(* The meals of the day.                                                   *)

\* An order of the day adds its items to its user's meals.
LEMMA MealsAppend ==
    ASSUME NEW s \in Seq(OrderRec), NEW o \in OrderRec, NEW u
    PROVE  Cardinality(MealSet(Append(s, o), u)) =
              Cardinality(MealSet(s, u)) + (IF o.user = u /\ o.today THEN Len(o.items) ELSE 0)
<1> DEFINE t == Append(s, o)
           n == Len(s) + 1
           more == {n} \X DOMAIN o.items
<1>1. /\ Len(s) \in Nat /\ DOMAIN s = 1..Len(s) /\ DOMAIN t = 1..n
      /\ t[n] = o /\ \A i \in 1..Len(s) : t[i] = s[i]
  BY LenProperties, AppendProperties
<1>2. IsFiniteSet(MealSet(s, u)) /\ Cardinality(MealSet(s, u)) \in Nat
  BY MealSetFinite, FS_CardinalityType
<1> HIDE DEF t
<1>3. Mine(t, u) = Mine(s, u) \cup (IF o.user = u /\ o.today THEN {n} ELSE {})
  <2>1. \A i : i \in 1..n <=> i \in 1..Len(s) \/ i = n
    BY <1>1
  <2>. QED
    BY <1>1, <2>1 DEF Mine
<1>4. \A i \in Mine(s, u) : t[i] = s[i] /\ i # n
  BY <1>1 DEF Mine
<1>5. CASE o.user = u /\ o.today
  <2>1. MealSet(t, u) = MealSet(s, u) \cup more
    <3>1. Mine(t, u) = Mine(s, u) \cup {n}
      BY <1>3, <1>5
    <3>. QED
      BY <1>1, <1>4, <3>1 DEF MealSet
  <2>2. o.items \in Seq(Items)
    BY DEF OrderRec
  <2>3. IsFiniteSet(more) /\ Cardinality(more) = Len(o.items)
    BY <2>2, ItemsCount
  <2>4. MealSet(s, u) \cap more = {}
    BY <1>4 DEF MealSet
  <2> HIDE DEF more
  <2>5. Cardinality(MealSet(s, u) \cup more) = Cardinality(MealSet(s, u)) + Cardinality(more)
    <3>1. Cardinality(MealSet(s, u) \cap more) = 0
      BY <2>4, FS_EmptySet
    <3>2. Cardinality(more) \in Nat
      BY <2>3, FS_CardinalityType
    <3>3. Cardinality(MealSet(s, u) \cup more) =
             Cardinality(MealSet(s, u)) + Cardinality(more) - Cardinality(MealSet(s, u) \cap more)
      BY <1>2, <2>3, FS_Union
    <3>. QED
      BY <1>2, <3>1, <3>2, <3>3
  <2>. QED
    BY <1>5, <2>1, <2>3, <2>5 DEF t
<1>6. CASE ~(o.user = u /\ o.today)
  <2>1. Mine(t, u) = Mine(s, u)
    BY <1>3, <1>6
  <2>2. MealSet(t, u) = MealSet(s, u)
    BY <1>4, <2>1 DEF MealSet
  <2>. QED
    BY <1>2, <1>6, <2>2 DEF t
<1>. QED
  BY <1>5, <1>6

\* At midnight nobody has ordered a meal.
LEMMA NoMeals ==
    ASSUME NEW s, NEW u, \A i \in DOMAIN s : ~s[i].today
    PROVE  Cardinality(MealSet(s, u)) = 0
<1>1. Mine(s, u) = {}
  BY DEF Mine
<1>2. MealSet(s, u) = {}
  BY <1>1 DEF MealSet
<1>. QED
  BY <1>2, FS_EmptySet

\* ... of the next state.
LEMMA MealsTodayNext == \A u : MealsToday(u)' = Cardinality(MealSet(orders', u))
BY DEF MealsToday, MealSet, Mine

-----------------------------------------------------------------------------
(* The steps.                                                              *)

\* A transaction begins: the row is good and within the allowance.
LEMMA BeginSound ==
    ASSUME OneHandler, TypeOK, Sound, NEW h \in Handlers, NEW t,
           UNCHANGED <<partials, orders>>, tx' = [tx EXCEPT ![h] = t],
           GoodRow(t.row), Allowed(t.row), Current(t)
    PROVE  Sound'
<1>1. \A g \in Handlers : tx'[g] = t
  BY DEF OneHandler, TypeOK
<1>2. Allowed(t.row)'
  BY DEF Allowed, MealsToday
<1>3. Current(t)'
  BY DEF Current, Rows
<1>4. TxGood'
  BY <1>1, <1>2, <1>3 DEF TxGood
<1>5. RowsGood'
  BY DEF Sound, RowsGood, Allowed, MealsToday
<1>6. OrdersGood' /\ OneDialogPerUser' /\ DailyAllowance'
  BY DEF Sound, OrdersGood, OneDialogPerUser, DailyAllowance, Rows, MealsToday
<1>. QED
  BY <1>4, <1>5, <1>6 DEF Sound

\* A first message: the new row has nothing in it.
LEMMA StartSound ==
    ASSUME OneHandler, TypeOK, Sound, NEW h \in Handlers, NEW u \in Users, NEW m \in Messages,
           StartDialog(h, u, m)
    PROVE  Sound'
<1> DEFINE new == NewPartial(u)
           row == RequestingMeal(m, new)
<1>1. orders \in Seq(OrderRec)
  BY DEF TypeOK, OrderRec
<1>2. new \in PartialOrder /\ new.phase = "MEAL" /\ new.user = u /\ new.selected = <<>>
  BY NewPartialType DEF NewPartial
<1>3. GoodRow(new)
  BY <1>2 DEF GoodRow
<1>4. Allowed(new)
  <2>1. MealsToday(u) \in Nat /\ MaxMealsPerDay[u] \in Nat /\ Len(new.selected) = 0
    BY <1>1, <1>2, MealsTodayType, DialogAssumption, EmptySeq
  <2>2. MealsToday(u) < MaxMealsPerDay[u]
    BY <2>1 DEF StartDialog, MaxDailyOrdersReached, MaxAllowed
  <2>. QED
    BY <1>2, <2>1, <2>2 DEF Allowed
<1> HIDE DEF new
<1>5. Keeps(new, row)
  BY <1>2, <1>3, <1>4, RequestingMealKeeps
<1> HIDE DEF row
<1>6. PICK t : t = [op |-> "insert", pid |-> lastPid', base |-> new, row |-> row]
  OBVIOUS
<1>7. t.op = "insert" /\ t.row = row
  BY <1>6
<1>8. Current(t)
  BY <1>2, <1>5, <1>7 DEF Current, Keeps, StartDialog
<1>9. tx' = [tx EXCEPT ![h] = t] /\ UNCHANGED <<partials, orders>>
  BY <1>6 DEF StartDialog, Begin, new, row
<1>. QED
  BY <1>5, <1>7, <1>8, <1>9, BeginSound DEF Keeps

\* A message of a dialog: the row it reads is good, and stays so.
LEMMA ContinueSound ==
    ASSUME OneHandler, TypeOK, Sound, NEW h \in Handlers, NEW u \in Users, NEW m \in Messages,
           ContinueDialog(h, u, m)
    PROVE  Sound'
<1>1. PICK p \in Rows(u) :
         \/ Begin(h, "delete", p, partials[p], partials[p])
         \/ /\ Begin(h, "order", p, partials[p], partials[p])
            /\ partials[p].phase = "CONFIRM_OR_REDO"
         \/ \E r \in NextRows(m, partials[p]) : Begin(h, "update", p, partials[p], r)
  BY DEF ContinueDialog
<1>2. PICK row : row = partials[p]
  OBVIOUS
<1>3. row \in PartialOrder /\ GoodRow(row) /\ Allowed(row)
  BY <1>2 DEF Rows, TypeOK, Sound, RowsGood
<1>4. orders \in Seq(OrderRec)
  BY DEF TypeOK, OrderRec
<1>5. PICK op, r : /\ Begin(h, op, p, row, r)
                   /\ op # "insert"
                   /\ Keeps(row, r)
                   /\ op = "order" => r = row /\ row.phase = "CONFIRM_OR_REDO"
  <2>1. Keeps(row, row)
    BY <1>3 DEF Keeps
  <2>2. \A r \in NextRows(m, row) : Keeps(row, r)
    BY <1>3, <1>4, NextRowsKeep
  <2>. QED
    BY <1>1, <1>2, <2>1, <2>2
<1>6. PICK t : t = [op |-> op, pid |-> p, base |-> row, row |-> r]
  OBVIOUS
<1>7. t.op = op /\ t.pid = p /\ t.base = row /\ t.row = r
  BY <1>6
<1>8. Current(t)
  BY <1>2, <1>5, <1>7 DEF Current, Keeps
<1>9. tx' = [tx EXCEPT ![h] = t] /\ UNCHANGED <<partials, orders>>
  BY <1>5, <1>6 DEF ContinueDialog, Begin
<1>. QED
  BY <1>5, <1>7, <1>8, <1>9, BeginSound DEF Keeps

\* What is written over the row that was read is what the handler made of it.
LEMMA WrittenIsRow ==
    ASSUME NEW base \in PartialOrder, NEW row \in PartialOrder, row.user = base.user,
           NEW address \in BOOLEAN
    PROVE  Written(base, base, row, address) = row
<1> DEFINE w == Written(base, base, row, address)
<1>1. w \in PartialOrder
  BY WrittenType
<1>2. w.user = row.user
  BY DEF Written, PartialOrder
<1>3. w.phase = row.phase /\ w.chosen = row.chosen
  BY DEF Written, PartialOrder
<1>4. w.locs = row.locs /\ w.menu = row.menu
  BY DEF Written, PartialOrder
<1>5. w.selected = row.selected /\ w.named = row.named /\ w.again = row.again
  BY DEF Written, PartialOrder
<1> HIDE DEF w
<1> DEFINE fields == {"user", "phase", "locs", "menu", "selected", "chosen", "named", "again"}
<1>6. w = [f \in fields |-> w[f]] /\ row = [f \in fields |-> row[f]]
  BY <1>1 DEF PartialOrder
<1>7. \A f \in fields : w[f] = row[f]
  BY <1>2, <1>3, <1>4, <1>5
<1> HIDE DEF fields
<1>8. w = row
  BY <1>6, <1>7
<1>. QED
  BY <1>8 DEF w

\* A row that is written or deleted; a user who gets one had no other.
LEMMA RowWritten ==
    ASSUME TypeOK, Sound, NEW q \in Pids, NEW row, UNCHANGED orders,
           partials' = [partials EXCEPT ![q] = row],
           row # None => /\ GoodRow(row) /\ Allowed(row)
                         /\ \A p \in Rows(row.user) : p = q,
           \A g \in Handlers : tx'[g] = None
    PROVE  Sound'
<1>1. \A p \in Pids : partials'[p] = IF p = q THEN row ELSE partials[p]
  BY DEF TypeOK
<1>2. \A r : Allowed(r)' <=> Allowed(r)
  BY DEF Allowed, MealsToday
<1>3. RowsGood'
  <2> SUFFICES ASSUME NEW p \in Pids, partials'[p] # None
               PROVE  GoodRow(partials'[p]) /\ Allowed(partials[p])'
    BY DEF RowsGood
  <2>1. PICK r : r = partials'[p]
    OBVIOUS
  <2>2. GoodRow(r) /\ Allowed(r)
    BY <1>1, <2>1 DEF Sound, RowsGood
  <2>3. Allowed(r)'
    BY <1>2, <2>2
  <2>. QED
    BY <2>1, <2>2, <2>3 DEF Allowed, MealsToday
<1>4. OneDialogPerUser'
  <2> SUFFICES ASSUME NEW u \in Users, NEW p \in Pids, NEW k \in Pids,
                      partials'[p] # None, partials'[p].user = u,
                      partials'[k] # None, partials'[k].user = u
               PROVE  p = k
    BY DEF OneDialogPerUser, Rows
  <2>1. CASE p # q /\ k # q
    BY <1>1, <2>1 DEF Sound, OneDialogPerUser, Rows
  <2>2. CASE p = q \/ k = q
    BY <1>1, <2>2 DEF Rows
  <2>. QED
    BY <2>1, <2>2
<1>5. TxGood' /\ OrdersGood' /\ DailyAllowance'
  BY DEF TxGood, Sound, OrdersGood, DailyAllowance, MealsToday
<1>. QED
  BY <1>3, <1>4, <1>5 DEF Sound

\* An order is placed and its dialog's row goes: other users' meals stay as they are.
LEMMA OrderPlaced ==
    ASSUME TypeOK, Sound, NEW q \in Pids, NEW row \in PartialOrder, partials[q] = row,
           partials[q] # None, row.phase = "CONFIRM_OR_REDO",
           partials' = [partials EXCEPT ![q] = None],
           orders' = Append(orders, PlacedOrder(q, row)),
           \A g \in Handlers : tx'[g] = None
    PROVE  Sound'
<1>1. PICK o : o = PlacedOrder(q, row)
  OBVIOUS
<1>2. /\ o \in OrderRec /\ o.user = row.user /\ o.today /\ o.items = row.selected
      /\ o.location = row.chosen /\ o.named = row.named /\ o.again = row.again
  BY <1>1 DEF PlacedOrder, OrderRec, PartialOrder
<1>3. orders \in Seq(OrderRec) /\ orders' = Append(orders, o)
  BY <1>1 DEF TypeOK, OrderRec
<1>4. /\ Len(orders) \in Nat /\ DOMAIN orders = 1..Len(orders)
      /\ DOMAIN orders' = 1..(Len(orders) + 1)
      /\ orders'[Len(orders) + 1] = o
      /\ \A i \in 1..Len(orders) : orders'[i] = orders[i]
  BY <1>2, <1>3, LenProperties, AppendProperties
<1>5. row.user \in Users /\ row.locs \in Seq(Locations) /\ row.again \in BOOLEAN
  BY DEF PartialOrder
<1>6. GoodRow(row) /\ Allowed(row)
  BY DEF Sound, RowsGood
<1>7. \A u \in Users :
         MealsToday(u)' = MealsToday(u) + (IF u = row.user THEN Len(row.selected) ELSE 0)
  BY <1>2, <1>3, MealsAppend, MealsTodayIs, MealsTodayNext
<1>8. \A u \in Users : SentBack(u)' <=> SentBack(u) \/ (u = row.user /\ row.again)
  BY <1>2, <1>4 DEF SentBack
<1>9. \A u \in Users : MealsToday(u) \in Nat
  BY <1>3, MealsTodayType
<1>10. RowsGood'
  <2> SUFFICES ASSUME NEW p \in Pids, partials'[p] # None
               PROVE  GoodRow(partials'[p]) /\ Allowed(partials[p])'
    BY DEF RowsGood
  <2>1. PICK r : r = partials'[p]
    OBVIOUS
  <2>2. p # q /\ r = partials[p] /\ r \in PartialOrder
    BY <2>1 DEF TypeOK
  <2>3. GoodRow(r) /\ Allowed(r)
    BY <2>1, <2>2 DEF Sound, RowsGood
  <2>4. r.user \in Users /\ r.user # row.user
    BY <2>1, <2>2 DEF Sound, OneDialogPerUser, Rows, PartialOrder
  <2>5. MealsToday(r.user)' = MealsToday(r.user) /\ (SentBack(r.user)' <=> SentBack(r.user))
    BY <1>7, <1>8, <1>9, <2>4
  <2>6. Allowed(r)'
    BY <2>3, <2>5 DEF Allowed
  <2>. QED
    BY <2>1, <2>3, <2>6 DEF Allowed, MealsToday
<1>11. OneDialogPerUser'
  <2>1. \A u \in Users : Rows(u)' \subseteq Rows(u)
    BY DEF Rows, TypeOK
  <2>. QED
    BY <2>1 DEF Sound, OneDialogPerUser
<1>12. OrdersGood'
  <2>1. GoodOrder(o)
    <3>1. row.chosen # None
      <4>1. row.chosen \in Elements(row.locs)
        BY <1>6 DEF GoodRow
      <4>2. Elements(row.locs) \subseteq Locations
        BY <1>5, LenProperties, ElementOfSeq DEF Elements
      <4>. QED
        BY <4>1, <4>2, DialogAssumption
    <3>. QED
      BY <1>2, <1>6, <3>1 DEF GoodRow, GoodOrder
  <2>2. \A i \in 1..Len(orders) : GoodOrder(orders[i])
    BY <1>4 DEF Sound, OrdersGood
  <2>3. \A i \in 1..(Len(orders) + 1) : i \in 1..Len(orders) \/ i = Len(orders) + 1
    BY <1>4
  <2>. QED
    BY <1>4, <2>1, <2>2, <2>3 DEF OrdersGood
<1>13. DailyAllowance'
  <2> SUFFICES ASSUME NEW u \in Users
               PROVE  MealsToday(u)' <= MaxMealsPerDay[u] \/ SentBack(u)'
    BY DEF DailyAllowance, SentBack
  <2>1. CASE u # row.user
    <3>1. MealsToday(u) <= MaxMealsPerDay[u] \/ SentBack(u)
      BY DEF Sound, DailyAllowance, SentBack
    <3>. QED
      BY <1>7, <1>8, <1>9, <2>1, <3>1
  <2>2. CASE u = row.user
    <3>1. row.again \/ MealsToday(u) + Len(row.selected) <= MaxMealsPerDay[u]
      BY <1>6, <2>2 DEF Allowed
    <3>. QED
      BY <1>7, <1>8, <2>2, <3>1
  <2>. QED
    BY <2>1, <2>2
<1>14. TxGood'
  BY DEF TxGood
<1>. QED
  BY <1>10, <1>11, <1>12, <1>13, <1>14 DEF Sound

\* A transaction commits: the row is still as it was read.
LEMMA CommitSound ==
    ASSUME OneHandler, TypeOK, Sound, NEW h \in Handlers, Commit(h)
    PROVE  Sound'
<1>1. PICK t : t = tx[h]
  OBVIOUS
<1>2. t # None /\ Transaction(t) /\ GoodRow(t.row) /\ Allowed(t.row) /\ Current(t)
  BY <1>1 DEF Commit, TypeOK, Transaction, Sound, TxGood
<1>3. \A g \in Handlers : tx'[g] = None
  BY DEF Commit, OneHandler, TypeOK
<1>4. CASE ~TakesEffect(t)
  <2>1. UNCHANGED <<partials, orders>>
    BY <1>1, <1>4 DEF Commit
  <2>2. RowsGood' /\ OneDialogPerUser'
    BY <2>1 DEF Sound, RowsGood, Allowed, MealsToday, OneDialogPerUser, Rows
  <2>. QED
    BY <1>3, <2>1, <2>2 DEF TxGood, Sound, OrdersGood, DailyAllowance, MealsToday
<1>5. CASE TakesEffect(t) /\ t.op = "insert"
  <2>1. partials' = [partials EXCEPT ![t.pid] = t.row] /\ UNCHANGED orders
    BY <1>1, <1>5 DEF Commit
  <2>2. Rows(t.row.user) = {}
    BY <1>2, <1>5 DEF Current
  <2>. QED
    BY <1>2, <1>3, <2>1, <2>2, RowWritten DEF Transaction
<1>6. CASE TakesEffect(t) /\ t.op # "insert"
  <2>1. /\ partials[t.pid] = t.base /\ partials[t.pid] # None /\ t.row.user = t.base.user
        /\ t.pid \in Pids /\ t.base \in PartialOrder /\ t.row \in PartialOrder
    BY <1>2, <1>6 DEF Current, TakesEffect, Transaction
  <2>2. \A p \in Rows(t.row.user) : p = t.pid
    BY <2>1 DEF Sound, OneDialogPerUser, Rows, PartialOrder
  <2>3. CASE t.op = "update"
    <3>1. \A address \in BOOLEAN : Written(partials[t.pid], t.base, t.row, address) = t.row
      BY <2>1, WrittenIsRow
    <3>2. partials' = [partials EXCEPT ![t.pid] = t.row] /\ UNCHANGED orders
      BY <1>1, <1>6, <2>3, <3>1 DEF Commit, AddressChanges
    <3>. QED
      BY <1>2, <1>3, <2>1, <2>2, <3>2, RowWritten
  <2>4. CASE t.op = "delete"
    <3>1. partials' = [partials EXCEPT ![t.pid] = None] /\ UNCHANGED orders
      BY <1>1, <1>6, <2>4 DEF Commit
    <3>. QED
      BY <1>3, <2>1, <3>1, RowWritten
  <2>5. CASE t.op = "order"
    <3>1. /\ partials' = [partials EXCEPT ![t.pid] = None]
          /\ orders' = Append(orders, PlacedOrder(t.pid, t.row))
      BY <1>1, <1>6, <2>5 DEF Commit
    <3>2. t.row = t.base /\ t.row.phase = "CONFIRM_OR_REDO"
      BY <1>2, <2>5 DEF Current
    <3>. QED
      BY <1>3, <2>1, <3>1, <3>2, OrderPlaced
  <2>. QED
    BY <1>2, <1>6, <2>3, <2>4, <2>5 DEF Transaction
<1>. QED
  BY <1>4, <1>5, <1>6

\* Midnight takes meals off.
LEMMA MidnightSound ==
    ASSUME TypeOK, Sound, Midnight
    PROVE  Sound'
<1>1. orders \in Seq(OrderRec)
  BY DEF TypeOK, OrderRec
<1>2. \A i \in DOMAIN orders : orders[i] \in OrderRec
  BY <1>1, LenProperties, ElementOfSeq
<1>3. /\ DOMAIN orders' = DOMAIN orders /\ UNCHANGED <<partials, tx>>
      /\ \A i \in DOMAIN orders : orders'[i] = [orders[i] EXCEPT !.today = FALSE]
  BY DEF Midnight
<1>4. \A i \in DOMAIN orders :
        /\ ~orders'[i].today /\ orders'[i].user = orders[i].user
        /\ orders'[i].again = orders[i].again /\ orders'[i].items = orders[i].items
        /\ orders'[i].location = orders[i].location /\ orders'[i].named = orders[i].named
  BY <1>2, <1>3 DEF OrderRec
<1>5. \A u : MealsToday(u)' = 0
  BY <1>3, <1>4, NoMeals, MealsTodayNext
<1>7. \A u \in Users : MealsToday(u) \in Nat /\ MaxMealsPerDay[u] \in Nat
  BY <1>1, MealsTodayType, DialogAssumption
<1>8. ASSUME NEW r \in PartialOrder, Allowed(r) PROVE Allowed(r)'
  <2>1. r.user \in Users /\ Len(r.selected) \in Nat
    BY LenProperties DEF PartialOrder
  <2>2. /\ 0 < MaxMealsPerDay[r.user]
        /\ ~r.again => 0 + Len(r.selected) <= MaxMealsPerDay[r.user]
    BY <1>7, <1>8, <2>1 DEF Allowed
  <2>3. MealsToday(r.user)' = 0
    BY <1>5
  <2>. QED
    BY <2>2, <2>3 DEF Allowed
<1>9. RowsGood'
  <2> SUFFICES ASSUME NEW p \in Pids, partials[p] # None
               PROVE  GoodRow(partials[p]) /\ Allowed(partials[p])'
    BY <1>3 DEF RowsGood
  <2>1. PICK r : r = partials[p]
    OBVIOUS
  <2>2. r \in PartialOrder /\ GoodRow(r) /\ Allowed(r)'
    BY <1>8, <2>1 DEF TypeOK, Sound, RowsGood
  <2>. QED
    BY <1>3, <2>1, <2>2 DEF Allowed, MealsToday
<1>10. TxGood'
  <2> SUFFICES ASSUME NEW h \in Handlers, tx[h] # None
               PROVE  GoodRow(tx[h].row) /\ Allowed(tx[h].row)' /\ Current(tx[h])'
    BY <1>3 DEF TxGood
  <2>1. PICK t : t = tx[h]
    OBVIOUS
  <2>2. t.row \in PartialOrder /\ GoodRow(t.row) /\ Allowed(t.row)' /\ Current(t)
    BY <1>8, <2>1 DEF TypeOK, Sound, TxGood
  <2>3. Current(t)'
    BY <1>3, <2>2 DEF Current, Rows
  <2>. QED
    BY <1>3, <2>1, <2>2, <2>3 DEF Allowed, MealsToday, Current, Rows
<1>11. OrdersGood'
  BY <1>3, <1>4 DEF Sound, OrdersGood, GoodOrder
<1>12. OneDialogPerUser'
  BY <1>3 DEF Sound, OneDialogPerUser, Rows
<1>13. DailyAllowance'
  BY <1>5, <1>7 DEF DailyAllowance
<1>. QED
  BY <1>9, <1>10, <1>11, <1>12, <1>13 DEF Sound

\* Every step of one handler.
LEMMA SoundStep ==
    ASSUME OneHandler, TypeOK, Sound, [Next]_vars
    PROVE  Sound'
<1>1. CASE UNCHANGED <<partials, orders, tx>>
  <2>1. RowsGood' /\ OneDialogPerUser'
    BY <1>1 DEF Sound, RowsGood, Allowed, MealsToday, OneDialogPerUser, Rows
  <2>2. TxGood'
    BY <1>1 DEF Sound, TxGood, Allowed, MealsToday, Current, Rows
  <2>. QED
    BY <1>1, <2>1, <2>2 DEF Sound, OrdersGood, DailyAllowance, MealsToday
<1>. QED
  BY <1>1, StartSound, ContinueSound, CommitSound, MidnightSound DEF Next, ToggleCurrent, vars

\* In the beginning there is nothing.
LEMMA SoundInit == Init => Sound
<1> SUFFICES ASSUME Init PROVE Sound
  OBVIOUS
<1>1. DOMAIN orders = {} /\ \A p \in Pids : partials[p] = None
  BY DEF Init
<1>2. \A u \in Users : MealsToday(u) = 0
  BY <1>1, NoMeals, MealsTodayIs
<1>3. DailyAllowance
  BY <1>2, DialogAssumption DEF DailyAllowance
<1>. QED
  BY <1>1, <1>3 DEF Init, Sound, RowsGood, TxGood, OrdersGood, OneDialogPerUser, Rows

\* The invariant.
LEMMA SoundInvariant ==
    ASSUME OneHandler
    PROVE  Spec => []Sound
<1>1. TypeOK /\ Sound /\ [Next]_vars => Sound'
  BY SoundStep
<1>. QED
  BY <1>1, SoundInit, TypeCorrect, PTL DEF Spec

-----------------------------------------------------------------------------
(* What it says of the dialogs and the orders.                             *)

\* Each phase's handler finds what it takes from the row without looking: locations to
\* choose from, the chosen one, its menu, an item (processMessage).
THEOREM PhasesHaveTheirData ==
    ASSUME OneHandler
    PROVE  Spec => []PhaseHasItsData
<1>1. TypeOK /\ Sound => PhaseHasItsData
  <2> SUFFICES ASSUME TypeOK, Sound, NEW p \in Pids, partials[p] # None
               PROVE  LET row == partials[p] IN
                      /\ row.phase = "CHOOSING_LOCATION" => row.locs # <<>>
                      /\ row.phase \in {"CHOOSING_MENU_ITEM", "MULTIPLE_ORDER",
                                       "CONFIRM_OR_REDO"} =>
                            row.chosen \in Elements(row.locs)
                      /\ row.phase \in {"MULTIPLE_ORDER", "CONFIRM_OR_REDO"} =>
                            row.selected # <<>> /\ row.chosen # None
                      /\ row.phase = "CHOOSING_MENU_ITEM" =>
                            Elements(row.menu) \subseteq Elements(MenuOf[row.chosen])
    BY DEF PhaseHasItsData
  <2> DEFINE row == partials[p]
  <2>1. row \in PartialOrder /\ GoodRow(row)
    BY DEF TypeOK, Sound, RowsGood
  <2>2. Elements(row.locs) \subseteq Locations
    <3>1. row.locs \in Seq(Locations)
      BY <2>1 DEF PartialOrder
    <3>. QED
      BY <3>1, LenProperties, ElementOfSeq DEF Elements
  <2>. QED
    BY <2>1, <2>2, DialogAssumption DEF GoodRow
<1>. QED
  BY <1>1, TypeCorrect, SoundInvariant, PTL

\* What CONFIRM places names a provider and has at least one item (confirmOrContinueOrder).
THEOREM CompleteOrders ==
    ASSUME OneHandler
    PROVE  Spec => []OrdersAreComplete
<1>1. Sound => OrdersAreComplete
  BY DEF Sound, OrdersGood, GoodOrder, OrdersAreComplete
<1>. QED
  BY <1>1, SoundInvariant, PTL

\* byUser finds the user's one dialog (processMessage).
THEOREM OneDialog ==
    ASSUME OneHandler
    PROVE  Spec => []OneDialogPerUser
<1>1. Sound => OneDialogPerUser
  BY DEF Sound
<1>. QED
  BY <1>1, SoundInvariant, PTL

\* What CONFIRM places is the one meal, at the provider, that the text asking for it
\* named, for every user who was not sent back by answering "how many" with less than
\* one (confirmOrContinueOrder, handleMultipleOrders).
THEOREM ConfirmedOrders ==
    ASSUME OneHandler
    PROVE  Spec => []OrderIsAsConfirmed
<1>1. Sound => OrderIsAsConfirmed
  BY DEF Sound, OrdersGood, GoodOrder, OneMeal, OrderIsAsConfirmed
<1>. QED
  BY <1>1, SoundInvariant, PTL

\* The day's orders of a user stay within the allowance, if none of them was placed
\* after the user was sent back (OrderServiceHandler.maxAllowedOrderForTheDay).
THEOREM WithinAllowance ==
    ASSUME OneHandler
    PROVE  Spec => []DailyAllowance
<1>1. Sound => DailyAllowance
  BY DEF Sound
<1>. QED
  BY <1>1, SoundInvariant, PTL
=============================================================================
