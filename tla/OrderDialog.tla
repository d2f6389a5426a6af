----------------------------- MODULE OrderDialog -----------------------------
(***************************************************************************)
(* Ordering a meal by text message: DefaultOrderProcessor of hni-order with *)
(* the daily allowance of OrderServiceHandler.  The state of a dialog is a  *)
(* row of partial_orders; each message is handled in one transaction, which *)
(* reads the row when it begins and writes what it changed when it commits. *)
(* Handlers are the threads that serve messages; with more than one, two    *)
(* messages of a user can be in progress at the same time.                  *)
(*                                                                         *)
(* Replies are left out, except where building one raises an exception.    *)
(* The address of a dialog only feeds the geocoder, whose answer is an     *)
(* arbitrary choice, so it is left out too, save that changing it writes   *)
(* the row (Written).  A row's lists are stored whole, as in h2-schema.sql;  *)
(* the join tables of hsql/schema.sql have the dialog's id as their key and *)
(* would reject a second location, or a second item, on offer.             *)
(***************************************************************************)
EXTENDS Integers, Sequences, FiniteSets

CONSTANTS
    Users, Handlers, Locations, Items,
    MenuOf,         \* active items on the menu of a location, in its order
    MaxMealsPerDay, \* Client.maxMealsAllowedPerDay
    MaxChoices,     \* items offered in one message: 5
    MaxNearby,      \* locations offered in one message: 3
    Numbers,        \* the numbers users reply with
    None,
    MaxPartials,    \* bound: dialogs in a behaviour
    MaxOrders,      \* bound: orders in a behaviour
    MaxSelected     \* bound: items selected in a dialog

\* A message is a keyword, a number or some other text.  Where a number is
\* expected, each handler treats what parseInt rejects exactly as it treats 0.
Messages ==
    [word: {"ENDMEAL", "STATUS", "MEAL", "CONFIRM", "REDO", "TEXT"}, number: {0}]
        \cup [word: {"TEXT"}, number: Numbers]

ASSUME DialogAssumption ==
    /\ MenuOf \in [Locations -> Seq(Items)]
    /\ MaxMealsPerDay \in [Users -> Nat]
    /\ MaxChoices \in Nat \ {0}
    /\ MaxNearby \in Nat \ {0}
    /\ Numbers \subseteq Int
    /\ None \notin Locations
    /\ MaxPartials \in Nat
    /\ MaxOrders \in Nat
    /\ MaxSelected \in Nat

VARIABLES
    partials,   \* rows of partial_orders by id; None: no such row
    lastPid,    \* the last id given out by the table's AUTO_INCREMENT
    orders,     \* the orders placed; dialog is a ghost: the row it came from
    current,    \* is the menu of a location current, and the location active
    tx          \* what the transaction of a handler has read and will write

vars == <<partials, lastPid, orders, current, tx>>

Phases == {"MEAL", "PROVIDING_ADDRESS", "CHOOSING_LOCATION",
           "CHOOSING_MENU_ITEM", "MULTIPLE_ORDER", "CONFIRM_OR_REDO"}

\* What a REPLY_CONFIRM_ORDER names: a meal and a provider.
Named == (Items \X Locations) \cup {None}

\* Two ghosts.  named: what the last REPLY_CONFIRM_ORDER named.  again: the user was
\* sent back to choose a location by answering "how many" with less than one.
PartialOrder ==
    [user: Users, phase: Phases, locs: Seq(Locations), menu: Seq(Items),
     selected: Seq(Items), chosen: Locations \cup {None}, named: Named, again: BOOLEAN]

Pids == 1..MaxPartials
Rows(u) == {p \in Pids : partials[p] # None /\ partials[p].user = u}

Elements(s) == {s[i] : i \in DOMAIN s}
Smaller(m, n) == IF m < n THEN m ELSE n

TypeOK ==
    /\ DOMAIN partials = Pids
    /\ \A p \in Pids : partials[p] = None \/ partials[p] \in PartialOrder
    /\ lastPid \in 0..MaxPartials
    /\ orders \in Seq([user: Users, location: Locations \cup {None},
                       items: Seq(Items), today: BOOLEAN, dialog: Pids, named: Named,
                       again: BOOLEAN])
    /\ current \in [Locations -> BOOLEAN]
    /\ DOMAIN tx = Handlers
    /\ \A h \in Handlers : tx[h] # None =>
         /\ tx[h].op \in {"insert", "update", "delete", "order"}
         /\ tx[h].pid \in Pids
         /\ tx[h].base \in PartialOrder
         /\ tx[h].row \in PartialOrder

Init ==
    /\ partials = [p \in Pids |-> None]
    /\ lastPid = 0
    /\ orders = <<>>
    /\ current = [l \in Locations |-> TRUE]
    /\ tx = [h \in Handlers |-> None]

-----------------------------------------------------------------------------
(* OrderServiceHandler: every order of the day counts, whatever its status. *)

MealsToday(u) ==
    LET mine == {i \in DOMAIN orders : orders[i].user = u /\ orders[i].today}
    IN  Cardinality(UNION {{i} \X DOMAIN orders[i].items : i \in mine})

\* Mutant: the meals of today are not taken off.
MaxAllowedEachTime(u) == MaxMealsPerDay[u]

MaxAllowed(u) ==
    IF MaxMealsPerDay[u] > MealsToday(u) THEN MaxMealsPerDay[u] - MealsToday(u) ELSE -1

MaxDailyOrdersReached(u) == ~(MaxAllowed(u) > 0)

-----------------------------------------------------------------------------
(* What the handler of each phase makes of a message: the row it saves, as a *)
(* set where the answer of another service decides.  An exception that rolls *)
(* the transaction back leaves the row as it was.                            *)

NewPartial(u) ==
    [user |-> u, phase |-> "MEAL", locs |-> <<>>, menu |-> <<>>,
     selected |-> <<>>, chosen |-> None, named |-> None, again |-> FALSE]

RequestingMeal(m, row) ==
    IF m.word = "MEAL" THEN [row EXCEPT !.phase = "PROVIDING_ADDRESS"] ELSE row

\* Lists of nearby locations with a current menu that the geocoder can lead to.
NearbyWithMenu ==
    UNION {{s \in [1..n -> {l \in Locations : current[l]}] :
              \A i, j \in 1..n : s[i] = s[j] => i = j} : n \in 1..MaxNearby}

\* No address, no provider or no open provider: the phase does not change.
FindNearbyMeals(row) ==
    {row} \cup {[row EXCEPT !.locs = s, !.phase = "CHOOSING_LOCATION"] : s \in NearbyWithMenu}

\* Mutant: the number of the choice is stored.
ChooseNumber(m, row) ==
    IF m.number \notin DOMAIN row.locs THEN row
    ELSE [row EXCEPT !.menu = SubSeq(MenuOf[row.locs[m.number]], 1, 1),
                     !.chosen = m.number,
                     !.phase = "CHOOSING_MENU_ITEM"]

\* Mutant: the chosen provider is not stored.
ChooseMenuOnly(m, row) ==
    IF m.number \notin DOMAIN row.locs THEN row
    ELSE [row EXCEPT !.menu = SubSeq(MenuOf[row.locs[m.number]], 1, 1),
                     !.phase = "CHOOSING_MENU_ITEM"]

\* A location whose menu is not current any more gives an empty choice; building
\* the reply then fails, but the row is saved.
ChooseLocation(m, row) ==
    IF m.number \notin DOMAIN row.locs THEN row
    ELSE LET l == row.locs[m.number]
             n == Smaller(Len(MenuOf[l]), MaxChoices)
         IN  [row EXCEPT !.menu = IF current[l] THEN SubSeq(MenuOf[l], 1, n) ELSE <<>>,
                         !.chosen = l,
                         !.phase = "CHOOSING_MENU_ITEM"]

\* The text that asks to CONFIRM names the item and the chosen provider.
ChooseItem(m, row) ==
    LET multiple == MaxAllowed(row.user) > 1
        item == row.menu[m.number]
    IN
    IF \/ m.number \notin 1..Smaller(MaxChoices, Len(row.menu))
       \/ ~multiple /\ row.chosen = None
    THEN row
    ELSE [row EXCEPT !.selected = Append(@, item),
                     !.phase = IF multiple THEN "MULTIPLE_ORDER" ELSE "CONFIRM_OR_REDO",
                     !.named = IF multiple THEN @ ELSE <<item, row.chosen>>]

Copies(item, n) == [i \in 1..n |-> item]

\* A reply less than one sends the user back to choose a location; what was
\* selected stays selected.  Otherwise the text names the first selected item.
HandleMultipleOrders(m, row) ==
    IF m.number <= 0
    THEN {[r EXCEPT !.again = r.again \/ r.phase = "CHOOSING_LOCATION"] :
            r \in FindNearbyMeals(row)}
    ELSE IF row.selected = <<>> \/ row.chosen = None THEN {row}
    ELSE LET num == Smaller(m.number, MaxAllowed(row.user))
         IN  {[row EXCEPT !.selected = @ \o Copies(@[1], num - 1),
                          !.phase = "CONFIRM_OR_REDO",
                          !.named = <<row.selected[1], row.chosen>>]}

\* Mutant: the selected items stay.
RedoKeepsSelected(row) ==
    [row EXCEPT !.chosen = None, !.phase = "CHOOSING_LOCATION", !.named = None,
                !.again = FALSE]

\* Mutant: the phase stays.
RedoKeepsPhase(row) ==
    [row EXCEPT !.selected = <<>>, !.chosen = None, !.named = None, !.again = FALSE]

Redo(row) ==
    [row EXCEPT !.selected = <<>>, !.chosen = None, !.phase = "CHOOSING_LOCATION",
                !.named = None, !.again = FALSE]

NextRows(m, row) ==
    CASE row.phase = "MEAL"               -> {RequestingMeal(m, row)}
      [] row.phase = "PROVIDING_ADDRESS"  -> FindNearbyMeals(row)
      [] row.phase = "CHOOSING_LOCATION"  -> {ChooseLocation(m, row)}
      [] row.phase = "CHOOSING_MENU_ITEM" -> {ChooseItem(m, row)}
      [] row.phase = "MULTIPLE_ORDER"     -> HandleMultipleOrders(m, row)
      [] row.phase = "CONFIRM_OR_REDO"    ->
            {IF m.word = "REDO" /\ row.locs # <<>> THEN Redo(row) ELSE row}

-----------------------------------------------------------------------------
(* Transactions.                                                           *)

Begin(h, op, p, base, row) ==
    tx' = [tx EXCEPT ![h] = [op |-> op, pid |-> p, base |-> base, row |-> row]]

\* Mutant: the row of an earlier message is not looked for.
StartAnother(h, u, m) ==
    /\ tx[h] = None
    /\ m.word \notin {"ENDMEAL", "STATUS"}
    /\ ~MaxDailyOrdersReached(u)
    /\ lastPid < MaxPartials
    /\ lastPid' = lastPid + 1
    /\ Begin(h, "insert", lastPid', NewPartial(u), RequestingMeal(m, NewPartial(u)))
    /\ UNCHANGED <<partials, orders, current>>

\* processMessage without a dialog: STATUS and ENDMEAL only answer.
StartDialog(h, u, m) ==
    /\ tx[h] = None
    /\ Rows(u) = {}
    /\ m.word \notin {"ENDMEAL", "STATUS"}
    /\ ~MaxDailyOrdersReached(u)
    /\ lastPid < MaxPartials
    /\ lastPid' = lastPid + 1
    /\ Begin(h, "insert", lastPid', NewPartial(u), RequestingMeal(m, NewPartial(u)))
    /\ UNCHANGED <<partials, orders, current>>

\* processMessage within a dialog; byUser takes the first row it is given.
ContinueDialog(h, u, m) ==
    /\ tx[h] = None
    /\ \E p \in Rows(u) :
         LET row == partials[p] IN
         IF m.word = "ENDMEAL" THEN Begin(h, "delete", p, row, row)
         ELSE IF row.phase = "CONFIRM_OR_REDO" /\ m.word = "CONFIRM"
         THEN /\ Len(orders) < MaxOrders
              /\ Begin(h, "order", p, row, row)
         ELSE \E r \in NextRows(m, row) :
                /\ Len(r.selected) <= MaxSelected
                /\ Begin(h, "update", p, row, r)
    /\ UNCHANGED <<partials, lastPid, orders, current>>

\* Only an address text changes the address; a later phase sets the same one again.
AddressChanges(base) == IF base.phase = "PROVIDING_ADDRESS" THEN BOOLEAN ELSE {FALSE}

\* A transaction writes the collections it changed, and all of the other columns
\* if it changed any of them (address: it changed that one), over what is there.
Written(now, base, row, address) ==
    LET columns == address \/ <<row.phase, row.chosen>> # <<base.phase, base.chosen>> IN
    [now EXCEPT
        !.phase    = IF columns THEN row.phase ELSE @,
        !.chosen   = IF columns THEN row.chosen ELSE @,
        !.locs     = IF row.locs # base.locs THEN row.locs ELSE @,
        !.menu     = IF row.menu # base.menu THEN row.menu ELSE @,
        !.selected = IF row.selected # base.selected THEN row.selected ELSE @,
        !.named    = IF row.named # base.named THEN row.named ELSE @,
        !.again    = IF row.again # base.again THEN row.again ELSE @]

PlacedOrder(p, row) ==
    [user |-> row.user, location |-> row.chosen, items |-> row.selected,
     today |-> TRUE, dialog |-> p, named |-> row.named, again |-> row.again]

\* Mutant: the order of a CONFIRM is saved in a transaction of its own.
TakesEffectApart(t) == t.op \in {"insert", "order"} \/ partials[t.pid] # None

\* A new row, and a row that is written or deleted if it is still there; when it
\* has gone Hibernate rolls back, the order of a CONFIRM included.
TakesEffect(t) == t.op = "insert" \/ partials[t.pid] # None

Commit(h) ==
    /\ tx[h] # None
    /\ \E address \in AddressChanges(tx[h].base) :
       LET t == tx[h]
           row == CASE t.op = "insert" -> t.row
                    [] t.op = "update" -> Written(partials[t.pid], t.base, t.row, address)
                    [] OTHER           -> None
       IN
       /\ partials' = IF TakesEffect(t) THEN [partials EXCEPT ![t.pid] = row] ELSE partials
       /\ orders' = IF TakesEffect(t) /\ t.op = "order"
                    THEN Append(orders, PlacedOrder(t.pid, t.row)) ELSE orders
    /\ tx' = [tx EXCEPT ![h] = None]
    /\ UNCHANGED <<lastPid, current>>

-----------------------------------------------------------------------------
(* The rest of the system, and the clock.                                  *)

\* The hours of a menu begin or end, or a location is (de)activated.
ToggleCurrent(l) ==
    /\ current' = [current EXCEPT ![l] = ~@]
    /\ UNCHANGED <<partials, lastPid, orders, tx>>

\* Midnight: orders of the day before do not count any more.
Midnight ==
    /\ \E i \in DOMAIN orders : orders[i].today
    /\ orders' = [i \in DOMAIN orders |-> [orders[i] EXCEPT !.today = FALSE]]
    /\ UNCHANGED <<partials, lastPid, current, tx>>

Next ==
    \/ \E h \in Handlers :
         \/ Commit(h)
         \/ \E u \in Users, m \in Messages :
              StartDialog(h, u, m) \/ ContinueDialog(h, u, m)
    \/ \E l \in Locations : ToggleCurrent(l)
    \/ Midnight

Spec == Init /\ [][Next]_vars

-----------------------------------------------------------------------------
(* Properties.                                                             *)

\* Each phase finds in the row what its handler takes from it without looking:
\* a list to choose from, the chosen provider, a first selected item.
PhaseHasItsData ==
    \A p \in Pids : partials[p] # None =>
        LET row == partials[p] IN
        /\ row.phase = "CHOOSING_LOCATION" => row.locs # <<>>
        /\ row.phase \in {"CHOOSING_MENU_ITEM", "MULTIPLE_ORDER", "CONFIRM_OR_REDO"} =>
              row.chosen \in Elements(row.locs)
        /\ row.phase \in {"MULTIPLE_ORDER", "CONFIRM_OR_REDO"} =>
              row.selected # <<>> /\ row.chosen # None
        /\ row.phase = "CHOOSING_MENU_ITEM" =>
              Elements(row.menu) \subseteq Elements(MenuOf[row.chosen])

\* An order that was placed names a provider and has items.
OrdersAreComplete ==
    \A i \in DOMAIN orders : orders[i].location # None /\ orders[i].items # <<>>

\* A dialog places at most one order, however often CONFIRM is sent.
OneOrderPerDialog ==
    \A i, j \in DOMAIN orders : orders[i].dialog = orders[j].dialog => i = j

\* REPLY_CONFIRM_ORDER names a meal at a provider; that meal, of that provider's menu,
\* is what is ordered there, unless the user was sent back by answering "how many"
\* with less than one.
OrderIsAsConfirmed ==
    \A i \in DOMAIN orders : ~orders[i].again =>
        \A x \in Elements(orders[i].items) :
            /\ orders[i].named = <<x, orders[i].location>>
            /\ x \in Elements(MenuOf[orders[i].location])

\* "You can order up to %d meals": the day's orders stay within the allowance,
\* unless one of them is of a user who was sent back as above.
DailyAllowance ==
    \A u \in Users :
        \/ MealsToday(u) <= MaxMealsPerDay[u]
        \/ \E i \in DOMAIN orders : orders[i].user = u /\ orders[i].today /\ orders[i].again

\* "clear out previous choices": an order has only items of its provider's menu.
PreviousChoicesCleared ==
    \A i \in DOMAIN orders :
        Elements(orders[i].items) \subseteq Elements(MenuOf[orders[i].location])

\* A user has one dialog at a time: byUser finds the one the user is in.
OneDialogPerUser == \A u \in Users : \A p, q \in Rows(u) : p = q
=============================================================================
