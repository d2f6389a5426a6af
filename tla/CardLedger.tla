------------------------------ MODULE CardLedger ------------------------------
(***************************************************************************)
(* What paying with gift cards promises, without locks, copies of rows and *)
(* transactions: an account book.  A card is put down for one order at a   *)
(* time, and each amount put down is either taken from the card, once and  *)
(* in full, or withdrawn before the order is closed.                       *)
(* CardPayments implements this while volunteers work on different orders. *)
(***************************************************************************)
EXTENDS Integers

CONSTANTS Orders, Cards, Balance0

VARIABLES
    balance,    \* of a card
    due,        \* what a card was put down for, for an order; 0: not at all
    paid,       \* what was taken from a card for an order
    fate        \* of an order: "OPEN", "ORDERED" or "CANCELLED"

LedgerInit ==
    /\ balance = Balance0
    /\ due = [o \in Orders |-> [c \in Cards |-> 0]]
    /\ paid = [o \in Orders |-> [c \in Cards |-> 0]]
    /\ fate = [o \in Orders |-> "OPEN"]

\* The amount is whatever due'[o][c] says.
PutDown(o, c) ==
    LET amount == due'[o][c] IN
    /\ fate[o] = "OPEN"
    /\ \A p \in Orders : due[p][c] = 0
    /\ amount > 0
    /\ due' = [due EXCEPT ![o][c] = amount]
    /\ UNCHANGED <<balance, paid, fate>>

Take(o, c) ==
    /\ fate[o] = "OPEN"
    /\ due[o][c] > 0
    /\ paid[o][c] = 0
    /\ balance' = [balance EXCEPT ![c] = @ - due[o][c]]
    /\ paid' = [paid EXCEPT ![o][c] = due[o][c]]
    /\ due' = [due EXCEPT ![o][c] = 0]
    /\ UNCHANGED fate

Withdraw(o, c) ==
    /\ fate[o] = "OPEN"
    /\ due' = [due EXCEPT ![o][c] = 0]
    /\ UNCHANGED <<balance, paid, fate>>

\* A closed order has nothing left to take, and a cancelled one took nothing.
Close(o) ==
    /\ fate[o] = "OPEN"
    /\ \A c \in Cards : due[o][c] = 0
    /\ \/ fate' = [fate EXCEPT ![o] = "ORDERED"]
       \/ /\ \A c \in Cards : paid[o][c] = 0
          /\ fate' = [fate EXCEPT ![o] = "CANCELLED"]
    /\ UNCHANGED <<balance, due, paid>>

LedgerNext ==
    \E o \in Orders :
        \/ Close(o)
        \/ \E c \in Cards : PutDown(o, c) \/ Take(o, c) \/ Withdraw(o, c)

LedgerSpec == LedgerInit /\ [][LedgerNext]_<<balance, due, paid, fate>>
=============================================================================
