---------------------------- MODULE MCCardPayments ----------------------------
(* Instances of CardPayments for TLC: two or three orders, two cards of which the *)
(* second does not cover an order.                                                *)
EXTENDS CardPayments, TLC

CONSTANTS o1, o2, o3, c1, c2, w1, w2, w3

SubTotals == [o \in Orders |-> 2]
Balances == [c \in Cards |-> IF c = c1 THEN 5 ELSE 1]

\* Threads, and orders with the same subtotal, differ in nothing but their names.
Symmetric == Permutations(Workers) \cup Permutations(Orders)
=============================================================================
