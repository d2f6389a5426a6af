---------------------------- MODULE MCOrderDialog ----------------------------
(* Instances of OrderDialog for TLC: one user with an allowance of one or two *)
(* meals a day, one or two locations with different menus.                    *)
EXTENDS OrderDialog, TLC

CONSTANTS u1, l1, l2, ham, taco, soup

Menus == [l \in Locations |-> IF l = l1 THEN <<ham, taco>> ELSE <<soup>>]
OneMeal == [u \in Users |-> 1]
TwoMeals == [u \in Users |-> 2]
=============================================================================
