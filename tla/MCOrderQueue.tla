---------------------------- MODULE MCOrderQueue ----------------------------
(* Instances of OrderQueue for TLC: volunteers v1 and v2, and v3 for the   *)
(* liveness run, served by one or by two processes, orders of two          *)
(* providers.                                                              *)
EXTENDS OrderQueue, TLC

CONSTANTS v1, v2, v3, o1, o2, j1, j2, p1, p2

OneProcess == [v \in Volunteers |-> j1]
TwoProcesses == [v \in Volunteers |-> IF v = v1 THEN j1 ELSE j2]
TwoAndOne == [v \in Volunteers |-> IF v = v3 THEN j2 ELSE j1]
ProviderOfOrders == [o \in Orders |-> IF o = o1 THEN p1 ELSE p2]
=============================================================================
