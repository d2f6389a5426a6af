----------------------------- MODULE MCEnrollment -----------------------------
(* Instances of Enrollment for TLC. *)
EXTENDS Enrollment, TLC

CONSTANTS p1, p2, e1, e2, w1, w2

\* Threads and e-mail addresses differ in nothing but their names.
Symmetric == Permutations(Workers) \cup Permutations(Emails)
=============================================================================
