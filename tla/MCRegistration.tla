---------------------------- MODULE MCRegistration ----------------------------
(* An instance of Registration for TLC: a participant's phone, whose messages one *)
(* thread handles, and two threads that serve requests of the page.               *)
EXTENDS Registration, TLC

CONSTANTS p1, e1, e2, w1, f1, f2

\* Threads and e-mail addresses differ in nothing but their names.
Symmetric == Permutations(Forms) \cup Permutations(Emails)

NoTexts == /\ \A w \in Workers : job[w] = None
           /\ \A p \in Phones : route[p] = None

\* The e-mail addresses of rows, requests, dialogs and messages.
Used == Taken \cup {form[f].email : f \in {g \in Forms : form[g] # None}}
              \cup {session[p].email : p \in {q \in Phones : session[q] # None}}
              \cup {job[w].text : w \in {x \in Workers : job[x] # None}}

\* Bound: a behaviour has either text messages, and then one e-mail address, one
\* request of the page and no edits by hand; or no text messages.
TextsOrEdits == NoTexts \/ (edits = 0 /\ requests <= 1 /\ Cardinality(Used \cap Emails) <= 1)
=============================================================================
