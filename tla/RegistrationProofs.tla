--------------------------- MODULE RegistrationProofs ---------------------------
(***************************************************************************)
(* What holds of registering at the web page next to enrolling by text     *)
(* message and editing users by hand, for any phones, e-mail addresses,    *)
(* threads, codes, invitations, edits, failures and restarts.  What        *)
(* EnrollmentProofs says of text messages stays true next to the web page. *)
(***************************************************************************)
EXTENDS Registration, EnrollmentProofs, FiniteSetTheorems

-----------------------------------------------------------------------------
(* The inductive invariant.                                                *)

\* What a request carries at each step.
Shape(r) ==
    /\ r \in Form
    /\ r.at \in {"insert", "register"} => r.mine = <<>>
    /\ r.at \in {"codes", "set", "take", "finalize"} => r.user # 0
    /\ r.at \in {"codes", "set", "take"} => r.kind = "CLIENT"
    /\ "NGO_ADMIN" \in r.adds \/ "NGO" \in r.adds => r.kind = "NGO"

FormTypes ==
    /\ form \in [Forms -> Form \cup {None}]
    /\ \A f \in Forms : form[f] # None => /\ Shape(form[f])
                                          /\ form[f].user \in 0..Len(users)
                                          /\ form[f].inv <= Len(invitation)

OtherTypes ==
    /\ counter \in Nat \cup {None}
    /\ codes \in Seq(CodeRow)
    /\ \A i \in DOMAIN codes : codes[i].user \in 0..Len(users)
    /\ granted \in 0..edits
    /\ edits \in 0..MaxEdits
    /\ requests \in 0..MaxRequests
    /\ raced \subseteq Phones \cup {"codes", "digits", "admins"}

WebTypes == FormTypes /\ OtherTypes

\* The transactions that hold an e-mail address ...
MsgHas(w, e)  == job[w] # None /\ job[w].user = e
FormHas(f, e) == At(f, "register") /\ e \in Addresses(f)

HeldIsWritten ==
    held = {e \in Emails : (\E w \in Workers : MsgHas(w, e)) \/ (\E f \in Forms : FormHas(f, e))}

\* ... hold it alone, ...
HeldByOne ==
    \A e \in Emails : \A f \in Forms : FormHas(f, e) =>
        /\ \A g \in Forms : FormHas(g, e) => g = f
        /\ \A w \in Workers : ~MsgHas(w, e)

\* ... and no other row has it.
HeldIsFree ==
    \A f \in Forms : At(f, "register") =>
        \A u \in DOMAIN users : users[u].email = form[f].email => u = form[f].user

Holders == HeldIsWritten /\ HeldByOne /\ HeldIsFree

Registered(f) == InCodes(f) \/ At(f, "finalize")

\* A request that is past CommitWebUser has made its user, and past CommitCodes the codes.
MadeBy(f) ==
    /\ form[f].inv # 0 => <<form[f].inv, form[f].kind>> \in users[form[f].user].from
    /\ At(f, "finalize") /\ form[f].kind = "CLIENT" =>
          Cardinality(CodesOf(form[f].user)) >= CodesEach

RegisteredHasUser == \A f \in Forms : Registered(f) => MadeBy(f)

Made == RegisteredHasUser /\ ActivatedHasUser

\* A request that has looked for an administrator and not committed its user.
Deciding(f) == (At(f, "insert") \/ At(f, "register")) /\ form[f].kind = "NGO"

\* It found one, or nobody else is about to make one.
Decided ==
    /\ \A f \in Forms : Deciding(f) /\ edits = 0 /\ "NGO_ADMIN" \notin form[f].adds =>
          Have("NGO_ADMIN") # {}
    /\ "admins" \notin raced =>
          /\ \A f, g \in Forms : Deciding(f) /\ Deciding(g) => f = g
          /\ \A f \in Forms : Deciding(f) /\ "NGO_ADMIN" \in form[f].adds =>
                Cardinality(Have("NGO_ADMIN")) <= granted

Admins == OneAdministrator /\ Decided

\* The codes a request has taken are new and differ, and the counter is past them.
TakesNewCodes(r) ==
    /\ \A k \in DOMAIN r.mine :
          /\ counter # None /\ r.mine[k] <= counter
          /\ \A i \in DOMAIN codes : codes[i].code < r.mine[k]
          /\ \A l \in DOMAIN r.mine : r.mine[k] = r.mine[l] => k = l
    /\ r.at = "take" => counter # None /\ r.local = counter
    /\ r.at = "set" => r.mine = <<>> /\ \A i \in DOMAIN codes : codes[i].code <= r.local

OneTakesCodes ==
    /\ \A f, g \in Forms : InCodes(f) /\ InCodes(g) => f = g
    /\ \A f \in Forms : InCodes(f) => TakesNewCodes(form[f])
    /\ counter # None => \A i \in DOMAIN codes : codes[i].code <= counter
    /\ CodeFindsOneEntry

CodesDiffer == raced \cap {"codes", "digits"} = {} => OneTakesCodes

CodesCounted ==
    \A u \in Nat \ {0} : \E k \in 0..Len(codes) : Cardinality(CodesOf(u)) = k * CodesEach

WebInv == WebTypes /\ Holders /\ Made /\ Admins /\ CodesDiffer /\ CodesCounted

RInv == IInv /\ WebInv

-----------------------------------------------------------------------------
(* Rows.                                                                   *)

LEMMA WebBounds == /\ CodesEach \in Nat /\ CodesEach > 0 /\ FirstCode \in Nat
                   /\ MaxEdits \in Nat /\ MaxRequests \in Nat
BY RegistrationAssumption

\* Row u, which may be the next one, is written with what is n.
Wrote(u, n) ==
    /\ u \in 1..Len(users) + 1
    /\ n \in User
    /\ users' \in Seq(User)
    /\ Len(users) <= Len(users')
    /\ DOMAIN users' = DOMAIN users \cup {u}
    /\ users'[u] = n
    /\ \A t \in DOMAIN users \ {u} : users'[t] = users[t]

LEMMA UsersAre ==
    ASSUME EnrollTypeOK
    PROVE  /\ users \in Seq(User) /\ Len(users) \in Nat
           /\ DOMAIN users = 1..Len(users)
           /\ \A u \in DOMAIN users : users[u] \in User /\ users[u].email \in Emails
<1>1. users \in Seq(User)
  BY DEF EnrollTypeOK
<1>2. \A n \in User : n.email \in Emails
  BY DEF User
<1> QED
  BY <1>1, <1>2

LEMMA Appended ==
    ASSUME EnrollTypeOK, NEW n \in User, users' = Append(users, n)
    PROVE  Wrote(Len(users) + 1, n)
<1>1. users \in Seq(User) /\ Len(users) \in Nat /\ DOMAIN users = 1..Len(users)
  BY UsersAre
<1>2. 1..Len(users) + 1 = (1..Len(users)) \cup {Len(users) + 1}
  BY <1>1
<1>3. /\ users' \in Seq(User) /\ Len(users') = Len(users) + 1
      /\ \A t \in 1..Len(users) : users'[t] = users[t]
      /\ users'[Len(users) + 1] = n
  BY <1>1
<1>4. DOMAIN users' = 1..Len(users) + 1
  BY <1>3
<1> QED
  BY <1>1, <1>2, <1>3, <1>4 DEF Wrote

LEMMA Overwritten ==
    ASSUME EnrollTypeOK, NEW u \in DOMAIN users, NEW n \in User, users' = [users EXCEPT ![u] = n]
    PROVE  Wrote(u, n)
<1>1. users \in Seq(User) /\ Len(users) \in Nat /\ DOMAIN users = 1..Len(users)
  BY UsersAre
<1>2. users' \in Seq(User) /\ Len(users') = Len(users)
  BY <1>1, ExceptSeq
<1>3. DOMAIN users' = DOMAIN users /\ users'[u] = n
      /\ \A t \in DOMAIN users \ {u} : users'[t] = users[t]
  BY <1>1
<1> QED
  BY <1>1, <1>2, <1>3 DEF Wrote

LEMMA TakenBy ==
    ASSUME NEW u, NEW n, Wrote(u, n)
    PROVE  Taken' \subseteq Taken \cup {n.email}
BY DEF Wrote, Taken

\* The dialogs and threads of text messages see no more of the page than rows of users
\* they did not write and addresses they do not hold.
LEMMA EnrollSame ==
    ASSUME IInv, UNCHANGED <<users, expired, dialog, restarts>>, raced \subseteq raced',
           invitation' \in Seq([phone: Phones, activated: BOOLEAN]),
           Len(invitation') = Len(invitation),
           held' \subseteq Emails,
           \A w \in Workers : job[w] # None /\ job[w].user # None => job[w].user \in held'
    PROVE  IInv'
<1> USE DEF dialog
<1>1. EnrollTypeOK'
  BY DEF IInv, EnrollTypeOK
<1>2. AcceptsAtEnd' /\ Confirmed'
  BY DEF IInv, AcceptsAtEnd, Confirmed, SessionsConfirmed, JobsConfirmed, HasConfirmed,
         UserAsConfirmed
<1>3. OneByOne'
  BY DEF IInv, OneByOne, OneJob, JobHasSession, UserEndsSession
<1>4. Unique'
  <2>1. Taken' = Taken
    BY DEF Taken
  <2> QED
    BY <2>1 DEF IInv, Unique, RowsDiffer, InsertsDiffer
<1> QED
  BY <1>1, <1>2, <1>3, <1>4 DEF IInv

LEMMA EnrollWrote ==
    ASSUME IInv, UNCHANGED <<invitation, expired, dialog, restarts>>, raced \subseteq raced',
           held' \subseteq Emails,
           NEW u, NEW n, Wrote(u, n),
           n.by = "sms" => /\ u \in DOMAIN users
                           /\ users[u].by = "sms"
                           /\ users[u].phone = n.phone /\ users[u].email = n.email,
           \A t \in DOMAIN users : users[t].email = n.email => t = u,
           \A w \in Workers : job[w] # None /\ job[w].user # None =>
               job[w].user \in held' /\ job[w].user # n.email
    PROVE  IInv'
<1> USE DEF dialog
<1>1. EnrollTypeOK'
  BY DEF IInv, EnrollTypeOK, Wrote
<1>2. \A t \in DOMAIN users' : users'[t].by = "sms" =>
         /\ t \in DOMAIN users
         /\ users[t].by = "sms"
         /\ users[t].phone = users'[t].phone /\ users[t].email = users'[t].email
  BY DEF Wrote
<1>3. AcceptsAtEnd' /\ Confirmed'
  BY <1>2 DEF IInv, AcceptsAtEnd, Confirmed, SessionsConfirmed, JobsConfirmed, HasConfirmed,
         UserAsConfirmed
<1>4. OneByOne'
  <2>1. OneJob' /\ JobHasSession'
    BY DEF IInv, OneByOne, OneJob, JobHasSession
  <2>2. UserEndsSession'
    BY <1>2 DEF IInv, OneByOne, UserEndsSession
  <2> QED
    BY <2>1, <2>2 DEF OneByOne
<1>5. Unique'
  <2>1. RowsDiffer'
    BY DEF IInv, Unique, RowsDiffer, Wrote
  <2>2. InsertsDiffer'
    BY TakenBy DEF IInv, Unique, InsertsDiffer
  <2> QED
    BY <2>1, <2>2 DEF Unique
<1> QED
  BY <1>1, <1>3, <1>4, <1>5 DEF IInv

-----------------------------------------------------------------------------
(* Requests.                                                               *)

OtherForms(f) == \A g \in Forms : g # f => form'[g] = form[g]

LEMMA FormIs ==
    ASSUME WebTypes, NEW f \in Forms, form[f] # None
    PROVE  /\ form[f] \in Form /\ Shape(form[f])
           /\ form[f].user \in Nat /\ form[f].user \in 0..Len(users)
           /\ form[f].email \in Emails
           /\ form[f].inv \in 0..MaxInvitations /\ form[f].inv <= Len(invitation)
           /\ form[f].local \in Nat /\ form[f].mine \in Seq(Nat) /\ form[f].adds \subseteq Roles
BY DEF WebTypes, FormTypes, Shape, Form

\* A thread goes on with request r, or with none.
LEMMA RequestStep ==
    ASSUME WebTypes, NEW f \in Forms, NEW r, form' = [form EXCEPT ![f] = r],
           r # None => Shape(r) /\ r.user \in 0..Len(users') /\ r.inv <= Len(invitation'),
           Len(users) \in Nat, Len(users') \in Nat, Len(users) <= Len(users'),
           Len(invitation) = Len(invitation')
    PROVE  FormTypes' /\ form'[f] = r /\ OtherForms(f)
<1>1. form'[f] = r /\ OtherForms(f)
  BY DEF WebTypes, FormTypes, OtherForms
<1>2. r \in Form \cup {None}
  BY DEF Shape
<1>3. form' \in [Forms -> Form \cup {None}]
  BY <1>2 DEF WebTypes, FormTypes
<1>4. ASSUME NEW g \in Forms, form'[g] # None
      PROVE  Shape(form'[g]) /\ form'[g].user \in 0..Len(users') /\ form'[g].inv <= Len(invitation')
  BY <1>1, <1>4 DEF WebTypes, FormTypes, OtherForms, Shape, Form
<1> QED
  BY <1>1, <1>3, <1>4 DEF FormTypes, Shape

\* What the handlers change of a request.
LEMMA FormEdits ==
    ASSUME NEW r \in Form
    PROVE  /\ [r EXCEPT !.at = "register"] \in Form
           /\ \A a \in {"codes", "finalize"} : \A u \in Nat :
                 [r EXCEPT !.at = a, !.user = u] \in Form
           /\ \A a \in {"set", "take", "codes"} : \A n \in Nat :
                 [r EXCEPT !.at = a, !.local = n] \in Form
           /\ \A m \in Seq(Nat) : [r EXCEPT !.at = "codes", !.mine = m, !.local = 0] \in Form
           /\ [r EXCEPT !.at = "finalize", !.mine = <<>>] \in Form
<1> DEFINE M == Seq(Nat)
<1>1. <<>> \in M /\ 0 \in Nat
  OBVIOUS
<1>2. Form = [at: {"insert", "register", "codes", "set", "take", "finalize"},
             kind: Kinds, inv: 0..MaxInvitations, phone: Phones, email: Emails,
             user: Nat, adds: SUBSET Roles, local: Nat, mine: M]
  BY DEF Form
<1> HIDE DEF M
<1>3. [r EXCEPT !.at = "register"] \in Form
  BY <1>2
<1>4. ASSUME NEW a \in {"codes", "finalize"}, NEW u \in Nat
      PROVE  [r EXCEPT !.at = a, !.user = u] \in Form
  BY <1>2
<1>5. ASSUME NEW a \in {"set", "take", "codes"}, NEW n \in Nat
      PROVE  [r EXCEPT !.at = a, !.local = n] \in Form
  BY <1>2
<1>6. ASSUME NEW m \in M PROVE [r EXCEPT !.at = "codes", !.mine = m, !.local = 0] \in Form
  BY <1>1, <1>2
<1>7. [r EXCEPT !.at = "finalize", !.mine = <<>>] \in Form
  BY <1>1, <1>2
<1> QED
  BY <1>3, <1>4, <1>5, <1>6, <1>7 DEF M

-----------------------------------------------------------------------------
(* Addresses that are held.                                                *)

LEMMA AddressesAre ==
    ASSUME EnrollTypeOK, WebTypes, NEW f \in Forms, form[f] # None
    PROVE  /\ Addresses(f) \subseteq Emails
           /\ form[f].user = 0 => Addresses(f) = {form[f].email}
           /\ form[f].user # 0 => /\ form[f].user \in DOMAIN users
                                  /\ Addresses(f) = {form[f].email, users[form[f].user].email}
<1>1. form[f].user \in 0..Len(users) /\ form[f].email \in Emails
  BY FormIs
<1>2. /\ DOMAIN users = 1..Len(users) /\ Len(users) \in Nat
      /\ \A u \in DOMAIN users : users[u].email \in Emails
  BY UsersAre
<1>3. Addresses(f) = {form[f].email} \cup {users[u].email : u \in DOMAIN users \cap {form[f].user}}
  BY DEF Addresses
<1>4. CASE form[f].user = 0
  <2>1. DOMAIN users \cap {form[f].user} = {}
    BY <1>2, <1>4
  <2> QED
    BY <1>1, <1>3, <1>4, <2>1
<1>5. CASE form[f].user # 0
  <2>1. form[f].user \in DOMAIN users
    BY <1>1, <1>2, <1>5
  <2>2. {users[u].email : u \in DOMAIN users \cap {form[f].user}} = {users[form[f].user].email}
    BY <2>1
  <2> QED
    BY <1>1, <1>2, <1>3, <1>5, <2>1, <2>2
<1> QED
  BY <1>4, <1>5

\* What a request holds does not change with rows of others.
LEMMA FormHasSame ==
    ASSUME EnrollTypeOK, WebTypes, users' \in Seq(User), DOMAIN users \subseteq DOMAIN users',
           NEW g \in Forms, form[g] # None,
           form'[g].email = form[g].email, form'[g].user = form[g].user,
           form[g].user # 0 => users'[form[g].user].email = users[form[g].user].email
    PROVE  Addresses(g)' = Addresses(g)
<1>1. /\ form[g].user = 0 => Addresses(g) = {form[g].email}
      /\ form[g].user # 0 => /\ form[g].user \in DOMAIN users
                             /\ Addresses(g) = {form[g].email, users[form[g].user].email}
  BY AddressesAre
<1>2. Addresses(g)' = {form[g].email} \cup {users'[u].email : u \in DOMAIN users' \cap {form[g].user}}
  BY DEF Addresses
<1>3. CASE form[g].user = 0
  <2>1. DOMAIN users' \cap {0} = {}
    OBVIOUS
  <2> QED
    BY <1>1, <1>2, <1>3, <2>1
<1>4. CASE form[g].user # 0
  <2>1. form[g].user \in DOMAIN users'
    BY <1>1, <1>4
  <2>2. {users'[u].email : u \in DOMAIN users' \cap {form[g].user}} = {users'[form[g].user].email}
    BY <2>1
  <2> QED
    BY <1>1, <1>2, <1>4, <2>2
<1> QED
  BY <1>3, <1>4

\* Transactions that neither begin nor end to hold an address.
LEMMA HoldersStay ==
    ASSUME HeldIsWritten, HeldByOne, UNCHANGED held,
           \A e \in Emails : \A w \in Workers : MsgHas(w, e)' <=> MsgHas(w, e),
           \A e \in Emails : \A f \in Forms : FormHas(f, e)' <=> FormHas(f, e)
    PROVE  HeldIsWritten' /\ HeldByOne'
<1>1. HeldIsWritten'
  BY DEF HeldIsWritten
<1>2. HeldByOne'
  BY DEF HeldByOne
<1> QED
  BY <1>1, <1>2

\* A request begins to hold what nobody holds, ...
LEMMA FormTakes ==
    ASSUME HeldIsWritten, HeldByOne, NEW f \in Forms, NEW A \in SUBSET Emails,
           A \cap held = {}, held' = held \cup A,
           \A e \in Emails : FormHas(f, e)' <=> e \in A,
           \A e \in Emails : ~FormHas(f, e),
           \A e \in Emails : \A w \in Workers : MsgHas(w, e)' <=> MsgHas(w, e),
           \A e \in Emails : \A g \in Forms \ {f} : FormHas(g, e)' <=> FormHas(g, e)
    PROVE  HeldIsWritten' /\ HeldByOne'
<1>1. HeldIsWritten'
  BY DEF HeldIsWritten
<1>2. \A e \in A : /\ \A w \in Workers : ~MsgHas(w, e)
                   /\ \A g \in Forms : ~FormHas(g, e)
  BY DEF HeldIsWritten
<1>3. HeldByOne'
  <2> SUFFICES ASSUME NEW e \in Emails, NEW g \in Forms, FormHas(g, e)'
               PROVE  /\ \A h \in Forms : FormHas(h, e)' => h = g
                      /\ \A w \in Workers : ~MsgHas(w, e)'
    BY DEF HeldByOne
  <2>1. CASE g = f
    BY <1>2, <2>1
  <2>2. CASE g # f
    <3>1. FormHas(g, e) /\ e \notin A
      BY <1>2, <2>2
    <3> QED
      BY <2>2, <3>1 DEF HeldByOne
  <2> QED
    BY <2>1, <2>2
<1> QED
  BY <1>1, <1>3

\* ... or lets go what it holds.
LEMMA FormLetsGo ==
    ASSUME HeldIsWritten, HeldByOne, NEW f \in Forms, NEW A \in SUBSET Emails,
           held' = held \ A,
           \A e \in Emails : FormHas(f, e) <=> e \in A,
           \A e \in Emails : ~FormHas(f, e)',
           \A e \in Emails : \A w \in Workers : MsgHas(w, e)' <=> MsgHas(w, e),
           \A e \in Emails : \A g \in Forms \ {f} : FormHas(g, e)' <=> FormHas(g, e)
    PROVE  HeldIsWritten' /\ HeldByOne'
<1>1. \A e \in A : /\ \A w \in Workers : ~MsgHas(w, e)
                   /\ \A g \in Forms \ {f} : ~FormHas(g, e)
  BY DEF HeldByOne
<1>2. HeldIsWritten'
  <2> SUFFICES ASSUME NEW e \in Emails
               PROVE  e \in held' <=> \/ \E w \in Workers : MsgHas(w, e)'
                                     \/ \E g \in Forms : FormHas(g, e)'
    BY DEF HeldIsWritten
  <2>1. e \in held <=> (\E w \in Workers : MsgHas(w, e)) \/ (\E g \in Forms : FormHas(g, e))
    BY DEF HeldIsWritten
  <2> QED
    BY <1>1, <2>1
<1>3. HeldByOne'
  BY DEF HeldByOne
<1> QED
  BY <1>2, <1>3

\* So does a message.
LEMMA MsgTakes ==
    ASSUME HeldIsWritten, HeldByOne, NEW w \in Workers, NEW d \in Emails,
           d \notin held, held' = held \cup {d},
           \A e \in Emails : MsgHas(w, e)' <=> e = d,
           \A e \in Emails : ~MsgHas(w, e),
           \A e \in Emails : \A x \in Workers \ {w} : MsgHas(x, e)' <=> MsgHas(x, e),
           \A e \in Emails : \A f \in Forms : FormHas(f, e)' <=> FormHas(f, e)
    PROVE  HeldIsWritten' /\ HeldByOne'
<1>1. HeldIsWritten'
  BY DEF HeldIsWritten
<1>2. \A f \in Forms : ~FormHas(f, d)
  BY DEF HeldIsWritten
<1>3. HeldByOne'
  BY <1>2 DEF HeldByOne
<1> QED
  BY <1>1, <1>3

LEMMA MsgLetsGo ==
    ASSUME HeldIsWritten, HeldByOne, NEW w \in Workers, NEW d \in Emails,
           held' = held \ {d},
           MsgHas(w, d), \A x \in Workers : MsgHas(x, d) => x = w,
           \A e \in Emails : MsgHas(w, e) => e = d,
           \A e \in Emails : ~MsgHas(w, e)',
           \A e \in Emails : \A x \in Workers \ {w} : MsgHas(x, e)' <=> MsgHas(x, e),
           \A e \in Emails : \A f \in Forms : FormHas(f, e)' <=> FormHas(f, e)
    PROVE  HeldIsWritten' /\ HeldByOne'
<1>1. \A f \in Forms : ~FormHas(f, d)
  BY DEF HeldByOne
<1>2. HeldIsWritten'
  <2> SUFFICES ASSUME NEW e \in Emails
               PROVE  e \in held' <=> \/ \E x \in Workers : MsgHas(x, e)'
                                     \/ \E g \in Forms : FormHas(g, e)'
    BY DEF HeldIsWritten
  <2>1. e \in held <=> (\E x \in Workers : MsgHas(x, e)) \/ (\E g \in Forms : FormHas(g, e))
    BY DEF HeldIsWritten
  <2> QED
    BY <1>1, <2>1
<1>3. HeldByOne'
  BY DEF HeldByOne
<1> QED
  BY <1>2, <1>3

-----------------------------------------------------------------------------
(* Users and codes that stay.                                              *)

\* No row goes away, nor the invitations it registered with.
RowsGrow ==
    \A u \in DOMAIN users : u \in DOMAIN users' /\ users[u].from \subseteq users'[u].from

CodesGrow ==
    /\ codes' \in Seq(CodeRow)
    /\ \A i \in DOMAIN codes : i \in DOMAIN codes' /\ codes'[i] = codes[i]

LEMMA CodesOfFinite ==
    ASSUME codes \in Seq(CodeRow), NEW u
    PROVE  /\ CodesOf(u) \subseteq 1..Len(codes)
           /\ IsFiniteSet(CodesOf(u)) /\ Cardinality(CodesOf(u)) \in Nat
<1>1. Len(codes) \in Nat /\ DOMAIN codes = 1..Len(codes)
  OBVIOUS
<1>2. IsFiniteSet(1..Len(codes))
  BY <1>1, FS_Interval
<1>3. CodesOf(u) \subseteq 1..Len(codes)
  BY <1>1 DEF CodesOf
<1> QED
  BY <1>2, <1>3, FS_Subset, FS_CardinalityType

LEMMA CodesOfGrow ==
    ASSUME codes \in Seq(CodeRow), CodesGrow, NEW u
    PROVE  Cardinality(CodesOf(u)) <= Cardinality(CodesOf(u)')
<1>1. CodesOf(u) \subseteq CodesOf(u)'
  BY DEF CodesOf, CodesGrow
<1>2. IsFiniteSet(CodesOf(u)')
  <2>1. Len(codes') \in Nat /\ DOMAIN codes' = 1..Len(codes')
    BY DEF CodesGrow
  <2>2. IsFiniteSet(1..Len(codes'))
    BY <2>1, FS_Interval
  <2>3. CodesOf(u)' \subseteq 1..Len(codes')
    BY <2>1 DEF CodesOf
  <2> QED
    BY <2>2, <2>3, FS_Subset
<1> QED
  BY <1>1, <1>2, FS_Subset

\* A user registered with the invitation, and has its codes if it is a client.
Used(i) ==
    \E u \in DOMAIN users, way \in Ways :
        /\ <<i, way>> \in users[u].from
        /\ way = "CLIENT" => Cardinality(CodesOf(u)) >= CodesEach

LEMMA EnoughStays ==
    ASSUME codes \in Seq(CodeRow), CodesGrow, NEW u, Cardinality(CodesOf(u)) >= CodesEach
    PROVE  Cardinality(CodesOf(u)') >= CodesEach
<1>1. Cardinality(CodesOf(u)) <= Cardinality(CodesOf(u)') /\ Cardinality(CodesOf(u)) \in Nat
  BY CodesOfGrow, CodesOfFinite
<1>2. Cardinality(CodesOf(u)') \in Nat
  <2>1. Len(codes') \in Nat /\ DOMAIN codes' = 1..Len(codes')
    BY DEF CodesGrow
  <2>2. IsFiniteSet(1..Len(codes'))
    BY <2>1, FS_Interval
  <2>3. CodesOf(u)' \subseteq 1..Len(codes')
    BY <2>1 DEF CodesOf
  <2> QED
    BY <2>2, <2>3, FS_Subset, FS_CardinalityType
<1> QED
  BY <1>1, <1>2, WebBounds

LEMMA UsedStays ==
    ASSUME codes \in Seq(CodeRow), RowsGrow, CodesGrow, NEW i, Used(i)
    PROVE  Used(i)'
<1>1. PICK u \in DOMAIN users, way \in Ways :
         /\ <<i, way>> \in users[u].from
         /\ way = "CLIENT" => Cardinality(CodesOf(u)) >= CodesEach
  BY DEF Used
<1>2. u \in DOMAIN users' /\ <<i, way>> \in users'[u].from
  BY <1>1 DEF RowsGrow
<1>3. way = "CLIENT" => Cardinality(CodesOf(u)') >= CodesEach
  BY <1>1, EnoughStays
<1> QED
  BY <1>2, <1>3 DEF Used

LEMMA MadeKeeps ==
    ASSUME EnrollTypeOK, WebTypes, Made, RowsGrow, CodesGrow,
           \A i \in 1..Len(invitation') : invitation'[i].activated =>
               (i \in 1..Len(invitation) /\ invitation[i].activated) \/ Used(i)',
           \A f \in Forms : Registered(f)' =>
               \/ /\ Registered(f) /\ (At(f, "finalize")' => At(f, "finalize"))
                  /\ form'[f].inv = form[f].inv /\ form'[f].kind = form[f].kind
                  /\ form'[f].user = form[f].user
               \/ MadeBy(f)'
    PROVE  Made'
<1>0. codes \in Seq(CodeRow)
  BY DEF WebTypes, OtherTypes
<1>1. ActivatedHasUser'
  <2> SUFFICES ASSUME NEW i \in 1..Len(invitation'), invitation'[i].activated PROVE Used(i)'
    BY DEF ActivatedHasUser, Used
  <2>1. CASE i \in 1..Len(invitation) /\ invitation[i].activated
    <3>1. Used(i)
      BY <2>1 DEF Made, ActivatedHasUser, Used
    <3> QED
      BY <1>0, <3>1, UsedStays
  <2> QED
    BY <2>1
<1>2. RegisteredHasUser'
  <2> SUFFICES ASSUME NEW f \in Forms, Registered(f)' PROVE MadeBy(f)'
    BY DEF RegisteredHasUser
  <2>1. CASE /\ Registered(f) /\ (At(f, "finalize")' => At(f, "finalize"))
             /\ form'[f].inv = form[f].inv /\ form'[f].kind = form[f].kind
             /\ form'[f].user = form[f].user
    <3> SUFFICES ASSUME NEW n, n = form[f].user PROVE MadeBy(f)'
      OBVIOUS
    <3>1. /\ form[f].inv # 0 => <<form[f].inv, form[f].kind>> \in users[n].from
          /\ At(f, "finalize") /\ form[f].kind = "CLIENT" => Cardinality(CodesOf(n)) >= CodesEach
      BY <2>1 DEF Made, RegisteredHasUser, MadeBy
    <3>2. n \in DOMAIN users
      <4>1. form[f] # None /\ form[f].at \in {"codes", "set", "take", "finalize"}
        BY <2>1 DEF Registered, InCodes, At
      <4>2. form[f].user \in 0..Len(users) /\ form[f].user # 0
        BY <4>1, FormIs DEF Shape
      <4> QED
        BY <4>2, UsersAre
    <3>3. form[f].inv # 0 => <<form[f].inv, form[f].kind>> \in users'[n].from
      BY <3>1, <3>2 DEF RowsGrow
    <3>4. At(f, "finalize") /\ form[f].kind = "CLIENT" => Cardinality(CodesOf(n)') >= CodesEach
      BY <1>0, <3>1, EnoughStays
    <3>5. form'[f].user = n
      BY <2>1
    <3> QED
      BY <2>1, <3>3, <3>4, <3>5 DEF MadeBy
  <2> QED
    BY <2>1
<1> QED
  BY <1>1, <1>2 DEF Made

-----------------------------------------------------------------------------
(* Administrators.                                                         *)

LEMMA HaveFinite ==
    ASSUME EnrollTypeOK, NEW role
    PROVE  IsFiniteSet(Have(role)) /\ Cardinality(Have(role)) \in Nat
<1>1. DOMAIN users = 1..Len(users) /\ Len(users) \in Nat
  BY UsersAre
<1>2. IsFiniteSet(DOMAIN users) /\ Have(role) \subseteq DOMAIN users
  BY <1>1, FS_Interval DEF Have
<1> QED
  BY <1>2, FS_Subset, FS_CardinalityType

LEMMA HaveWrote ==
    ASSUME NEW u, NEW n, Wrote(u, n), NEW role
    PROVE  Have(role)' = (Have(role) \ {u}) \cup (IF role \in n.roles THEN {u} ELSE {})
BY DEF Wrote, Have

LEMMA AdminsStay ==
    ASSUME Admins, UNCHANGED <<edits, granted>>, raced \subseteq raced',
           \A role \in {"NGO", "NGO_ADMIN"} : Have(role)' = Have(role),
           \A g \in Forms : Deciding(g)' => Deciding(g) /\ form'[g].adds = form[g].adds
    PROVE  Admins'
<1>1. Have("NGO")' = Have("NGO") /\ Have("NGO_ADMIN")' = Have("NGO_ADMIN")
  OBVIOUS
<1>2. OneAdministrator'
  BY <1>1 DEF Admins, OneAdministrator
<1>3. Decided'
  BY <1>1 DEF Admins, Decided
<1> QED
  BY <1>2, <1>3 DEF Admins

\* After an edit by hand only the number of administrators matters.
LEMMA AdminsByHand ==
    ASSUME EnrollTypeOK, EnrollTypeOK', Admins, UNCHANGED <<form, raced>>, edits' # 0,
           granted \in Nat, granted' \in Nat,
           Cardinality(Have("NGO_ADMIN")') + granted <= Cardinality(Have("NGO_ADMIN")) + granted'
    PROVE  Admins'
<1> DEFINE c == Cardinality(Have("NGO_ADMIN"))
           d == Cardinality(Have("NGO_ADMIN")')
<1>1. c \in Nat
  BY HaveFinite
<1>2. d \in Nat
  <2>1. users' \in Seq(User)
    BY DEF EnrollTypeOK
  <2>2. IsFiniteSet(1..Len(users')) /\ DOMAIN users' = 1..Len(users')
    BY <2>1, FS_Interval
  <2>3. Have("NGO_ADMIN")' \subseteq DOMAIN users'
    BY DEF Have
  <2> QED
    BY <2>2, <2>3, FS_Subset, FS_CardinalityType
<1>3. OneAdministrator'
  <2>1. c <= 1 + granted \/ "admins" \in raced
    BY DEF Admins, OneAdministrator
  <2>2. d <= 1 + granted' \/ "admins" \in raced'
    BY <1>1, <1>2, <2>1
  <2> QED
    BY <2>2 DEF OneAdministrator
<1>4. Decided'
  <2>1. \A f \in Forms : Deciding(f)' <=> Deciding(f)
    BY DEF Deciding, At
  <2>2. ASSUME "admins" \notin raced', NEW f \in Forms, Deciding(f)',
               "NGO_ADMIN" \in form'[f].adds
        PROVE  d <= granted'
    <3>1. c <= granted
      BY <2>1, <2>2 DEF Admins, Decided
    <3> QED
      BY <1>1, <1>2, <3>1
  <2>3. "admins" \notin raced' => \A f, g \in Forms : Deciding(f)' /\ Deciding(g)' => f = g
    BY <2>1 DEF Admins, Decided
  <2> QED
    BY <2>2, <2>3 DEF Decided
<1> QED
  BY <1>3, <1>4 DEF Admins

-----------------------------------------------------------------------------
(* Codes.                                                                  *)

LEMMA CodesStay ==
    ASSUME CodesDiffer, CodesCounted, UNCHANGED <<codes, counter>>, raced \subseteq raced',
           \A g \in Forms : InCodes(g)' => InCodes(g) /\ form'[g] = form[g]
    PROVE  CodesDiffer' /\ CodesCounted'
<1>1. CodesCounted'
  BY DEF CodesCounted, CodesOf
<1>2. CodesDiffer'
  <2> SUFFICES ASSUME raced' \cap {"codes", "digits"} = {} PROVE OneTakesCodes'
    BY DEF CodesDiffer
  <2>1. OneTakesCodes
    BY DEF CodesDiffer
  <2>2. \A f \in Forms : InCodes(f)' => TakesNewCodes(form[f])
    BY <2>1 DEF OneTakesCodes
  <2>3. \A f \in Forms : InCodes(f)' => TakesNewCodes(form[f])'
    BY <2>2 DEF TakesNewCodes
  <2>4. \A f, g \in Forms : InCodes(f)' /\ InCodes(g)' => f = g
    BY <2>1 DEF OneTakesCodes
  <2>5. (counter' # None => \A i \in DOMAIN codes' : codes'[i].code <= counter')
        /\ CodeFindsOneEntry'
    BY <2>1 DEF OneTakesCodes, CodeFindsOneEntry
  <2> QED
    BY <2>3, <2>4, <2>5 DEF OneTakesCodes
<1> QED
  BY <1>1, <1>2

\* The one request that takes codes goes on.
LEMMA OneGoesOn ==
    ASSUME CodesDiffer, NEW f \in Forms, InCodes(f), OtherForms(f), raced \subseteq raced',
           OneTakesCodes /\ raced' \cap {"codes", "digits"} = {} =>
               /\ InCodes(f)' => TakesNewCodes(form[f])'
               /\ counter' # None => \A i \in DOMAIN codes' : codes'[i].code <= counter'
               /\ CodeFindsOneEntry'
    PROVE  CodesDiffer'
<1> SUFFICES ASSUME raced' \cap {"codes", "digits"} = {} PROVE OneTakesCodes'
  BY DEF CodesDiffer
<1>1. OneTakesCodes
  BY DEF CodesDiffer
<1>2. \A g \in Forms : InCodes(g)' => g = f
  <2> SUFFICES ASSUME NEW g \in Forms, InCodes(g)', g # f PROVE FALSE
    OBVIOUS
  <2>1. InCodes(g)
    BY DEF InCodes, At, OtherForms
  <2> QED
    BY <1>1, <2>1 DEF OneTakesCodes
<1>3. \A g \in Forms : InCodes(g)' => TakesNewCodes(form[g])'
  BY <1>1, <1>2
<1> QED
  BY <1>1, <1>2, <1>3 DEF OneTakesCodes

\* What the steps of saveActivationCodes leave alone.
CodeStep(f, r) ==
    /\ InCodes(f)
    /\ form' = [form EXCEPT ![f] = r]
    /\ Shape(r)
    /\ r.at \in {"codes", "set", "take", "finalize"}
    /\ r.kind = form[f].kind /\ r.inv = form[f].inv /\ r.user = form[f].user
    /\ UNCHANGED <<users, held, invitation, expired, dialog, restarts, hands, requests>>
    /\ raced' \in {raced, raced \cup {"digits"}}
    /\ counter' \in Nat \cup {None}
    /\ CodesGrow

LEMMA CodeStepKeeps ==
    ASSUME RInv, NEW f \in Forms, NEW r, CodeStep(f, r),
           \A i \in DOMAIN codes' : codes'[i].user \in 0..Len(users),
           \A n : n = r.user /\ r.at = "finalize" => Cardinality(CodesOf(n)') >= CodesEach
    PROVE  /\ IInv' /\ WebTypes' /\ Holders' /\ Made' /\ Admins'
           /\ form'[f] = r /\ OtherForms(f) /\ raced \subseteq raced'
<1> USE DEF RInv, WebInv
<1>1. /\ form[f] # None /\ form[f].at \in {"codes", "set", "take"} /\ form[f].kind = "CLIENT"
      /\ form[f].user \in 0..Len(users) /\ form[f].inv <= Len(invitation)
      /\ form[f] \in Form /\ form[f].user # 0
  <2>1. form[f] # None /\ form[f].at \in {"codes", "set", "take"}
    BY DEF CodeStep, InCodes, At
  <2> QED
    BY <2>1, FormIs DEF Shape
<1>2. raced \subseteq raced' /\ raced' \subseteq Phones \cup {"codes", "digits", "admins"}
  BY DEF CodeStep, WebTypes, OtherTypes
<1>3. /\ users \in Seq(User) /\ Len(users) \in Nat /\ EnrollTypeOK
  BY UsersAre DEF IInv
<1>4. r # None /\ r.user \in 0..Len(users') /\ r.inv <= Len(invitation')
  BY <1>1, NoneIsNoForm DEF CodeStep, Shape
<1>5. FormTypes' /\ form'[f] = r /\ OtherForms(f)
  <2>1. form' = [form EXCEPT ![f] = r] /\ Shape(r) /\ UNCHANGED <<users, invitation>>
    BY DEF CodeStep
  <2>2. /\ WebTypes /\ Len(users') \in Nat /\ Len(users) <= Len(users')
        /\ Len(invitation) = Len(invitation')
    BY <1>3, <2>1
  <2> HIDE DEF RInv, WebInv
  <2> QED
    BY <1>3, <1>4, <2>1, <2>2, RequestStep
<1>6. WebTypes'
  BY <1>2, <1>5 DEF CodeStep, CodesGrow, WebTypes, OtherTypes, hands
<1>7. IInv'
  <2>1. \A w \in Workers : job[w] # None /\ job[w].user # None => job[w].user \in held'
    BY DEF CodeStep, IInv, Unique, InsertsDiffer
  <2> QED
    BY <1>2, <1>3, <2>1, EnrollSame DEF CodeStep, EnrollTypeOK
<1>8. \A g \in Forms : (~At(g, "register") /\ ~At(g, "insert")) \/ g # f
  BY <1>1 DEF At
<1>9. /\ \A g \in Forms : At(g, "register")' <=> At(g, "register")
      /\ \A g \in Forms : At(g, "insert")' <=> At(g, "insert")
      /\ \A g \in Forms : At(g, "register") \/ At(g, "insert") => form'[g] = form[g]
  BY <1>4, <1>5, <1>8 DEF At, OtherForms, CodeStep
<1>10. Holders'
  <2>1. \A e \in Emails : \A g \in Forms : FormHas(g, e)' <=> FormHas(g, e)
    BY <1>9 DEF FormHas, Addresses, CodeStep
  <2>2. \A e \in Emails : \A w \in Workers : MsgHas(w, e)' <=> MsgHas(w, e)
    BY DEF MsgHas, CodeStep, dialog
  <2>3. HeldIsFree'
    BY <1>9 DEF Holders, HeldIsFree, CodeStep
  <2> QED
    BY <2>1, <2>2, <2>3, HoldersStay DEF Holders, CodeStep
<1>11. Admins'
  <2>1. \A g \in Forms : Deciding(g)' => Deciding(g) /\ form'[g].adds = form[g].adds
    BY <1>9 DEF Deciding
  <2>2. \A role \in {"NGO", "NGO_ADMIN"} : Have(role)' = Have(role)
    BY DEF Have, CodeStep
  <2> QED
    BY <1>2, <2>1, <2>2, AdminsStay DEF CodeStep, hands
<1>12. Made'
  <2>1. RowsGrow /\ CodesGrow
    BY DEF RowsGrow, CodeStep
  <2>2. \A i \in 1..Len(invitation') : invitation'[i].activated =>
           i \in 1..Len(invitation) /\ invitation[i].activated
    BY DEF CodeStep
  <2>3. Registered(f)
    BY DEF Registered, CodeStep
  <2>4. \A g \in Forms : g # f /\ Registered(g)' =>
              /\ Registered(g) /\ (At(g, "finalize")' => At(g, "finalize"))
              /\ form'[g] = form[g]
    BY <1>5 DEF Registered, InCodes, At, OtherForms
  <2>5. CASE r.at # "finalize"
    <3>1. ~At(f, "finalize")'
      BY <1>5, <2>5 DEF At
    <3> QED
      BY <1>3, <1>5, <2>1, <2>2, <2>3, <2>4, <3>1, MadeKeeps DEF CodeStep
  <2>6. CASE r.at = "finalize"
    <3>1. MadeBy(f)'
      <4> SUFFICES ASSUME NEW n, n = r.user PROVE MadeBy(f)'
        OBVIOUS
      <4>1. Cardinality(CodesOf(n)') >= CodesEach
        BY <2>6
      <4>2. form[f].inv # 0 => <<form[f].inv, form[f].kind>> \in users[n].from
        BY <2>3 DEF Made, RegisteredHasUser, MadeBy, CodeStep
      <4> QED
        BY <1>5, <4>1, <4>2 DEF MadeBy, CodeStep
    <3> QED
      BY <1>3, <2>1, <2>2, <2>4, <3>1, MadeKeeps
  <2> QED
    BY <2>5, <2>6
<1> QED
  BY <1>2, <1>5, <1>6, <1>7, <1>10, <1>11, <1>12

LEMMA ShapeEdits ==
    ASSUME NEW r, Shape(r), r.at \in {"codes", "set", "take"}
    PROVE  /\ \A a \in {"set", "take", "codes"} : \A n \in Nat :
                 Shape([r EXCEPT !.at = a, !.local = n])
           /\ \A m \in Seq(Nat) : Shape([r EXCEPT !.at = "codes", !.mine = m, !.local = 0])
           /\ Shape([r EXCEPT !.at = "finalize", !.mine = <<>>])
<1>1. r \in Form /\ r.user # 0 /\ r.kind = "CLIENT"
      /\ ("NGO_ADMIN" \in r.adds \/ "NGO" \in r.adds => r.kind = "NGO")
  BY DEF Shape
<1> DEFINE M == Seq(Nat)
<1>2. Form = [at: {"insert", "register", "codes", "set", "take", "finalize"},
             kind: Kinds, inv: 0..MaxInvitations, phone: Phones, email: Emails,
             user: Nat, adds: SUBSET Roles, local: Nat, mine: M]
  BY DEF Form
<1> HIDE DEF M
<1>3. ASSUME NEW a \in {"set", "take", "codes"}, NEW n \in Nat
      PROVE  Shape([r EXCEPT !.at = a, !.local = n])
  <2>1. [r EXCEPT !.at = a, !.local = n] \in Form
    BY <1>1, FormEdits
  <2> QED
    BY <1>1, <1>2, <2>1 DEF Shape
<1>4. ASSUME NEW m \in M
      PROVE  Shape([r EXCEPT !.at = "codes", !.mine = m, !.local = 0])
  <2>1. [r EXCEPT !.at = "codes", !.mine = m, !.local = 0] \in Form
    BY <1>1, <1>4, FormEdits DEF M
  <2> QED
    BY <1>1, <1>2, <2>1 DEF Shape
<1>5. Shape([r EXCEPT !.at = "finalize", !.mine = <<>>])
  <2>1. [r EXCEPT !.at = "finalize", !.mine = <<>>] \in Form
    BY <1>1, FormEdits
  <2> QED
    BY <1>1, <1>2, <2>1 DEF Shape
<1> QED
  BY <1>3, <1>4, <1>5 DEF M

\* The fields of a request that takes codes, and of what it goes on with.
LEMMA TakerIs ==
    ASSUME RInv, NEW f \in Forms, InCodes(f)
    PROVE  /\ form[f] # None /\ form[f] \in Form /\ Shape(form[f])
           /\ form[f].at \in {"codes", "set", "take"}
           /\ form[f].local \in Nat /\ form[f].mine \in Seq(Nat)
           /\ form[f].user \in 1..Len(users)
           /\ codes \in Seq(CodeRow) /\ counter \in Nat \cup {None}
           /\ DOMAIN form[f] = {"at", "kind", "inv", "phone", "email", "user", "adds", "local", "mine"}
           /\ \A i \in DOMAIN codes : codes[i].code \in Nat /\ codes[i].user \in 0..Len(users)
           /\ CodesDiffer /\ CodesCounted
<1>1. form[f] # None /\ form[f].at \in {"codes", "set", "take"}
  BY DEF InCodes, At
<1>2. /\ form[f] \in Form /\ Shape(form[f]) /\ form[f].local \in Nat /\ form[f].mine \in Seq(Nat)
      /\ form[f].user \in 0..Len(users) /\ form[f].user # 0
  BY <1>1, FormIs DEF RInv, WebInv, Shape
<1>3. form[f].user \in 1..Len(users)
  BY <1>2, UsersAre DEF RInv, IInv
<1>4. codes \in Seq(CodeRow) /\ counter \in Nat \cup {None}
      /\ \A i \in DOMAIN codes : codes[i].user \in 0..Len(users)
  BY DEF RInv, WebInv, WebTypes, OtherTypes
<1>5. \A i \in DOMAIN codes : codes[i].code \in Nat
  <2>1. \A i \in DOMAIN codes : codes[i] \in CodeRow
    BY <1>4
  <2>2. \A c \in CodeRow : c.code \in Nat
    BY DEF CodeRow
  <2> QED
    BY <2>1, <2>2
<1>6. DOMAIN form[f] = {"at", "kind", "inv", "phone", "email", "user", "adds", "local", "mine"}
  BY <1>2 DEF Form
<1> QED
  BY <1>1, <1>2, <1>3, <1>4, <1>5, <1>6 DEF RInv, WebInv

LEMMA CountedStay ==
    ASSUME CodesCounted, UNCHANGED codes
    PROVE  CodesCounted'
BY DEF CodesCounted, CodesOf

\* The last code of the table is the greatest of all, unless its text comes last only.
LEMMA ReadTableKeeps ==
    ASSUME RInv, NEW f \in Forms, ReadTable(f)
    PROVE  RInv'
<1>1. PICK n \in LastCodes :
         /\ form' = [form EXCEPT ![f] = [form[f] EXCEPT !.at = "set", !.local = n]]
         /\ raced' = IF \E m \in Given : m > n THEN raced \cup {"digits"} ELSE raced
  BY DEF ReadTable
<1>2. InCodes(f) /\ counter = None
  BY DEF ReadTable, InCodes
<1>3. PICK r : r = [form[f] EXCEPT !.at = "set", !.local = n]
  OBVIOUS
<1>4. n \in Nat
  <2>1. Given \subseteq Nat
    BY <1>2, TakerIs DEF Given
  <2> QED
    BY <2>1, WebBounds DEF LastCodes
<1>5. /\ Shape(r) /\ r.at = "set" /\ r.local = n
      /\ r.mine = form[f].mine /\ r.kind = form[f].kind
      /\ r.inv = form[f].inv /\ r.user = form[f].user
  BY <1>2, <1>3, <1>4, ShapeEdits, TakerIs
<1>6. CodeStep(f, r)
  BY <1>1, <1>2, <1>3, <1>5, TakerIs DEF CodeStep, ReadTable, CodesGrow
<1>7. /\ IInv' /\ WebTypes' /\ Holders' /\ Made' /\ Admins'
      /\ form'[f] = r /\ OtherForms(f) /\ raced \subseteq raced'
  <2>1. \A i \in DOMAIN codes' : codes'[i].user \in 0..Len(users)
    BY <1>2, TakerIs DEF ReadTable
  <2> QED
    BY <1>5, <1>6, <2>1, CodeStepKeeps
<1>8. CodesDiffer'
  <2> SUFFICES ASSUME OneTakesCodes, raced' \cap {"codes", "digits"} = {}
               PROVE  /\ TakesNewCodes(form[f])'
                      /\ counter' # None => \A i \in DOMAIN codes' : codes'[i].code <= counter'
                      /\ CodeFindsOneEntry'
    BY <1>2, <1>7, OneGoesOn DEF RInv, WebInv
  <2>1. UNCHANGED <<codes, counter>>
    BY DEF ReadTable
  <2>2. DOMAIN form[f].mine = {}
    BY <1>2 DEF OneTakesCodes, TakesNewCodes
  <2>3. r.mine = <<>>
    <3>1. form[f].mine \in Seq(Nat)
      BY <1>2, TakerIs
    <3>2. Len(form[f].mine) \in Nat /\ DOMAIN form[f].mine = 1..Len(form[f].mine)
      BY <3>1, LenProperties
    <3>3. 1 \notin 1..Len(form[f].mine)
      BY <2>2, <3>2
    <3>4. Len(form[f].mine) = 0
      BY <3>2, <3>3
    <3> QED
      BY <1>5, <3>1, <3>4, EmptySeq
  <2>4. \A m \in Given : m <= n
    <3>1. \A m \in Given : ~(m > n) /\ m \in Nat
      BY <1>1, <1>2, TakerIs DEF Given
    <3> QED
      BY <1>4, <3>1
  <2>5. \A i \in DOMAIN codes : codes[i].code <= n
    BY <2>4 DEF Given
  <2>6. TakesNewCodes(form[f])'
    BY <1>5, <1>7, <2>1, <2>3, <2>5 DEF TakesNewCodes
  <2> QED
    BY <2>1, <2>6 DEF OneTakesCodes, CodeFindsOneEntry
<1>9. CodesCounted'
  BY <1>2, TakerIs, CountedStay DEF ReadTable
<1> QED
  BY <1>7, <1>8, <1>9 DEF RInv, WebInv

LEMMA SetCounterKeeps ==
    ASSUME RInv, NEW f \in Forms, SetCounter(f)
    PROVE  RInv'
<1>1. form' = [form EXCEPT ![f] = [form[f] EXCEPT !.at = "codes", !.local = 0]]
  BY DEF SetCounter
<1>2. InCodes(f) /\ form[f].at = "set" /\ counter' = form[f].local
  BY DEF SetCounter, InCodes, At
<1>3. PICK r : r = [form[f] EXCEPT !.at = "codes", !.local = 0]
  OBVIOUS
<1>4. /\ Shape(r) /\ r.at = "codes"
      /\ r.mine = form[f].mine /\ r.kind = form[f].kind
      /\ r.inv = form[f].inv /\ r.user = form[f].user
  BY <1>2, <1>3, ShapeEdits, TakerIs
<1>5. UNCHANGED <<users, held, invitation, expired, raced, dialog, restarts, codes, hands, requests>>
  BY DEF SetCounter, enrollVars, dialog
<1>6. CodeStep(f, r)
  BY <1>1, <1>2, <1>3, <1>4, <1>5, TakerIs DEF CodeStep, CodesGrow
<1>7. /\ IInv' /\ WebTypes' /\ Holders' /\ Made' /\ Admins'
      /\ form'[f] = r /\ OtherForms(f) /\ raced \subseteq raced'
  <2>1. \A i \in DOMAIN codes' : codes'[i].user \in 0..Len(users)
    BY <1>2, <1>5, TakerIs
  <2> QED
    BY <1>4, <1>6, <2>1, CodeStepKeeps
<1>8. CodesDiffer'
  <2> SUFFICES ASSUME OneTakesCodes
               PROVE  /\ TakesNewCodes(form[f])'
                      /\ \A i \in DOMAIN codes' : codes'[i].code <= counter'
                      /\ CodeFindsOneEntry'
    BY <1>2, <1>7, OneGoesOn DEF RInv, WebInv
  <2>1. r.mine = <<>> /\ \A i \in DOMAIN codes : codes[i].code <= counter'
    BY <1>2, <1>4 DEF OneTakesCodes, TakesNewCodes
  <2>2. TakesNewCodes(form[f])'
    BY <1>4, <1>7, <2>1 DEF TakesNewCodes
  <2> QED
    BY <1>5, <2>1, <2>2 DEF OneTakesCodes, CodeFindsOneEntry
<1>9. CodesCounted'
  BY <1>2, <1>5, TakerIs, CountedStay
<1> QED
  BY <1>7, <1>8, <1>9 DEF RInv, WebInv

LEMMA ReadCounterKeeps ==
    ASSUME RInv, NEW f \in Forms, ReadCounter(f)
    PROVE  RInv'
<1>1. form' = [form EXCEPT ![f] = [form[f] EXCEPT !.at = "take", !.local = counter]]
  BY DEF ReadCounter
<1>2. InCodes(f) /\ counter # None
  BY DEF ReadCounter, InCodes
<1>3. PICK r : r = [form[f] EXCEPT !.at = "take", !.local = counter]
  OBVIOUS
<1>4. /\ Shape(r) /\ r.at = "take" /\ r.local = counter
      /\ r.mine = form[f].mine /\ r.kind = form[f].kind
      /\ r.inv = form[f].inv /\ r.user = form[f].user
  <2>1. counter \in Nat
    BY <1>2, TakerIs
  <2> QED
    BY <1>2, <1>3, <2>1, ShapeEdits, TakerIs
<1>5. UNCHANGED <<users, held, invitation, expired, raced, dialog, restarts, counter, codes, hands,
                  requests>>
  BY DEF ReadCounter, enrollVars, dialog
<1>6. CodeStep(f, r)
  BY <1>1, <1>2, <1>3, <1>4, <1>5, TakerIs DEF CodeStep, CodesGrow
<1>7. /\ IInv' /\ WebTypes' /\ Holders' /\ Made' /\ Admins'
      /\ form'[f] = r /\ OtherForms(f) /\ raced \subseteq raced'
  <2>1. \A i \in DOMAIN codes' : codes'[i].user \in 0..Len(users)
    BY <1>2, <1>5, TakerIs
  <2> QED
    BY <1>4, <1>6, <2>1, CodeStepKeeps
<1>8. CodesDiffer'
  <2> SUFFICES ASSUME OneTakesCodes
               PROVE  /\ TakesNewCodes(form[f])'
                      /\ counter' # None => \A i \in DOMAIN codes' : codes'[i].code <= counter'
                      /\ CodeFindsOneEntry'
    BY <1>2, <1>7, OneGoesOn DEF RInv, WebInv
  <2>1. TakesNewCodes(form[f])
    BY <1>2 DEF OneTakesCodes
  <2>2. TakesNewCodes(form[f])'
    BY <1>2, <1>4, <1>5, <1>7, <2>1 DEF TakesNewCodes
  <2> QED
    BY <1>5, <2>2 DEF OneTakesCodes, CodeFindsOneEntry
<1>9. CodesCounted'
  BY <1>2, <1>5, TakerIs, CountedStay
<1> QED
  BY <1>7, <1>8, <1>9 DEF RInv, WebInv

LEMMA OneMore ==
    ASSUME NEW s \in Seq(Nat), NEW n \in Nat
    PROVE  /\ DOMAIN Append(s, n) = DOMAIN s \cup {Len(s) + 1}
           /\ Append(s, n)[Len(s) + 1] = n
           /\ \A k \in DOMAIN s : Append(s, n)[k] = s[k] /\ Append(s, n)[k] \in Nat
<1>1. DOMAIN s = 1..Len(s) /\ Len(s) \in Nat
  OBVIOUS
<1>2. DOMAIN Append(s, n) = 1..Len(s) + 1
  OBVIOUS
<1>3. 1..Len(s) + 1 = (1..Len(s)) \cup {Len(s) + 1}
  BY <1>1
<1>4. Append(s, n)[Len(s) + 1] = n /\ \A k \in 1..Len(s) : Append(s, n)[k] = s[k] /\ s[k] \in Nat
  OBVIOUS
<1> QED
  BY <1>1, <1>2, <1>3, <1>4

\* The new code is past all others.
LEMMA TakeCodeKeeps ==
    ASSUME RInv, NEW f \in Forms, TakeCode(f)
    PROVE  RInv'
<1> DEFINE n == form[f].local + 1
           m == Append(form[f].mine, n)
<1>1. form' = [form EXCEPT ![f] = [form[f] EXCEPT !.at = "codes", !.mine = m, !.local = 0]]
  BY DEF TakeCode
<1>2. InCodes(f) /\ form[f].at = "take" /\ counter' = n
  BY DEF TakeCode, InCodes, At
<1>3. PICK r : r = [form[f] EXCEPT !.at = "codes", !.mine = m, !.local = 0]
  OBVIOUS
<1>4. n \in Nat /\ m \in Seq(Nat)
  BY <1>2, TakerIs
<1>5. /\ Shape(r) /\ r.at = "codes" /\ r.mine = m /\ r.kind = form[f].kind
      /\ r.inv = form[f].inv /\ r.user = form[f].user
  <2> HIDE DEF m
  <2> QED
    BY <1>2, <1>3, <1>4, ShapeEdits, TakerIs
<1>6. UNCHANGED <<users, held, invitation, expired, raced, dialog, restarts, codes, hands, requests>>
  BY DEF TakeCode, enrollVars, dialog
<1>7. CodeStep(f, r)
  BY <1>1, <1>2, <1>3, <1>4, <1>5, <1>6, TakerIs DEF CodeStep, CodesGrow
<1>8. /\ IInv' /\ WebTypes' /\ Holders' /\ Made' /\ Admins'
      /\ form'[f] = r /\ OtherForms(f) /\ raced \subseteq raced'
  <2>1. \A i \in DOMAIN codes' : codes'[i].user \in 0..Len(users)
    BY <1>2, <1>6, TakerIs
  <2> QED
    BY <1>5, <1>7, <2>1, CodeStepKeeps
<1>9. CodesDiffer'
  <2> SUFFICES ASSUME OneTakesCodes
               PROVE  /\ TakesNewCodes(form[f])'
                      /\ \A i \in DOMAIN codes' : codes'[i].code <= counter'
                      /\ CodeFindsOneEntry'
    BY <1>2, <1>8, OneGoesOn DEF RInv, WebInv
  <2>1. /\ TakesNewCodes(form[f]) /\ counter # None /\ form[f].local = counter
        /\ \A i \in DOMAIN codes : codes[i].code <= counter
    BY <1>2 DEF OneTakesCodes, TakesNewCodes
  <2>2. /\ counter \in Nat /\ n = counter + 1
        /\ \A i \in DOMAIN codes : codes[i].code \in Nat
    BY <1>2, <2>1, TakerIs
  <2>3. \A i \in DOMAIN codes : codes[i].code < n
    BY <2>1, <2>2
  <2>4. /\ DOMAIN m = DOMAIN form[f].mine \cup {Len(form[f].mine) + 1}
        /\ m[Len(form[f].mine) + 1] = n
        /\ \A k \in DOMAIN form[f].mine : m[k] = form[f].mine[k] /\ m[k] \in Nat
    BY <1>2, <1>4, TakerIs, OneMore
  <2>5. \A k \in DOMAIN form[f].mine : m[k] < n /\ m[k] <= n
    BY <2>1, <2>2, <2>4 DEF TakesNewCodes
  <2> HIDE DEF m, n
  <2>6. \A k \in DOMAIN m :
           /\ m[k] <= n
           /\ \A i \in DOMAIN codes : codes[i].code < m[k]
           /\ \A l \in DOMAIN m : m[k] = m[l] => k = l
    <3> SUFFICES ASSUME NEW k \in DOMAIN m
                 PROVE  /\ m[k] <= n
                        /\ \A i \in DOMAIN codes : codes[i].code < m[k]
                        /\ \A l \in DOMAIN m : m[k] = m[l] => k = l
      OBVIOUS
    <3>1. CASE k \in DOMAIN form[f].mine
      <4>1. m[k] # n
        BY <1>4, <2>4, <2>5, <3>1
      <4> QED
        BY <2>1, <2>4, <2>5, <3>1, <4>1 DEF TakesNewCodes
    <3>2. CASE k = Len(form[f].mine) + 1
      <4>1. \A l \in DOMAIN form[f].mine : m[l] # n
        BY <1>4, <2>4, <2>5
      <4> QED
        BY <1>4, <2>3, <2>4, <3>2, <4>1
    <3> QED
      BY <2>4, <3>1, <3>2
  <2>7. n # None
    BY <1>4, NoneIsNoForm
  <2>8. TakesNewCodes(form[f])'
    BY <1>2, <1>5, <1>6, <1>8, <2>6, <2>7 DEF TakesNewCodes
  <2>9. \A i \in DOMAIN codes : codes[i].code <= n
    BY <1>4, <2>2, <2>3
  <2> QED
    BY <1>2, <1>6, <2>8, <2>9 DEF OneTakesCodes, CodeFindsOneEntry
<1>10. CodesCounted'
  BY <1>2, <1>6, TakerIs, CountedStay
<1> QED
  BY <1>8, <1>9, <1>10 DEF RInv, WebInv

\* The codes of a request, as rows.
LEMMA CodeRowsAre ==
    ASSUME RInv, NEW f \in Forms, CommitCodes(f)
    PROVE  /\ codes' \in Seq(CodeRow) /\ Len(codes) \in Nat
           /\ DOMAIN codes = 1..Len(codes) /\ DOMAIN codes' = 1..Len(codes) + CodesEach
           /\ Len(codes') = Len(codes) + CodesEach
           /\ \A i \in 1..Len(codes) : codes'[i] = codes[i]
           /\ \A i \in Len(codes) + 1 .. Len(codes) + CodesEach :
                 /\ i - Len(codes) \in DOMAIN form[f].mine
                 /\ codes'[i].code = form[f].mine[i - Len(codes)]
                 /\ codes'[i].user = form[f].user
<1> DEFINE L == Len(codes)
<1>1. InCodes(f)
  BY DEF CommitCodes, InCodes
<1>2. PICK m \in Seq(Nat), u \in Nat : m = form[f].mine /\ u = form[f].user
  BY <1>1, TakerIs, UsersAre DEF RInv, IInv
<1>3. Len(m) = CodesEach /\ CodesEach \in Nat /\ DOMAIN m = 1..CodesEach
  <2>1. Len(m) = CodesEach
    BY <1>2 DEF CommitCodes
  <2> QED
    BY <2>1, WebBounds, LenProperties
<1>4. PICK rows : rows = [k \in 1..CodesEach |-> [code |-> m[k], user |-> u]]
  OBVIOUS
<1>5. codes' = codes \o rows
  BY <1>2, <1>3, <1>4 DEF CommitCodes, CodeRows
<1>6. /\ rows \in Seq(CodeRow) /\ Len(rows) = CodesEach
      /\ \A k \in 1..CodesEach : rows[k].code = m[k] /\ rows[k].user = u
  <2>1. \A k \in 1..CodesEach : m[k] \in Nat
    BY <1>3, ElementOfSeq
  <2>2. \A k \in 1..CodesEach : [code |-> m[k], user |-> u] \in CodeRow
    BY <2>1 DEF CodeRow
  <2>3. rows \in [1..CodesEach -> CodeRow]
    BY <1>4, <2>2
  <2>4. rows \in Seq(CodeRow)
    BY <1>3, <2>3, IsASeq
  <2>5. Len(rows) = CodesEach
    BY <1>3, <2>3, <2>4
  <2> QED
    BY <1>4, <2>4, <2>5
<1>7. codes \in Seq(CodeRow) /\ L \in Nat /\ DOMAIN codes = 1..L
  <2>1. codes \in Seq(CodeRow)
    BY <1>1, TakerIs
  <2> QED
    BY <2>1, LenProperties
<1>8. /\ codes' \in Seq(CodeRow) /\ Len(codes') = L + CodesEach
      /\ \A i \in 1..L + CodesEach : codes'[i] = IF i <= L THEN codes[i] ELSE rows[i - L]
  BY <1>5, <1>6, <1>7, ConcatProperties
<1>9. DOMAIN codes' = 1..L + CodesEach
  BY <1>8, LenProperties
<1>10. \A i \in 1..L : codes'[i] = codes[i]
  BY <1>3, <1>7, <1>8
<1>11. ASSUME NEW i \in L + 1 .. L + CodesEach
       PROVE  i - L \in 1..CodesEach /\ codes'[i] = rows[i - L]
  BY <1>3, <1>7, <1>8
<1> QED
  BY <1>2, <1>3, <1>6, <1>7, <1>8, <1>9, <1>10, <1>11

LEMMA TwoRanges ==
    ASSUME NEW L \in Nat, NEW C \in Nat
    PROVE  1..L + C = (1..L) \cup (L + 1 .. L + C) /\ \A i \in 1..L : i \notin L + 1 .. L + C
OBVIOUS

LEMMA RangeSize ==
    ASSUME NEW L \in Nat, NEW C \in Nat, C > 0
    PROVE  IsFiniteSet(L + 1 .. L + C) /\ Cardinality(L + 1 .. L + C) = C
<1>1. PICK a \in Int, b \in Int : a = L + 1 /\ b = L + C
  OBVIOUS
<1>2. IsFiniteSet(a..b) /\ Cardinality(a..b) = IF a > b THEN 0 ELSE b - a + 1
  BY FS_Interval
<1>3. ~(a > b) /\ b - a + 1 = C
  BY <1>1
<1> QED
  BY <1>1, <1>2, <1>3

\* They are its user's, and nobody else's.
LEMMA CodesOfCommitted ==
    ASSUME RInv, NEW f \in Forms, CommitCodes(f), NEW u
    PROVE  Cardinality(CodesOf(u)') =
               IF u = form[f].user THEN Cardinality(CodesOf(u)) + CodesEach
                                   ELSE Cardinality(CodesOf(u))
<1> DEFINE L == Len(codes)
           R == L + 1 .. L + CodesEach
<1>1. /\ L \in Nat /\ CodesEach \in Nat /\ DOMAIN codes = 1..L /\ DOMAIN codes' = (1..L) \cup R
      /\ \A i \in 1..L : codes'[i] = codes[i] /\ i \notin R
      /\ \A i \in R : codes'[i].user = form[f].user
  <2>1. L \in Nat /\ CodesEach \in Nat
    BY CodeRowsAre, WebBounds
  <2>2. 1..L + CodesEach = (1..L) \cup R /\ \A i \in 1..L : i \notin R
    BY <2>1, TwoRanges
  <2> QED
    BY <2>1, <2>2, CodeRowsAre
<1> HIDE DEF R
<1>2. /\ CodesOf(u) \subseteq 1..L /\ IsFiniteSet(CodesOf(u)) /\ Cardinality(CodesOf(u)) \in Nat
  BY CodesOfFinite DEF RInv, WebInv, WebTypes, OtherTypes
<1>3. CASE u = form[f].user
  <2>1. CodesOf(u)' = CodesOf(u) \cup R
    BY <1>1, <1>3 DEF CodesOf
  <2>2. CodesOf(u) \cap R = {}
    BY <1>1, <1>2
  <2>3. IsFiniteSet(R) /\ Cardinality(R) = CodesEach
    BY <1>1, WebBounds, RangeSize DEF R
  <2>4. Cardinality(CodesOf(u) \cup R) =
            Cardinality(CodesOf(u)) + Cardinality(R) - Cardinality(CodesOf(u) \cap R)
    BY <1>2, <2>3, FS_Union
  <2>5. Cardinality(CodesOf(u) \cap R) = 0
    BY <2>2, FS_EmptySet
  <2> QED
    BY <1>1, <1>2, <1>3, <2>1, <2>3, <2>4, <2>5
<1>4. CASE u # form[f].user
  <2>1. CodesOf(u)' = CodesOf(u)
    BY <1>1, <1>4 DEF CodesOf
  <2> QED
    BY <1>4, <2>1
<1> QED
  BY <1>3, <1>4

LEMMA CommitCodesKeeps ==
    ASSUME RInv, NEW f \in Forms, CommitCodes(f)
    PROVE  RInv'
<1> DEFINE L == Len(codes)
           m == form[f].mine
<1>1. form' = [form EXCEPT ![f] = [form[f] EXCEPT !.at = "finalize", !.mine = <<>>]]
  BY DEF CommitCodes
<1>2. InCodes(f)
  BY DEF CommitCodes, InCodes
<1>3. PICK r : r = [form[f] EXCEPT !.at = "finalize", !.mine = <<>>]
  OBVIOUS
<1>4. /\ Shape(r) /\ r.at = "finalize" /\ r.kind = form[f].kind
      /\ r.inv = form[f].inv /\ r.user = form[f].user
  BY <1>2, <1>3, ShapeEdits, TakerIs
<1>5. UNCHANGED <<users, held, invitation, expired, raced, dialog, restarts, counter, hands,
                  requests>>
  BY DEF CommitCodes, enrollVars, dialog
<1>6. /\ CodesGrow
      /\ \A i \in DOMAIN codes' : codes'[i].user \in 0..Len(users)
  <2>1. L \in Nat /\ CodesEach \in Nat /\ DOMAIN codes' = (1..L) \cup (L + 1 .. L + CodesEach)
    BY CodeRowsAre, WebBounds, TwoRanges
  <2>2. CodesGrow
    BY <2>1, CodeRowsAre DEF CodesGrow
  <2>3. form[f].user \in 0..Len(users) /\ \A i \in DOMAIN codes : codes[i].user \in 0..Len(users)
    BY <1>2, TakerIs
  <2> QED
    BY <2>1, <2>2, <2>3, CodeRowsAre
<1>7. CodeStep(f, r)
  BY <1>1, <1>2, <1>3, <1>4, <1>5, <1>6, TakerIs DEF CodeStep
<1>8. /\ IInv' /\ WebTypes' /\ Holders' /\ Made' /\ Admins'
      /\ form'[f] = r /\ OtherForms(f) /\ raced \subseteq raced'
  <2>1. ASSUME NEW n, n = r.user PROVE Cardinality(CodesOf(n)') >= CodesEach
    <3>1. Cardinality(CodesOf(n)') = Cardinality(CodesOf(n)) + CodesEach
      BY <1>4, <2>1, CodesOfCommitted
    <3>2. Cardinality(CodesOf(n)) \in Nat
      BY <1>2, TakerIs, CodesOfFinite
    <3> QED
      BY <3>1, <3>2, WebBounds
  <2> QED
    BY <1>6, <1>7, <2>1, CodeStepKeeps
<1>9. CodesDiffer'
  <2> SUFFICES ASSUME OneTakesCodes
               PROVE  /\ ~InCodes(f)'
                      /\ counter' # None => \A i \in DOMAIN codes' : codes'[i].code <= counter'
                      /\ CodeFindsOneEntry'
    BY <1>2, <1>8, OneGoesOn DEF RInv, WebInv
  <2>1. TakesNewCodes(form[f])
    BY <1>2 DEF OneTakesCodes
  <2>2. ~InCodes(f)'
    BY <1>4, <1>8 DEF InCodes, At
  <2>3. /\ L \in Nat /\ CodesEach \in Nat /\ DOMAIN codes' = (1..L) \cup (L + 1 .. L + CodesEach)
        /\ DOMAIN codes = 1..L /\ \A i \in 1..L : codes'[i] = codes[i] /\ codes[i].code \in Nat
    <3>1. L \in Nat /\ CodesEach \in Nat
      BY CodeRowsAre, WebBounds
    <3>2. DOMAIN codes = 1..L /\ \A i \in 1..L : codes'[i] = codes[i]
      BY CodeRowsAre
    <3>3. \A i \in DOMAIN codes : codes[i].code \in Nat
      BY <1>2, TakerIs
    <3> QED
      BY <3>1, <3>2, <3>3, CodeRowsAre, TwoRanges
  <2>4. \A i \in L + 1 .. L + CodesEach :
           i - L \in DOMAIN m /\ codes'[i].code = m[i - L]
    BY CodeRowsAre
  <2>5. counter' # None => \A i \in DOMAIN codes' : codes'[i].code <= counter'
    BY <1>5, <2>1, <2>3, <2>4 DEF TakesNewCodes, OneTakesCodes
  <2>6. CodeFindsOneEntry'
    <3> SUFFICES ASSUME NEW i \in DOMAIN codes', NEW j \in DOMAIN codes',
                        codes'[i].code = codes'[j].code
                 PROVE  i = j
      BY DEF CodeFindsOneEntry
    <3>0. ASSUME NEW k \in 1..L, NEW l \in L + 1 .. L + CodesEach
          PROVE  codes'[k].code # codes'[l].code
      <4>1. codes[k].code < m[l - L] /\ codes[k].code \in Nat /\ m[l - L] \in Nat
        <5>1. m \in Seq(Nat) /\ l - L \in DOMAIN m
          BY <1>2, <2>4, TakerIs
        <5>2. m[l - L] \in Nat
          BY <5>1
        <5> QED
          BY <2>1, <2>3, <2>4, <5>2 DEF TakesNewCodes
      <4> QED
        BY <2>3, <2>4, <4>1
    <3>1. CASE i \in 1..L /\ j \in 1..L
      BY <2>3, <3>1 DEF OneTakesCodes, CodeFindsOneEntry
    <3>2. CASE i \in L + 1 .. L + CodesEach /\ j \in L + 1 .. L + CodesEach
      <4>1. i - L = j - L
        BY <2>1, <2>4, <3>2 DEF TakesNewCodes
      <4> QED
        BY <2>3, <3>2, <4>1
    <3> QED
      BY <2>3, <3>0, <3>1, <3>2
  <2> QED
    BY <2>2, <2>5, <2>6
<1>10. CodesCounted'
  <2> SUFFICES ASSUME NEW u \in Nat \ {0}
               PROVE  \E k \in 0..Len(codes') : Cardinality(CodesOf(u)') = k * CodesEach
    BY DEF CodesCounted
  <2>1. PICK k \in 0..L : Cardinality(CodesOf(u)) = k * CodesEach
    BY DEF CodesCounted, RInv, WebInv
  <2>2. L \in Nat /\ CodesEach \in Nat /\ CodesEach > 0 /\ Len(codes') = L + CodesEach
    BY CodeRowsAre, WebBounds
  <2>3. CASE u = form[f].user
    <3>1. Cardinality(CodesOf(u)') = k * CodesEach + CodesEach
      BY <2>1, <2>3, CodesOfCommitted
    <3>2. k + 1 \in 0..Len(codes') /\ k \in Nat
      BY <2>2
    <3>3. (k + 1) * CodesEach = k * CodesEach + CodesEach
      BY <2>2, <3>2
    <3> QED
      BY <3>1, <3>2, <3>3
  <2>4. CASE u # form[f].user
    <3>1. k \in 0..Len(codes')
      BY <2>2
    <3> QED
      BY <2>1, <2>4, <3>1, CodesOfCommitted
  <2> QED
    BY <2>3, <2>4
<1> QED
  BY <1>8, <1>9, <1>10 DEF RInv, WebInv

-----------------------------------------------------------------------------
(* Requests that begin and end.                                            *)

\* What a message of IInv's holds is an address.
LEMMA MsgHolds ==
    ASSUME RInv, NEW w \in Workers, job[w] # None, job[w].user # None
    PROVE  /\ job[w].user \in Emails /\ job[w].user \in held \ Taken
           /\ MsgHas(w, job[w].user)
           /\ \A f \in Forms : ~FormHas(f, job[w].user)
<1>1. job[w].user \in held \ Taken /\ held \subseteq Emails
  BY DEF RInv, IInv, Unique, InsertsDiffer, EnrollTypeOK
<1>2. MsgHas(w, job[w].user)
  BY DEF MsgHas
<1> QED
  BY <1>1, <1>2 DEF RInv, WebInv, Holders, HeldByOne

\* A request that ends leaves its user and codes, if it had come to them.
LEMMA RequestEnds ==
    ASSUME RInv, NEW f \in Forms, form' = [form EXCEPT ![f] = None],
           UNCHANGED <<users, raced, counter, codes, hands, requests>>,
           Len(invitation') = Len(invitation)
    PROVE  /\ WebTypes' /\ HeldIsFree' /\ Admins' /\ CodesDiffer' /\ CodesCounted'
           /\ form'[f] = None /\ OtherForms(f)
<1>1. WebTypes /\ Len(users) \in Nat
  BY UsersAre DEF RInv, WebInv, IInv
<1>2. FormTypes' /\ form'[f] = None /\ OtherForms(f)
  <2>1. Len(users') \in Nat /\ Len(users) <= Len(users') /\ Len(invitation) = Len(invitation')
    BY <1>1
  <2>2. PICK r : r = None
    OBVIOUS
  <2> QED
    BY <1>1, <2>1, <2>2, RequestStep
<1>3. WebTypes'
  BY <1>1, <1>2 DEF WebTypes, OtherTypes, hands
<1>4. \A g \in Forms : form'[g] # None => form'[g] = form[g]
  BY <1>2 DEF OtherForms
<1>5. HeldIsFree'
  BY <1>4 DEF RInv, WebInv, Holders, HeldIsFree, At
<1>6. Admins'
  <2>1. \A g \in Forms : Deciding(g)' => Deciding(g) /\ form'[g].adds = form[g].adds
    BY <1>4 DEF Deciding, At
  <2>2. \A role \in {"NGO", "NGO_ADMIN"} : Have(role)' = Have(role)
    BY DEF Have
  <2> QED
    BY <2>1, <2>2, AdminsStay DEF RInv, WebInv, hands
<1>7. CodesDiffer' /\ CodesCounted'
  <2>1. \A g \in Forms : InCodes(g)' => InCodes(g) /\ form'[g] = form[g]
    BY <1>4 DEF InCodes, At
  <2> QED
    BY <2>1, CodesStay DEF RInv, WebInv
<1> QED
  BY <1>2, <1>3, <1>5, <1>6, <1>7

LEMMA FailKeeps ==
    ASSUME RInv, NEW f \in Forms, Fail(f)
    PROVE  RInv'
<1>1. /\ form[f] # None /\ form' = [form EXCEPT ![f] = None]
      /\ held' = IF At(f, "register") THEN held \ Addresses(f) ELSE held
      /\ UNCHANGED <<users, invitation, expired, raced, dialog, restarts, counter, codes, hands,
                     requests>>
  BY DEF Fail
<1>2. /\ WebTypes' /\ HeldIsFree' /\ Admins' /\ CodesDiffer' /\ CodesCounted'
      /\ form'[f] = None /\ OtherForms(f)
  BY <1>1, RequestEnds
<1>3. EnrollTypeOK /\ WebTypes /\ Made /\ codes \in Seq(CodeRow) /\ HeldIsWritten /\ HeldByOne
  BY DEF RInv, IInv, WebInv, WebTypes, OtherTypes, Holders
<1>4. IInv'
  <2>1. held' \subseteq Emails /\ raced \subseteq raced'
        /\ invitation' \in Seq([phone: Phones, activated: BOOLEAN])
    BY <1>1, <1>3 DEF EnrollTypeOK
  <2>2. ASSUME NEW w \in Workers, job[w] # None, job[w].user # None
        PROVE  job[w].user \in held'
    BY <1>1, <2>2, MsgHolds DEF FormHas
  <2> QED
    BY <1>1, <2>1, <2>2, EnrollSame DEF RInv
<1>5. HeldIsWritten' /\ HeldByOne'
  <2>1. \A e \in Emails : \A w \in Workers : MsgHas(w, e)' <=> MsgHas(w, e)
    BY <1>1 DEF MsgHas, dialog
  <2>2. \A e \in Emails : /\ \A g \in Forms \ {f} : FormHas(g, e)' <=> FormHas(g, e)
                          /\ ~FormHas(f, e)'
    BY <1>1, <1>2 DEF FormHas, At, Addresses, OtherForms
  <2>3. CASE At(f, "register")
    <3>1. Addresses(f) \in SUBSET Emails
      BY <1>1, <1>3, AddressesAre
    <3>2. \A e \in Emails : FormHas(f, e) <=> e \in Addresses(f)
      BY <2>3 DEF FormHas
    <3>3. held' = held \ Addresses(f)
      BY <1>1, <2>3
    <3> QED
      BY <1>3, <2>1, <2>2, <3>1, <3>2, <3>3, FormLetsGo
  <2>4. CASE ~At(f, "register")
    <3>1. \A e \in Emails : \A g \in Forms : FormHas(g, e)' <=> FormHas(g, e)
      BY <2>2, <2>4 DEF FormHas
    <3> QED
      BY <1>1, <1>3, <2>1, <2>4, <3>1, HoldersStay
  <2> QED
    BY <2>3, <2>4
<1>6. Made'
  <2>1. RowsGrow /\ CodesGrow
    BY <1>1, <1>3 DEF RowsGrow, CodesGrow
  <2>2. \A g \in Forms : Registered(g)' => Registered(g) /\ form'[g] = form[g]
                                           /\ (At(g, "finalize")' => At(g, "finalize"))
    BY <1>2 DEF Registered, InCodes, At, OtherForms
  <2> QED
    BY <1>1, <1>3, <2>1, <2>2, MadeKeeps
<1> QED
  BY <1>2, <1>4, <1>5, <1>6 DEF RInv, WebInv, Holders

\* The invitation that is used up is the one the request's user registered with.
LEMMA FinalizeKeeps ==
    ASSUME RInv, NEW f \in Forms, Finalize(f)
    PROVE  RInv'
<1>1. /\ form[f] # None /\ form[f].at = "finalize" /\ At(f, "finalize")
      /\ form' = [form EXCEPT ![f] = None]
      /\ UNCHANGED <<users, held, expired, raced, dialog, restarts, counter, codes, hands, requests>>
  BY DEF Finalize, At
<1>2. EnrollTypeOK /\ WebTypes /\ Made /\ codes \in Seq(CodeRow) /\ HeldIsWritten /\ HeldByOne
  BY DEF RInv, IInv, WebInv, WebTypes, OtherTypes, Holders
<1>3. PICK i : i = form[f].inv
  OBVIOUS
<1>4. \/ i = 0 /\ UNCHANGED invitation
      \/ i # 0 /\ invitation' = [invitation EXCEPT ![i].activated = TRUE]
  BY <1>3 DEF Finalize, Activate
<1>5. /\ invitation' \in Seq([phone: Phones, activated: BOOLEAN])
      /\ Len(invitation') = Len(invitation)
  <2>1. CASE i = 0
    BY <1>2, <1>4, <2>1 DEF EnrollTypeOK
  <2>2. CASE i # 0
    BY <1>2, <1>4, <2>2, ActivateType
  <2> QED
    BY <2>1, <2>2
<1>6. /\ WebTypes' /\ HeldIsFree' /\ Admins' /\ CodesDiffer' /\ CodesCounted'
      /\ form'[f] = None /\ OtherForms(f)
  BY <1>1, <1>5, RequestEnds
<1>7. IInv'
  <2>1. held' \subseteq Emails /\ raced \subseteq raced'
    BY <1>1, <1>2 DEF EnrollTypeOK
  <2>2. \A w \in Workers : job[w] # None /\ job[w].user # None => job[w].user \in held'
    BY <1>1, MsgHolds
  <2> QED
    BY <1>1, <1>5, <2>1, <2>2, EnrollSame DEF RInv
<1>8. HeldIsWritten' /\ HeldByOne'
  <2>1. \A e \in Emails : \A w \in Workers : MsgHas(w, e)' <=> MsgHas(w, e)
    BY <1>1 DEF MsgHas, dialog
  <2>2. \A e \in Emails : \A g \in Forms : FormHas(g, e)' <=> FormHas(g, e)
    BY <1>1, <1>6 DEF FormHas, At, Addresses, OtherForms
  <2> QED
    BY <1>1, <1>2, <2>1, <2>2, HoldersStay
<1>9. Made'
  <2>1. RowsGrow /\ CodesGrow
    BY <1>1, <1>2 DEF RowsGrow, CodesGrow
  <2>2. \A g \in Forms : Registered(g)' => Registered(g) /\ form'[g] = form[g]
                                           /\ (At(g, "finalize")' => At(g, "finalize"))
    BY <1>6 DEF Registered, InCodes, At, OtherForms
  <2>3. i # 0 => Used(i)
    <3>1. MadeBy(f)
      BY <1>1, <1>2 DEF Made, RegisteredHasUser, Registered
    <3>2. form[f].user \in DOMAIN users /\ form[f].kind \in Ways
      <4>1. form[f].user \in 0..Len(users) /\ form[f].user # 0 /\ form[f] \in Form
        BY <1>1, <1>2, FormIs DEF Shape
      <4>2. form[f].kind \in Ways
        BY <4>1 DEF Form, Kinds, Ways
      <4> QED
        BY <1>2, <4>1, <4>2, UsersAre
    <3> QED
      BY <1>1, <1>3, <3>1, <3>2 DEF MadeBy, Used
  <2>4. i # 0 => Used(i)'
    BY <1>2, <2>1, <2>3, UsedStays
  <2>5. ASSUME NEW k \in 1..Len(invitation'), invitation'[k].activated
        PROVE  (k \in 1..Len(invitation) /\ invitation[k].activated) \/ Used(k)'
    <3>1. CASE i # 0 /\ k = i
      BY <2>4, <3>1
    <3>2. CASE ~(i # 0 /\ k = i)
      <4>1. invitation'[k] = invitation[k]
        <5>1. k \in DOMAIN invitation
          BY <1>2, <1>5 DEF EnrollTypeOK
        <5> QED
          BY <1>4, <3>2, <5>1
      <4> QED
        BY <1>5, <2>5, <4>1
    <3> QED
      BY <3>1, <3>2
  <2> QED
    BY <1>2, <2>1, <2>2, <2>5, MadeKeeps
<1> QED
  BY <1>6, <1>7, <1>8, <1>9 DEF RInv, WebInv, Holders

LEMMA RoleIs ==
    ASSUME NEW kind \in Kinds
    PROVE  /\ RoleFor(kind) \in Roles
           /\ RoleFor(kind) \in {"NGO", "NGO_ADMIN"} => kind = "NGO"
           /\ kind = "NGO" => (RoleFor(kind) = "NGO_ADMIN" <=> Have("NGO_ADMIN") = {})
BY DEF RoleFor, Kinds, Roles

\* A request begins with the role that createUserRole finds.
LEMMA SubmitKeeps ==
    ASSUME RInv, NEW f \in Forms, NEW e \in Emails, NEW p \in Phones, NEW kind \in Kinds,
           NEW i \in 0..Len(invitation), NEW u \in 0..Len(users), Submit(f, e, p, kind, i, u)
    PROVE  RInv'
<1> DEFINE r == [at |-> "insert", kind |-> kind, inv |-> i, phone |-> p, email |-> e, user |-> u,
                 adds |-> {RoleFor(kind)} \ (IF u = 0 THEN {} ELSE users[u].roles),
                 local |-> 0, mine |-> <<>>]
<1>1. /\ form[f] = None /\ form' = [form EXCEPT ![f] = r]
      /\ requests < MaxRequests /\ requests' = requests + 1
      /\ raced' = IF /\ kind = "NGO"
                     /\ \E g \in Forms : (At(g, "insert") \/ At(g, "register"))
                                         /\ form[g].kind = "NGO"
                  THEN raced \cup {"admins"} ELSE raced
      /\ UNCHANGED <<users, held, invitation, expired, dialog, restarts, counter, codes, hands>>
  BY DEF Submit
<1>2. /\ EnrollTypeOK /\ WebTypes /\ Made /\ Admins /\ codes \in Seq(CodeRow)
      /\ HeldIsWritten /\ HeldByOne /\ HeldIsFree
      /\ Len(users) \in Nat
  BY UsersAre DEF RInv, IInv, WebInv, WebTypes, OtherTypes, Holders
<1>3. r.at = "insert" /\ r.kind = kind /\ r.inv = i /\ r.user = u /\ r.mine = <<>>
      /\ r.adds \subseteq {RoleFor(kind)}
  OBVIOUS
<1>4. Shape(r) /\ r # None
  <2>1. i \in 0..MaxInvitations /\ u \in Nat /\ 0 \in Nat
    BY <1>2, Bounds DEF EnrollTypeOK
  <2>2. r.adds \subseteq Roles
    BY <1>3, RoleIs
  <2>3. <<>> \in Seq(Nat)
    OBVIOUS
  <2>4. r \in Form
    BY <2>1, <2>2, <2>3 DEF Form
  <2>5. "NGO_ADMIN" \in r.adds \/ "NGO" \in r.adds => r.kind = "NGO"
    BY <1>3, RoleIs
  <2> HIDE DEF r
  <2> QED
    BY <1>3, <2>4, <2>5, NoneIsNoForm DEF Shape
<1>10. Have("NGO_ADMIN") = {} /\ kind = "NGO" => "NGO_ADMIN" \in r.adds
  <2> SUFFICES ASSUME Have("NGO_ADMIN") = {}, kind = "NGO" PROVE "NGO_ADMIN" \in r.adds
    OBVIOUS
  <2>1. RoleFor(kind) = "NGO_ADMIN"
    BY RoleIs
  <2>2. u # 0 => "NGO_ADMIN" \notin users[u].roles
    BY <1>2, UsersAre DEF Have
  <2> QED
    BY <2>1, <2>2
<1> HIDE DEF r
<1>5. FormTypes' /\ form'[f] = r /\ OtherForms(f)
  <2>1. /\ r # None => Shape(r) /\ r.user \in 0..Len(users') /\ r.inv <= Len(invitation')
        /\ Len(users') \in Nat /\ Len(users) <= Len(users')
        /\ Len(invitation) = Len(invitation')
    <3>1. r.user \in 0..Len(users') /\ r.inv <= Len(invitation')
      BY <1>1, <1>3
    <3> QED
      BY <1>1, <1>2, <1>4, <3>1
  <2> QED
    BY <1>1, <1>2, <2>1, RequestStep
<1>6. raced \subseteq raced' /\ raced' \subseteq Phones \cup {"codes", "digits", "admins"}
  BY <1>1, <1>2 DEF WebTypes, OtherTypes
<1>7. WebTypes'
  <2>1. requests' \in 0..MaxRequests
    BY <1>1, <1>2, WebBounds DEF WebTypes, OtherTypes
  <2> QED
    BY <1>1, <1>2, <1>5, <1>6, <2>1 DEF WebTypes, OtherTypes, hands
<1>8. \A g \in Forms : /\ g # f => form'[g] = form[g]
                       /\ ~At(f, "register")' /\ ~Registered(f)' /\ ~InCodes(f)'
                       /\ ~At(f, "register") /\ ~Deciding(f)
  BY <1>1, <1>3, <1>5 DEF OtherForms, At, Registered, InCodes, Deciding
<1>9. IInv'
  <2>1. held' \subseteq Emails /\ invitation' \in Seq([phone: Phones, activated: BOOLEAN])
        /\ Len(invitation') = Len(invitation)
    BY <1>1, <1>2 DEF EnrollTypeOK
  <2>2. \A w \in Workers : job[w] # None /\ job[w].user # None => job[w].user \in held'
    BY <1>1, MsgHolds
  <2> QED
    BY <1>1, <1>6, <2>1, <2>2, EnrollSame DEF RInv
<1>11. Holders'
  <2>1. \A d \in Emails : \A w \in Workers : MsgHas(w, d)' <=> MsgHas(w, d)
    BY <1>1 DEF MsgHas, dialog
  <2>2. \A d \in Emails : \A g \in Forms : FormHas(g, d)' <=> FormHas(g, d)
    BY <1>1, <1>8 DEF FormHas, At, Addresses
  <2>3. HeldIsFree'
    BY <1>1, <1>2, <1>8 DEF HeldIsFree, At
  <2> QED
    BY <1>1, <1>2, <2>1, <2>2, <2>3, HoldersStay DEF Holders
<1>12. Made'
  <2>1. RowsGrow /\ CodesGrow
    BY <1>1, <1>2 DEF RowsGrow, CodesGrow
  <2>2. \A g \in Forms : Registered(g)' => Registered(g) /\ form'[g] = form[g]
                                           /\ (At(g, "finalize")' => At(g, "finalize"))
    BY <1>8 DEF Registered, InCodes, At
  <2> QED
    BY <1>1, <1>2, <2>1, <2>2, MadeKeeps
<1>13. CodesDiffer' /\ CodesCounted'
  <2>1. \A g \in Forms : InCodes(g)' => InCodes(g) /\ form'[g] = form[g]
    BY <1>8 DEF InCodes, At
  <2> QED
    BY <1>1, <1>6, <2>1, CodesStay DEF RInv, WebInv
<1>14. Admins'
  <2>1. Have("NGO")' = Have("NGO") /\ Have("NGO_ADMIN")' = Have("NGO_ADMIN")
    BY <1>1 DEF Have
  <2>2. OneAdministrator'
    BY <1>1, <1>2, <1>6, <2>1 DEF Admins, OneAdministrator, hands
  <2>3. \A g \in Forms : Deciding(g)' => \/ g # f /\ Deciding(g) /\ form'[g] = form[g]
                                         \/ g = f /\ kind = "NGO"
    BY <1>3, <1>5, <1>8 DEF Deciding, At
  <2>4. ASSUME NEW g \in Forms, Deciding(g)', edits' = 0, "NGO_ADMIN" \notin form'[g].adds
        PROVE  Have("NGO_ADMIN")' # {}
    <3>1. CASE g = f
      BY <1>5, <1>10, <2>1, <2>3, <2>4, <3>1
    <3>2. CASE g # f
      BY <1>1, <1>2, <2>1, <2>3, <2>4, <3>2 DEF Admins, Decided, hands
    <3> QED
      BY <3>1, <3>2
  <2>5. ASSUME "admins" \notin raced'
        PROVE  /\ \A g, h \in Forms : Deciding(g)' /\ Deciding(h)' => g = h
               /\ \A g \in Forms : Deciding(g)' /\ "NGO_ADMIN" \in form'[g].adds =>
                     Cardinality(Have("NGO_ADMIN")') <= granted'
    <3>1. kind = "NGO" => \A g \in Forms : ~Deciding(g)
      BY <1>1, <2>5 DEF Deciding
    <3>2. "admins" \notin raced
      BY <1>6, <2>5
    <3>3. \A g, h \in Forms : Deciding(g)' /\ Deciding(h)' => g = h
      BY <1>2, <2>3, <3>1, <3>2 DEF Admins, Decided
    <3>4. ASSUME NEW g \in Forms, Deciding(g)', "NGO_ADMIN" \in form'[g].adds
          PROVE  Cardinality(Have("NGO_ADMIN")') <= granted'
      <4>1. CASE g = f
        <5>1. RoleFor(kind) = "NGO_ADMIN" /\ kind = "NGO"
          BY <1>3, <1>5, <2>3, <3>4, <4>1
        <5>2. Have("NGO_ADMIN") = {}
          BY <5>1, RoleIs
        <5>3. Cardinality(Have("NGO_ADMIN")') = 0
          BY <2>1, <5>2, FS_EmptySet
        <5>4. granted' \in Nat
          BY <1>7 DEF WebTypes, OtherTypes
        <5> QED
          BY <5>3, <5>4
      <4>2. CASE g # f
        BY <1>1, <1>2, <2>1, <2>3, <3>2, <3>4, <4>2 DEF Admins, Decided, hands
      <4> QED
        BY <4>1, <4>2
    <3> QED
      BY <3>3, <3>4
  <2>6. Decided'
    BY <2>4, <2>5 DEF Decided
  <2> QED
    BY <2>2, <2>6 DEF Admins
<1> QED
  BY <1>7, <1>9, <1>11, <1>12, <1>13, <1>14 DEF RInv, WebInv

\* save(user) holds addresses that nobody holds and no other row has.
LEMMA InsertWebUserKeeps ==
    ASSUME RInv, NEW f \in Forms, InsertWebUser(f)
    PROVE  RInv'
<1>1. /\ At(f, "insert") /\ form[f] # None /\ form[f].at = "insert"
      /\ Addresses(f) \cap held = {} /\ held' = held \cup Addresses(f)
      /\ \A u \in DOMAIN users : users[u].email = form[f].email => u = form[f].user
      /\ form' = [form EXCEPT ![f] = [form[f] EXCEPT !.at = "register"]]
      /\ UNCHANGED <<users, invitation, expired, raced, dialog, restarts, counter, codes, hands,
                     requests>>
  BY DEF InsertWebUser, At
<1>2. /\ EnrollTypeOK /\ WebTypes /\ Made /\ Admins /\ codes \in Seq(CodeRow)
      /\ HeldIsWritten /\ HeldByOne /\ HeldIsFree
      /\ Len(users) \in Nat
  BY UsersAre DEF RInv, IInv, WebInv, WebTypes, OtherTypes, Holders
<1>3. PICK r : r = [form[f] EXCEPT !.at = "register"]
  OBVIOUS
<1>4. /\ Shape(r) /\ r # None /\ r.at = "register" /\ r.kind = form[f].kind
      /\ r.email = form[f].email /\ r.adds = form[f].adds
      /\ r.user = form[f].user /\ r.user \in 0..Len(users)
      /\ r.inv = form[f].inv /\ r.inv <= Len(invitation)
  <2>1. /\ form[f] \in Form /\ Shape(form[f]) /\ form[f].user \in 0..Len(users)
        /\ form[f].inv <= Len(invitation)
    BY <1>1, <1>2, FormIs
  <2>2. r \in Form
    BY <1>3, <2>1, FormEdits
  <2>3. /\ r.at = "register" /\ r.kind = form[f].kind /\ r.mine = form[f].mine
        /\ r.email = form[f].email /\ r.adds = form[f].adds
        /\ r.user = form[f].user /\ r.inv = form[f].inv
    BY <1>3, <2>1 DEF Form
  <2> QED
    BY <1>1, <2>1, <2>2, <2>3, NoneIsNoForm DEF Shape
<1>5. FormTypes' /\ form'[f] = r /\ OtherForms(f)
  <2>1. /\ r # None => Shape(r) /\ r.user \in 0..Len(users') /\ r.inv <= Len(invitation')
        /\ Len(users') \in Nat /\ Len(users) <= Len(users')
        /\ Len(invitation) = Len(invitation')
    BY <1>1, <1>2, <1>4
  <2> QED
    BY <1>1, <1>2, <1>3, <2>1, RequestStep
<1>6. WebTypes'
  BY <1>1, <1>2, <1>5 DEF WebTypes, OtherTypes, hands
<1>7. /\ At(f, "register")' /\ ~Registered(f)' /\ ~InCodes(f)' /\ ~At(f, "register")
      /\ \A g \in Forms : g # f => form'[g] = form[g]
  BY <1>1, <1>4, <1>5 DEF OtherForms, At, Registered, InCodes
<1>8. Addresses(f) \in SUBSET Emails /\ Addresses(f)' = Addresses(f)
  BY <1>1, <1>2, <1>4, <1>5, AddressesAre DEF Addresses
<1>9. IInv'
  <2>1. held' \subseteq Emails /\ raced \subseteq raced'
        /\ invitation' \in Seq([phone: Phones, activated: BOOLEAN])
        /\ Len(invitation') = Len(invitation)
    BY <1>1, <1>2, <1>8 DEF EnrollTypeOK
  <2>2. \A w \in Workers : job[w] # None /\ job[w].user # None => job[w].user \in held'
    BY <1>1, MsgHolds
  <2> QED
    BY <1>1, <2>1, <2>2, EnrollSame DEF RInv
<1>10. Holders'
  <2>1. \A d \in Emails : \A w \in Workers : MsgHas(w, d)' <=> MsgHas(w, d)
    BY <1>1 DEF MsgHas, dialog
  <2>2. \A d \in Emails : \A g \in Forms \ {f} : FormHas(g, d)' <=> FormHas(g, d)
    BY <1>1, <1>7 DEF FormHas, At, Addresses
  <2>3. \A d \in Emails : (FormHas(f, d)' <=> d \in Addresses(f)) /\ ~FormHas(f, d)
    BY <1>7, <1>8 DEF FormHas
  <2>4. HeldIsWritten' /\ HeldByOne'
    BY <1>1, <1>2, <1>8, <2>1, <2>2, <2>3, FormTakes
  <2>5. HeldIsFree'
    BY <1>1, <1>2, <1>4, <1>5, <1>7 DEF HeldIsFree, At
  <2> QED
    BY <2>4, <2>5 DEF Holders
<1>11. Made'
  <2>1. RowsGrow /\ CodesGrow
    BY <1>1, <1>2 DEF RowsGrow, CodesGrow
  <2>2. \A g \in Forms : Registered(g)' => Registered(g) /\ form'[g] = form[g]
                                           /\ (At(g, "finalize")' => At(g, "finalize"))
    BY <1>7 DEF Registered, InCodes, At
  <2> QED
    BY <1>1, <1>2, <2>1, <2>2, MadeKeeps
<1>12. CodesDiffer' /\ CodesCounted'
  <2>1. \A g \in Forms : InCodes(g)' => InCodes(g) /\ form'[g] = form[g]
    BY <1>7 DEF InCodes, At
  <2> QED
    BY <1>1, <2>1, CodesStay DEF RInv, WebInv
<1>13. Admins'
  <2>1. \A role \in {"NGO", "NGO_ADMIN"} : Have(role)' = Have(role)
    BY <1>1 DEF Have
  <2>2. \A g \in Forms : Deciding(g)' => Deciding(g) /\ form'[g].adds = form[g].adds
    BY <1>1, <1>4, <1>5, <1>7 DEF Deciding, At
  <2> QED
    BY <1>1, <1>2, <2>1, <2>2, AdminsStay DEF hands
<1> QED
  BY <1>6, <1>9, <1>10, <1>11, <1>12, <1>13 DEF RInv, WebInv

\* The row that a request writes.
LEMMA CommittedRow ==
    ASSUME RInv, NEW f \in Forms, CommitWebUser(f),
           NEW k, k = (IF form[f].user = 0 THEN Len(users) + 1 ELSE form[f].user),
           NEW n, n = (IF form[f].user = 0 THEN WebUser(form[f])
                       ELSE WrittenOver(users[form[f].user], form[f]))
    PROVE  /\ Wrote(k, n)
           /\ n.email = form[f].email /\ n.by = "web" /\ FromForm(form[f]) \subseteq n.from
           /\ form[f].user # 0 => k \in DOMAIN users /\ k = form[f].user
           /\ form[f].user = 0 => k \notin DOMAIN users
           /\ k \in DOMAIN users => users[k].from \subseteq n.from
           /\ n.roles = form[f].adds \cup (IF k \in DOMAIN users THEN users[k].roles ELSE {})
<1> DEFINE r == form[f]
<1>1. r # None /\ EnrollTypeOK /\ WebTypes
  BY DEF CommitWebUser, At, RInv, IInv, WebInv
<1>2. /\ r \in Form /\ r.user \in 0..Len(users) /\ r.inv \in 0..MaxInvitations
      /\ r.email \in Emails /\ r.adds \subseteq Roles
  BY <1>1, FormIs
<1>3. r.phone \in Phones /\ r.kind \in Kinds
  BY <1>2 DEF Form
<1>4. FromForm(r) \subseteq (1..MaxInvitations) \X Ways
  <2>1. r.kind \in Ways
    BY <1>3 DEF Kinds, Ways
  <2>2. r.inv # 0 => r.inv \in 1..MaxInvitations
    BY <1>2, Bounds
  <2>3. CASE r.inv = 0
    BY <2>3 DEF FromForm
  <2>4. CASE r.inv # 0
    <3> DEFINE i == r.inv
               way == r.kind
    <3>1. FromForm(r) = {<<i, way>>}
      BY <2>4 DEF FromForm
    <3>2. i \in 1..MaxInvitations /\ way \in Ways
      BY <2>1, <2>2, <2>4
    <3> HIDE DEF i, way
    <3> QED
      BY <3>1, <3>2
  <2> QED
    BY <2>3, <2>4
<1>5. users' = IF r.user = 0 THEN Append(users, n) ELSE [users EXCEPT ![r.user] = n]
  BY DEF CommitWebUser
<1>6. Len(users) \in Nat /\ DOMAIN users = 1..Len(users)
  BY <1>1, UsersAre
<1>7. CASE r.user = 0
  <2>1. n = WebUser(r) /\ k = Len(users) + 1 /\ k \notin DOMAIN users
    BY <1>6, <1>7
  <2>2. n \in User
    BY <1>2, <1>3, <1>4, <2>1 DEF WebUser, User
  <2>3. Wrote(k, n)
    BY <1>1, <1>5, <1>7, <2>1, <2>2, Appended
  <2>4. n.email = r.email /\ n.by = "web" /\ n.from = FromForm(r) /\ n.roles = r.adds
    BY <2>1 DEF WebUser
  <2> QED
    BY <1>7, <2>1, <2>3, <2>4
<1>8. CASE r.user # 0
  <2>1. k = r.user /\ k \in DOMAIN users /\ n = WrittenOver(users[k], r)
    BY <1>2, <1>6, <1>8
  <2>2. users[k] \in User
    BY <1>1, <2>1, UsersAre
  <2>3. /\ n.email = r.email /\ n.by = "web" /\ n.from = users[k].from \cup FromForm(r)
        /\ n.roles = users[k].roles \cup r.adds
    BY <2>1 DEF WrittenOver
  <2>4. n \in User
    BY <1>2, <1>3, <1>4, <2>1, <2>2 DEF WrittenOver, User
  <2>5. Wrote(k, n)
    BY <1>1, <1>5, <1>8, <2>1, <2>4, Overwritten
  <2> QED
    BY <1>8, <2>1, <2>3, <2>5
<1> QED
  BY <1>7, <1>8

LEMMA CommitWebUserKeeps ==
    ASSUME RInv, NEW f \in Forms, CommitWebUser(f)
    PROVE  RInv'
<1>1. PICK k : k = IF form[f].user = 0 THEN Len(users) + 1 ELSE form[f].user
  OBVIOUS
<1>2. PICK n : n = IF form[f].user = 0 THEN WebUser(form[f])
                   ELSE WrittenOver(users[form[f].user], form[f])
  OBVIOUS
<1>3. PICK r : r = [form[f] EXCEPT !.at = IF form[f].kind = "CLIENT" THEN "codes" ELSE "finalize",
                                   !.user = k]
  OBVIOUS
<1>4. /\ At(f, "register") /\ form[f] # None /\ form[f].at = "register"
      /\ form' = [form EXCEPT ![f] = r]
      /\ held' = held \ Addresses(f)
      /\ raced' = IF form[f].kind = "CLIENT" /\ \E g \in Forms : InCodes(g)
                  THEN raced \cup {"codes"} ELSE raced
      /\ UNCHANGED <<invitation, expired, dialog, restarts, counter, codes, hands, requests>>
  BY <1>1, <1>3 DEF CommitWebUser, At
<1>5. /\ EnrollTypeOK /\ WebTypes /\ Made /\ Admins /\ codes \in Seq(CodeRow)
      /\ HeldIsWritten /\ HeldByOne /\ HeldIsFree
      /\ Len(users) \in Nat /\ DOMAIN users = 1..Len(users)
  BY UsersAre DEF RInv, IInv, WebInv, WebTypes, OtherTypes, Holders
<1>6. /\ Wrote(k, n)
      /\ n.email = form[f].email /\ n.by = "web" /\ FromForm(form[f]) \subseteq n.from
      /\ form[f].user # 0 => k \in DOMAIN users /\ k = form[f].user
      /\ form[f].user = 0 => k \notin DOMAIN users
      /\ k \in DOMAIN users => users[k].from \subseteq n.from
      /\ n.roles = form[f].adds \cup (IF k \in DOMAIN users THEN users[k].roles ELSE {})
  BY <1>1, <1>2, CommittedRow
<1>7. /\ k \in 1..Len(users') /\ k \in Nat /\ users'[k] = n
      /\ users' \in Seq(User) /\ Len(users') \in Nat /\ Len(users) <= Len(users')
      /\ DOMAIN users \subseteq DOMAIN users' /\ DOMAIN users' = DOMAIN users \cup {k}
  <2>1. users' \in Seq(User) /\ k \in DOMAIN users' /\ users'[k] = n /\ Len(users) <= Len(users')
        /\ DOMAIN users' = DOMAIN users \cup {k}
    BY <1>6 DEF Wrote
  <2>2. DOMAIN users' = 1..Len(users') /\ Len(users') \in Nat
    BY <2>1
  <2>3. k \in 1..Len(users') /\ k \in Nat
    BY <2>1, <2>2
  <2>4. DOMAIN users \subseteq DOMAIN users'
    BY <2>1
  <2> QED
    BY <2>1, <2>2, <2>3, <2>4
<1>8. /\ Shape(r) /\ r # None /\ r.at = (IF form[f].kind = "CLIENT" THEN "codes" ELSE "finalize")
      /\ r.kind = form[f].kind /\ r.mine = <<>> /\ r.user = k
      /\ r.inv = form[f].inv /\ r.inv <= Len(invitation)
  <2>1. form[f] \in Form /\ Shape(form[f]) /\ form[f].inv <= Len(invitation)
    BY <1>4, <1>5, FormIs
  <2>2. r \in Form
    BY <1>3, <1>7, <2>1, FormEdits
  <2>3. /\ r.at = (IF form[f].kind = "CLIENT" THEN "codes" ELSE "finalize")
        /\ r.kind = form[f].kind /\ r.mine = form[f].mine /\ r.user = k
        /\ r.inv = form[f].inv /\ r.adds = form[f].adds
    BY <1>3, <2>1 DEF Form
  <2> QED
    BY <1>4, <1>7, <2>1, <2>2, <2>3, NoneIsNoForm DEF Shape
<1>9. FormTypes' /\ form'[f] = r /\ OtherForms(f)
  <2>1. /\ r # None => Shape(r) /\ r.user \in 0..Len(users') /\ r.inv <= Len(invitation')
        /\ Len(invitation) = Len(invitation')
    BY <1>4, <1>7, <1>8
  <2> QED
    BY <1>4, <1>5, <1>7, <2>1, RequestStep
<1>10. raced \subseteq raced' /\ raced' \subseteq Phones \cup {"codes", "digits", "admins"}
  BY <1>4, <1>5 DEF WebTypes, OtherTypes
<1>11. WebTypes'
  <2>1. \A i \in DOMAIN codes : codes[i].user \in 0..Len(users')
    BY <1>5, <1>7 DEF WebTypes, OtherTypes
  <2> QED
    BY <1>4, <1>5, <1>9, <1>10, <2>1 DEF WebTypes, OtherTypes, hands
<1>12. /\ Addresses(f) \in SUBSET Emails
       /\ form[f].email \in Addresses(f)
       /\ k \in DOMAIN users => users[k].email \in Addresses(f)
       /\ \A e \in Emails : FormHas(f, e) <=> e \in Addresses(f)
  <2>1. Addresses(f) \in SUBSET Emails /\ form[f].email \in Addresses(f)
        /\ (k \in DOMAIN users => users[k].email \in Addresses(f))
    BY <1>4, <1>5, <1>6, AddressesAre
  <2> QED
    BY <1>4, <2>1 DEF FormHas
<1>13. \A w \in Workers : job[w] # None /\ job[w].user # None =>
          job[w].user \in held' /\ job[w].user # n.email
  BY <1>4, <1>6, <1>12, MsgHolds
<1>14. IInv'
  <2>1. held' \subseteq Emails
    BY <1>4, <1>5 DEF EnrollTypeOK
  <2>2. \A t \in DOMAIN users : users[t].email = n.email => t = k
    BY <1>4, <1>5, <1>6 DEF HeldIsFree
  <2> QED
    BY <1>4, <1>6, <1>10, <1>13, <2>1, <2>2, EnrollWrote DEF RInv
<1>15. /\ \A g \in Forms : g # f => form'[g] = form[g]
       /\ ~At(f, "register")' /\ ~At(f, "insert")' /\ ~Registered(f)
  BY <1>4, <1>8, <1>9 DEF OtherForms, At, Registered, InCodes
<1>16. ASSUME NEW g \in Forms, g # f, At(g, "register")
       PROVE  /\ Addresses(g)' = Addresses(g) /\ Addresses(g) \subseteq Emails
              /\ form[g].email \in Addresses(g) \ Addresses(f)
  <2>1. /\ form[g] # None /\ form'[g] = form[g] /\ Addresses(g) \subseteq Emails
        /\ form[g].email \in Addresses(g)
        /\ form[g].user # 0 => form[g].user \in DOMAIN users
                               /\ users[form[g].user].email \in Addresses(g)
    BY <1>5, <1>15, <1>16, AddressesAre DEF At
  <2>2. \A e \in Addresses(g) : e \notin Addresses(f)
    BY <1>5, <1>12, <1>16, <2>1 DEF HeldByOne, FormHas
  <2>3. form[g].user # 0 => users'[form[g].user].email = users[form[g].user].email
    BY <1>6, <1>12, <2>1, <2>2 DEF Wrote
  <2> QED
    BY <1>5, <1>7, <2>1, <2>2, <2>3, FormHasSame
<1>17. Holders'
  <2>1. \A e \in Emails : \A w \in Workers : MsgHas(w, e)' <=> MsgHas(w, e)
    BY <1>4 DEF MsgHas, dialog
  <2>2. \A e \in Emails : \A g \in Forms \ {f} : FormHas(g, e)' <=> FormHas(g, e)
    BY <1>15, <1>16 DEF FormHas, At
  <2>3. \A e \in Emails : ~FormHas(f, e)'
    BY <1>15 DEF FormHas
  <2>4. HeldIsWritten' /\ HeldByOne'
    BY <1>4, <1>5, <1>12, <2>1, <2>2, <2>3, FormLetsGo
  <2>5. HeldIsFree'
    <3> SUFFICES ASSUME NEW g \in Forms, At(g, "register")', NEW u \in DOMAIN users',
                        users'[u].email = form'[g].email
                 PROVE  u = form'[g].user
      BY DEF HeldIsFree
    <3>1. g # f /\ At(g, "register") /\ form'[g] = form[g]
      BY <1>15 DEF At
    <3>2. u # k
      BY <1>6, <1>7, <1>12, <1>16, <3>1
    <3> QED
      BY <1>5, <1>6, <1>7, <3>1, <3>2 DEF HeldIsFree, Wrote
  <2> QED
    BY <2>4, <2>5 DEF Holders
<1>18. Made'
  <2>1. RowsGrow
    BY <1>6 DEF RowsGrow, Wrote
  <2>2. CodesGrow
    BY <1>4, <1>5 DEF CodesGrow
  <2>3. \A g \in Forms : g # f /\ Registered(g)' => Registered(g) /\ form'[g] = form[g]
                                                   /\ (At(g, "finalize")' => At(g, "finalize"))
    BY <1>15 DEF Registered, InCodes, At
  <2>4. MadeBy(f)'
    <3>1. form[f].inv # 0 => <<form[f].inv, form[f].kind>> \in users'[k].from
      BY <1>6, <1>7 DEF FromForm
    <3>2. ~(At(f, "finalize")' /\ form'[f].kind = "CLIENT")
      BY <1>8, <1>9 DEF At
    <3> QED
      BY <1>8, <1>9, <3>1, <3>2 DEF MadeBy
  <2> QED
    BY <1>4, <1>5, <2>1, <2>2, <2>3, <2>4, MadeKeeps
<1>19. CodesCounted'
  BY <1>4, CountedStay DEF RInv, WebInv
<1>20. CodesDiffer'
  <2>1. CASE form[f].kind # "CLIENT"
    <3>1. \A g \in Forms : InCodes(g)' => InCodes(g) /\ form'[g] = form[g]
      BY <1>8, <1>9, <1>15, <2>1 DEF InCodes, At
    <3> QED
      BY <1>4, <1>10, <3>1, CodesStay DEF RInv, WebInv
  <2>2. CASE form[f].kind = "CLIENT"
    <3> SUFFICES ASSUME raced' \cap {"codes", "digits"} = {} PROVE OneTakesCodes'
      BY DEF CodesDiffer
    <3>1. OneTakesCodes
      BY <1>10 DEF CodesDiffer, RInv, WebInv
    <3>2. \A g \in Forms : InCodes(g)' => g = f
      BY <1>4, <1>15, <2>2 DEF InCodes, At
    <3>3. TakesNewCodes(form[f])'
      BY <1>8, <1>9, <2>2 DEF TakesNewCodes
    <3>4. (counter' # None => \A i \in DOMAIN codes' : codes'[i].code <= counter')
          /\ CodeFindsOneEntry'
      BY <1>4, <3>1 DEF OneTakesCodes, CodeFindsOneEntry
    <3> QED
      BY <3>2, <3>3, <3>4 DEF OneTakesCodes
  <2> QED
    BY <2>1, <2>2
<1>21. Admins'
  <2>1. \A g \in Forms : Deciding(g)' => g # f /\ Deciding(g) /\ form'[g].adds = form[g].adds
    BY <1>15 DEF Deciding, At
  <2>2. ASSUME NEW role
        PROVE  Have(role)' = Have(role) \cup (IF role \in form[f].adds THEN {k} ELSE {})
    <3>1. Have(role)' = (Have(role) \ {k}) \cup (IF role \in n.roles THEN {k} ELSE {})
      BY <1>6, HaveWrote
    <3>2. role \in n.roles <=> role \in form[f].adds \/ k \in Have(role)
      BY <1>6 DEF Have
    <3> QED
      BY <3>1, <3>2
  <2>3. CASE form[f].kind # "NGO"
    <3>1. "NGO" \notin form[f].adds /\ "NGO_ADMIN" \notin form[f].adds
      BY <1>4, <1>5, <2>3, FormIs DEF Shape
    <3>2. \A role \in {"NGO", "NGO_ADMIN"} : Have(role)' = Have(role)
      BY <2>2, <3>1
    <3> QED
      BY <1>4, <1>5, <1>10, <2>1, <3>2, AdminsStay DEF hands
  <2>4. CASE form[f].kind = "NGO"
    <3>1. Deciding(f) /\ raced' = raced
      BY <1>4, <2>4 DEF Deciding
    <3> DEFINE H == Have("NGO_ADMIN")
               I == Have("NGO_ADMIN")'
    <3>2. I = H \cup (IF "NGO_ADMIN" \in form[f].adds THEN {k} ELSE {})
      BY <2>2
    <3>3. granted \in Nat /\ granted' = granted /\ edits' = edits
      BY <1>4, <1>5 DEF WebTypes, OtherTypes, hands
    <3>4. Cardinality(I) <= 1 + granted' \/ "admins" \in raced'
      <4>1. IsFiniteSet(H) /\ Cardinality(H) \in Nat
        BY <1>5, HaveFinite
      <4>2. CASE "NGO_ADMIN" \in form[f].adds /\ "admins" \notin raced
        <5>1. Cardinality(H) <= granted
          BY <1>5, <3>1, <4>2 DEF Admins, Decided
        <5>2. I = H \cup {k}
          BY <3>2, <4>2
        <5>3. Cardinality(H \cup {k}) <= Cardinality(H) + 1
          <6>1. Cardinality(H \cup {k}) = IF k \in H THEN Cardinality(H) ELSE Cardinality(H) + 1
            BY <4>1, FS_AddElement
          <6> QED
            BY <4>1, <6>1
        <5>4. Cardinality(H \cup {k}) \in Nat
          BY <4>1, FS_AddElement, FS_CardinalityType
        <5> HIDE DEF H, I
        <5> QED
          BY <3>3, <4>1, <5>1, <5>2, <5>3, <5>4
      <4>3. CASE "NGO_ADMIN" \notin form[f].adds
        BY <1>5, <3>1, <3>2, <3>3, <4>3 DEF Admins, OneAdministrator
      <4> QED
        BY <3>1, <4>2, <4>3
    <3>5. edits = 0 => I # {}
      <4>1. edits = 0 /\ "NGO_ADMIN" \notin form[f].adds => H # {}
        BY <1>5, <3>1 DEF Admins, Decided
      <4> QED
        BY <3>2, <4>1
    <3>6. OneAdministrator'
      BY <3>3, <3>4, <3>5 DEF OneAdministrator
    <3>7. Decided'
      <4>1. "admins" \notin raced' => \A g \in Forms : ~Deciding(g)'
        BY <1>5, <2>1, <3>1 DEF Admins, Decided
      <4> QED
        BY <3>3, <3>5, <4>1 DEF Decided
    <3> QED
      BY <3>6, <3>7 DEF Admins
  <2> QED
    BY <2>3, <2>4
<1> QED
  BY <1>11, <1>14, <1>17, <1>18, <1>19, <1>20, <1>21 DEF RInv, WebInv

-----------------------------------------------------------------------------
(* Users and roles by hand.                                                *)

\* A row written by hand has an address that no transaction holds, or the one it had.
LEMMA HandWrites ==
    ASSUME RInv, NEW u, NEW n, Wrote(u, n),
           UNCHANGED <<held, invitation, expired, raced, dialog, restarts, form, counter, codes,
                       requests>>,
           edits < MaxEdits, edits' = edits + 1, granted' \in {granted, granted + 1},
           n.by = "sms" => /\ u \in DOMAIN users
                           /\ users[u].by = "sms"
                           /\ users[u].phone = n.phone /\ users[u].email = n.email,
           \A t \in DOMAIN users : users[t].email = n.email => t = u,
           n.email \in held => u \in DOMAIN users /\ n.email = users[u].email,
           u \in DOMAIN users => /\ users[u].from \subseteq n.from
                                 /\ users[u].email \in held => n.email = users[u].email,
           Cardinality(Have("NGO_ADMIN")') + granted <= Cardinality(Have("NGO_ADMIN")) + granted'
    PROVE  RInv'
<1>1. /\ EnrollTypeOK /\ WebTypes /\ Made /\ Admins /\ codes \in Seq(CodeRow)
      /\ HeldIsWritten /\ HeldByOne /\ HeldIsFree
      /\ Len(users) \in Nat
  BY UsersAre DEF RInv, IInv, WebInv, WebTypes, OtherTypes, Holders
<1>2. users' \in Seq(User) /\ Len(users') \in Nat /\ Len(users) <= Len(users')
      /\ DOMAIN users \subseteq DOMAIN users' /\ DOMAIN users' = DOMAIN users \cup {u}
      /\ users'[u] = n /\ \A t \in DOMAIN users \ {u} : users'[t] = users[t]
  <2>1. users' \in Seq(User) /\ Len(users) <= Len(users') /\ DOMAIN users' = DOMAIN users \cup {u}
        /\ users'[u] = n /\ \A t \in DOMAIN users \ {u} : users'[t] = users[t]
    BY DEF Wrote
  <2>2. Len(users') \in Nat
    BY <2>1
  <2>3. DOMAIN users \subseteq DOMAIN users'
    BY <2>1
  <2> QED
    BY <2>1, <2>2, <2>3
<1>3. WebTypes'
  <2>1. FormTypes'
    BY <1>1, <1>2 DEF WebTypes, FormTypes, Shape
  <2>2. \A i \in DOMAIN codes : codes[i].user \in 0..Len(users')
    BY <1>1, <1>2 DEF WebTypes, OtherTypes
  <2>3. granted' \in 0..edits' /\ edits' \in 0..MaxEdits
    BY <1>1, WebBounds DEF WebTypes, OtherTypes
  <2> QED
    BY <1>1, <2>1, <2>2, <2>3 DEF WebTypes, OtherTypes
<1>4. IInv'
  <2>1. held' \subseteq Emails /\ raced \subseteq raced'
    BY <1>1 DEF EnrollTypeOK
  <2>2. ASSUME NEW w \in Workers, job[w] # None, job[w].user # None
        PROVE  job[w].user \in held' /\ job[w].user # n.email
    <3>1. job[w].user \in held \ Taken
      BY <2>2, MsgHolds
    <3> QED
      BY <3>1 DEF Taken
  <2> QED
    BY <2>1, <2>2, EnrollWrote DEF RInv
<1>5. ASSUME NEW g \in Forms, At(g, "register")
      PROVE  /\ Addresses(g)' = Addresses(g)
             /\ form[g].email \in held
  <2>1. /\ form[g] # None /\ Addresses(g) \subseteq Emails /\ form[g].email \in Addresses(g)
        /\ form[g].user # 0 => /\ form[g].user \in DOMAIN users
                               /\ users[form[g].user].email \in Addresses(g)
    BY <1>1, <1>5, AddressesAre DEF At
  <2>2. \A e \in Addresses(g) : e \in held
    BY <1>1, <1>5, <2>1 DEF HeldIsWritten, FormHas
  <2>3. form[g].user # 0 => users'[form[g].user].email = users[form[g].user].email
    BY <1>2, <2>1, <2>2
  <2> QED
    BY <1>1, <1>2, <2>1, <2>2, <2>3, FormHasSame
<1>6. Holders'
  <2>1. \A e \in Emails : \A w \in Workers : MsgHas(w, e)' <=> MsgHas(w, e)
    BY DEF MsgHas, dialog
  <2>2. \A e \in Emails : \A g \in Forms : FormHas(g, e)' <=> FormHas(g, e)
    BY <1>5 DEF FormHas, At
  <2>3. HeldIsFree'
    <3> SUFFICES ASSUME NEW g \in Forms, At(g, "register"), NEW t \in DOMAIN users',
                        users'[t].email = form[g].email
                 PROVE  t = form[g].user
      BY DEF HeldIsFree, At
    <3>1. t \in DOMAIN users /\ users[t].email = form[g].email
      BY <1>2, <1>5
    <3> QED
      BY <1>1, <3>1 DEF HeldIsFree
  <2> QED
    BY <1>1, <2>1, <2>2, <2>3, HoldersStay DEF Holders
<1>7. Made'
  <2>1. RowsGrow /\ CodesGrow
    BY <1>1, <1>2 DEF RowsGrow, CodesGrow
  <2>2. \A g \in Forms : Registered(g)' => Registered(g) /\ form'[g] = form[g]
                                           /\ (At(g, "finalize")' => At(g, "finalize"))
    BY DEF Registered, InCodes, At
  <2> QED
    BY <1>1, <2>1, <2>2, MadeKeeps
<1>8. CodesDiffer' /\ CodesCounted'
  <2>1. \A g \in Forms : InCodes(g)' => InCodes(g) /\ form'[g] = form[g]
    BY DEF InCodes, At
  <2> QED
    BY <2>1, CodesStay DEF RInv, WebInv
<1>9. Admins'
  <2>1. EnrollTypeOK' /\ granted \in Nat /\ granted' \in Nat /\ edits' # 0
    BY <1>1, <1>3, <1>4, WebBounds DEF IInv, WebTypes, OtherTypes
  <2> QED
    BY <1>1, <2>1, AdminsByHand
<1> QED
  BY <1>3, <1>4, <1>6, <1>7, <1>8, <1>9 DEF RInv, WebInv

LEMMA GiveRoleKeeps ==
    ASSUME RInv, NEW u \in DOMAIN users, NEW role \in Roles, GiveRole(u, role)
    PROVE  RInv'
<1>1. PICK n : n = [users[u] EXCEPT !.roles = users[u].roles \cup {role}]
  OBVIOUS
<1>2. /\ edits < MaxEdits /\ edits' = edits + 1
      /\ users' = [users EXCEPT ![u] = n]
      /\ granted' = IF role = "NGO_ADMIN" THEN granted + 1 ELSE granted
      /\ UNCHANGED <<held, invitation, expired, raced, dialog, restarts, form, counter, codes,
                     requests>>
  BY <1>1 DEF GiveRole
<1>3. /\ EnrollTypeOK /\ Unique /\ users[u] \in User /\ granted \in Nat
      /\ Cardinality(Have("NGO_ADMIN")) \in Nat /\ IsFiniteSet(Have("NGO_ADMIN"))
  BY UsersAre, HaveFinite DEF RInv, IInv, WebInv, WebTypes, OtherTypes
<1>4. /\ n \in User /\ n.email = users[u].email /\ n.phone = users[u].phone
      /\ n.by = users[u].by /\ n.from = users[u].from /\ n.roles = users[u].roles \cup {role}
  BY <1>1, <1>3 DEF User
<1>5. Wrote(u, n)
  BY <1>2, <1>3, <1>4, Overwritten
<1>6. Cardinality(Have("NGO_ADMIN")') + granted <= Cardinality(Have("NGO_ADMIN")) + granted'
  <2>1. Have("NGO_ADMIN")' = Have("NGO_ADMIN") \cup (IF role = "NGO_ADMIN" THEN {u} ELSE {})
    <3>1. Have("NGO_ADMIN")' = (Have("NGO_ADMIN") \ {u})
                               \cup (IF "NGO_ADMIN" \in n.roles THEN {u} ELSE {})
      BY <1>5, HaveWrote
    <3>2. "NGO_ADMIN" \in n.roles <=> role = "NGO_ADMIN" \/ u \in Have("NGO_ADMIN")
      BY <1>4 DEF Have
    <3> QED
      BY <3>1, <3>2
  <2> DEFINE H == Have("NGO_ADMIN")
  <2>2. Cardinality(H \cup {u}) <= Cardinality(H) + 1 /\ Cardinality(H \cup {u}) \in Nat
    <3>1. Cardinality(H \cup {u}) = IF u \in H THEN Cardinality(H) ELSE Cardinality(H) + 1
      BY <1>3, FS_AddElement
    <3> QED
      BY <1>3, <3>1
  <2>3. CASE role = "NGO_ADMIN"
    <3>1. Have("NGO_ADMIN")' = H \cup {u} /\ granted' = granted + 1
      BY <1>2, <2>1, <2>3
    <3>2. PICK c : c = Cardinality(H)
      OBVIOUS
    <3>3. PICK d : d = Cardinality(H \cup {u})
      OBVIOUS
    <3>4. d + granted <= c + granted'
      <4>1. c \in Nat /\ d \in Nat /\ d <= c + 1 /\ granted \in Nat
        BY <1>3, <2>2, <3>2, <3>3
      <4> QED
        BY <3>1, <4>1
    <3>5. Cardinality(Have("NGO_ADMIN")') = d /\ Cardinality(Have("NGO_ADMIN")) = c
      BY <3>1, <3>2, <3>3
    <3> QED
      BY <3>4, <3>5
  <2>4. CASE role # "NGO_ADMIN"
    <3>1. Have("NGO_ADMIN")' = H /\ granted' = granted
      BY <1>2, <2>1, <2>4
    <3> QED
      BY <1>3, <3>1
  <2> QED
    BY <2>3, <2>4
<1>7. \A t \in DOMAIN users : users[t].email = n.email => t = u
  BY <1>3, <1>4 DEF Unique, RowsDiffer
<1>8. granted' \in {granted, granted + 1}
  BY <1>2
<1> QED
  BY <1>2, <1>4, <1>5, <1>6, <1>7, <1>8, HandWrites

LEMMA RemoveRolesKeeps ==
    ASSUME RInv, NEW u \in DOMAIN users, NEW roles, RemoveRoles(u, roles)
    PROVE  RInv'
<1>1. PICK n : n = [users[u] EXCEPT !.roles = users[u].roles \ roles]
  OBVIOUS
<1>2. /\ edits < MaxEdits /\ edits' = edits + 1
      /\ users' = [users EXCEPT ![u] = n]
      /\ UNCHANGED <<held, invitation, expired, raced, dialog, restarts, form, counter, codes,
                     granted, requests>>
  BY <1>1 DEF RemoveRoles
<1>3. /\ EnrollTypeOK /\ Unique /\ users[u] \in User /\ granted \in Nat
      /\ Cardinality(Have("NGO_ADMIN")) \in Nat /\ IsFiniteSet(Have("NGO_ADMIN"))
  BY UsersAre, HaveFinite DEF RInv, IInv, WebInv, WebTypes, OtherTypes
<1>4. /\ n \in User /\ n.email = users[u].email /\ n.phone = users[u].phone
      /\ n.by = users[u].by /\ n.from = users[u].from /\ n.roles = users[u].roles \ roles
  BY <1>1, <1>3 DEF User
<1>5. Wrote(u, n)
  BY <1>2, <1>3, <1>4, Overwritten
<1>6. Cardinality(Have("NGO_ADMIN")') + granted <= Cardinality(Have("NGO_ADMIN")) + granted'
  <2>1. Have("NGO_ADMIN")' \subseteq Have("NGO_ADMIN")
    <3>1. Have("NGO_ADMIN")' = (Have("NGO_ADMIN") \ {u})
                               \cup (IF "NGO_ADMIN" \in n.roles THEN {u} ELSE {})
      BY <1>5, HaveWrote
    <3>2. "NGO_ADMIN" \in n.roles => u \in Have("NGO_ADMIN")
      BY <1>4 DEF Have
    <3> QED
      BY <3>1, <3>2
  <2>2. Cardinality(Have("NGO_ADMIN")') <= Cardinality(Have("NGO_ADMIN"))
        /\ IsFiniteSet(Have("NGO_ADMIN")')
    BY <1>3, <2>1, FS_Subset
  <2>3. Cardinality(Have("NGO_ADMIN")') \in Nat
    BY <2>2, FS_CardinalityType
  <2> QED
    BY <1>2, <1>3, <2>2, <2>3
<1>7. \A t \in DOMAIN users : users[t].email = n.email => t = u
  BY <1>3, <1>4 DEF Unique, RowsDiffer
<1> QED
  BY <1>2, <1>4, <1>5, <1>6, <1>7, HandWrites

LEMMA SaveUserKeeps ==
    ASSUME RInv, NEW u \in 0..Len(users), NEW e \in Emails, NEW p \in Phones, SaveUser(u, e, p)
    PROVE  RInv'
<1>1. /\ edits < MaxEdits /\ edits' = edits + 1 /\ e \notin held
      /\ \A t \in DOMAIN users : users[t].email = e => t = u
      /\ UNCHANGED <<held, invitation, expired, raced, dialog, restarts, form, counter, codes,
                     granted, requests>>
  BY DEF SaveUser
<1>2. /\ EnrollTypeOK /\ granted \in Nat /\ Len(users) \in Nat
      /\ DOMAIN users = 1..Len(users)
      /\ Cardinality(Have("NGO_ADMIN")) \in Nat
  BY UsersAre, HaveFinite DEF RInv, IInv, WebInv, WebTypes, OtherTypes
<1>3. CASE u = 0
  <2> DEFINE m == [email |-> e, phone |-> p, from |-> {}, by |-> "web", roles |-> {}]
             k == Len(users) + 1
  <2>1. PICK n : n = m
    OBVIOUS
  <2>2. users' = Append(users, n) /\ k \notin DOMAIN users
    BY <1>2, <1>3, <2>1 DEF SaveUser
  <2>3. /\ n \in User /\ n.email = e /\ n.by = "web" /\ n.roles = {}
    BY <2>1 DEF User
  <2>4. Wrote(k, n)
    BY <1>2, <2>2, <2>3, Appended
  <2>5. \A t \in DOMAIN users : users[t].email # e
    BY <1>1, <1>2, <1>3
  <2>6. Have("NGO_ADMIN")' = Have("NGO_ADMIN")
    <3>1. Have("NGO_ADMIN")' = (Have("NGO_ADMIN") \ {k})
                               \cup (IF "NGO_ADMIN" \in n.roles THEN {k} ELSE {})
      BY <2>4, HaveWrote
    <3> QED
      BY <2>2, <2>3, <3>1 DEF Have
  <2>7. Cardinality(Have("NGO_ADMIN")') + granted <= Cardinality(Have("NGO_ADMIN")) + granted'
    BY <1>1, <1>2, <2>6
  <2> HIDE DEF m, k
  <2> QED
    BY <1>1, <2>2, <2>3, <2>4, <2>5, <2>7, HandWrites
<1>4. CASE u # 0
  <2>1. PICK n : n = [users[u] EXCEPT !.email = e, !.phone = p, !.by = "web"]
    OBVIOUS
  <2>2. /\ u \in DOMAIN users /\ users[u] \in User
        /\ users' = [users EXCEPT ![u] = n] /\ users[u].email \notin held
    BY <1>2, <1>4, <2>1, UsersAre DEF SaveUser
  <2>3. /\ n \in User /\ n.email = e /\ n.by = "web" /\ n.from = users[u].from
        /\ n.roles = users[u].roles
    BY <2>1, <2>2 DEF User
  <2>4. Wrote(u, n)
    BY <1>2, <2>2, <2>3, Overwritten
  <2>5. Have("NGO_ADMIN")' = Have("NGO_ADMIN")
    <3>1. Have("NGO_ADMIN")' = (Have("NGO_ADMIN") \ {u})
                               \cup (IF "NGO_ADMIN" \in n.roles THEN {u} ELSE {})
      BY <2>4, HaveWrote
    <3> QED
      BY <2>2, <2>3, <3>1 DEF Have
  <2>6. Cardinality(Have("NGO_ADMIN")') + granted <= Cardinality(Have("NGO_ADMIN")) + granted'
    BY <1>1, <1>2, <2>5
  <2> QED
    BY <1>1, <2>2, <2>3, <2>4, <2>6, HandWrites
<1> QED
  BY <1>3, <1>4

-----------------------------------------------------------------------------
(* Restarts and text messages.                                             *)

LEMMA RestartAllKeeps ==
    ASSUME RInv, RestartAll
    PROVE  RInv'
<1>1. /\ Restart /\ counter' = None /\ form' = [f \in Forms |-> None]
      /\ UNCHANGED <<codes, hands, requests>>
      /\ held' = {} /\ job' = [w \in Workers |-> None] /\ UNCHANGED <<users, invitation>>
      /\ raced' = raced \cup {p \in Phones : session[p] # None}
  BY DEF RestartAll, Restart
<1>2. /\ EnrollTypeOK /\ WebTypes /\ Made /\ Admins /\ codes \in Seq(CodeRow)
  BY DEF RInv, IInv, WebInv, WebTypes, OtherTypes
<1>3. IInv'
  BY <1>1, IInvStep DEF RInv, EnrollNext
<1>4. \A f \in Forms : form'[f] = None
  BY <1>1
<1>5. raced \subseteq raced' /\ raced' \subseteq Phones \cup {"codes", "digits", "admins"}
  BY <1>1, <1>2 DEF WebTypes, OtherTypes
<1>6. WebTypes'
  <2>1. FormTypes'
    BY <1>1, <1>4 DEF FormTypes
  <2> QED
    BY <1>1, <1>2, <1>5, <2>1 DEF WebTypes, OtherTypes, hands
<1>7. Holders'
  <2>1. (\A w \in Workers : job'[w] = None) /\ \A f \in Forms : ~At(f, "register")'
    BY <1>1, <1>4 DEF At
  <2> QED
    BY <1>1, <2>1 DEF Holders, HeldIsWritten, HeldByOne, HeldIsFree, MsgHas, FormHas
<1>8. Made'
  <2>1. RowsGrow /\ CodesGrow
    BY <1>1, <1>2 DEF RowsGrow, CodesGrow
  <2>2. \A f \in Forms : ~Registered(f)'
    BY <1>4 DEF Registered, InCodes, At
  <2> QED
    BY <1>1, <1>2, <2>1, <2>2, MadeKeeps
<1>9. Admins'
  <2>1. \A g \in Forms : ~Deciding(g)'
    BY <1>4 DEF Deciding, At
  <2>2. \A role \in {"NGO", "NGO_ADMIN"} : Have(role)' = Have(role)
    BY <1>1 DEF Have
  <2> QED
    BY <1>1, <1>2, <1>5, <2>1, <2>2, AdminsStay DEF hands
<1>10. CodesCounted'
  BY <1>1, CountedStay DEF RInv, WebInv
<1>11. CodesDiffer'
  <2> SUFFICES ASSUME raced' \cap {"codes", "digits"} = {} PROVE OneTakesCodes'
    BY DEF CodesDiffer
  <2>1. OneTakesCodes
    BY <1>5 DEF CodesDiffer, RInv, WebInv
  <2>2. \A f \in Forms : ~InCodes(f)'
    BY <1>4 DEF InCodes, At
  <2> QED
    BY <1>1, <2>1, <2>2 DEF OneTakesCodes, CodeFindsOneEntry
<1> QED
  BY <1>3, <1>6, <1>7, <1>8, <1>9, <1>10, <1>11 DEF RInv, WebInv

\* What text messages leave alone of the page.
LEMMA MessageKeepsForms ==
    ASSUME RInv, UNCHANGED webVars, EnrollTypeOK',
           raced \subseteq raced', raced' \subseteq raced \cup Phones,
           Len(users) <= Len(users'), Len(invitation) <= Len(invitation')
    PROVE  WebTypes' /\ CodesDiffer' /\ CodesCounted'
<1>1. UNCHANGED <<form, counter, codes, granted, edits, requests>>
  BY DEF webVars, hands
<1>2. /\ WebTypes /\ Len(users) \in Nat /\ Len(users') \in Nat
      /\ Len(invitation) \in Nat /\ Len(invitation') \in Nat
  <2>1. users' \in Seq(User) /\ invitation' \in Seq([phone: Phones, activated: BOOLEAN])
        /\ users \in Seq(User) /\ invitation \in Seq([phone: Phones, activated: BOOLEAN])
    BY DEF EnrollTypeOK, RInv, IInv
  <2>2. Len(users) \in Nat /\ Len(users') \in Nat
    BY <2>1
  <2>3. Len(invitation) \in Nat /\ Len(invitation') \in Nat
    BY <2>1
  <2> QED
    BY <2>2, <2>3 DEF RInv, WebInv
<1>3. FormTypes'
  <2> SUFFICES ASSUME NEW f \in Forms, form[f] # None
               PROVE  form[f].user \in 0..Len(users') /\ form[f].inv <= Len(invitation')
    BY <1>1, <1>2 DEF WebTypes, FormTypes, Shape
  <2>1. /\ form[f].user \in 0..Len(users) /\ form[f].inv <= Len(invitation)
        /\ form[f].inv \in 0..MaxInvitations
    BY <1>2, FormIs
  <2> QED
    BY <1>2, <2>1, Bounds
<1>4. WebTypes'
  <2>1. \A i \in DOMAIN codes : codes[i].user \in 0..Len(users')
    BY <1>2 DEF WebTypes, OtherTypes
  <2> QED
    BY <1>1, <1>2, <1>3, <2>1 DEF WebTypes, OtherTypes
<1>5. CodesDiffer' /\ CodesCounted'
  <2>1. \A g \in Forms : InCodes(g)' => InCodes(g) /\ form'[g] = form[g]
    BY <1>1 DEF InCodes, At
  <2> QED
    BY <1>1, <2>1, CodesStay DEF RInv, WebInv
<1> QED
  BY <1>4, <1>5

\* A step of a message that writes no row, and holds what it held.
LEMMA QuietMessage ==
    ASSUME RInv, IInv', UNCHANGED <<users, held, webVars>>,
           raced \subseteq raced', raced' \subseteq raced \cup Phones,
           Len(invitation) <= Len(invitation'),
           \A i \in 1..Len(invitation') : invitation'[i].activated =>
               i \in 1..Len(invitation) /\ invitation[i].activated,
           \A e \in Emails : \A w \in Workers : MsgHas(w, e)' <=> MsgHas(w, e)
    PROVE  RInv'
<1>1. /\ EnrollTypeOK /\ WebTypes /\ Made /\ Admins /\ codes \in Seq(CodeRow)
      /\ HeldIsWritten /\ HeldByOne /\ HeldIsFree /\ EnrollTypeOK' /\ Len(users) \in Nat
  BY UsersAre DEF RInv, IInv, WebInv, WebTypes, OtherTypes, Holders
<1>2. UNCHANGED <<form, counter, codes, granted, edits, requests>>
  BY DEF webVars, hands
<1>3. WebTypes' /\ CodesDiffer' /\ CodesCounted'
  BY <1>1, MessageKeepsForms
<1>4. Holders'
  <2>1. \A e \in Emails : \A f \in Forms : FormHas(f, e)' <=> FormHas(f, e)
    BY <1>2 DEF FormHas, At, Addresses
  <2>2. HeldIsFree'
    BY <1>1, <1>2 DEF HeldIsFree, At
  <2> QED
    BY <1>1, <2>1, <2>2, HoldersStay DEF Holders
<1>5. Made'
  <2>1. RowsGrow /\ CodesGrow
    BY <1>1, <1>2 DEF RowsGrow, CodesGrow
  <2>2. \A g \in Forms : Registered(g)' => Registered(g) /\ form'[g] = form[g]
                                           /\ (At(g, "finalize")' => At(g, "finalize"))
    BY <1>2 DEF Registered, InCodes, At
  <2> QED
    BY <1>1, <2>1, <2>2, MadeKeeps
<1>6. Admins'
  <2>1. \A role \in {"NGO", "NGO_ADMIN"} : Have(role)' = Have(role)
    BY DEF Have
  <2>2. \A g \in Forms : Deciding(g)' => Deciding(g) /\ form'[g].adds = form[g].adds
    BY <1>2 DEF Deciding, At
  <2> QED
    BY <1>1, <1>2, <2>1, <2>2, AdminsStay
<1> QED
  BY <1>3, <1>4, <1>5, <1>6 DEF RInv, WebInv

\* I ACCEPT holds an address that nobody holds.
LEMMA InsertUserHolds ==
    ASSUME RInv, IInv', UNCHANGED webVars, NEW w \in Workers, InsertUser(w), held' # held
    PROVE  RInv'
<1>0. PICK d : d = job[w].session.email
  OBVIOUS
<1>1. /\ job[w] # None /\ job[w].at = "accept" /\ d \notin held /\ d \notin Taken
      /\ job' = [job EXCEPT ![w] = [job[w] EXCEPT !.at = "commit", !.user = d]]
      /\ held' = held \cup {d}
      /\ UNCHANGED <<users, invitation, expired, raced>>
  BY <1>0 DEF InsertUser
<1>2. /\ EnrollTypeOK /\ WebTypes /\ Made /\ Admins /\ codes \in Seq(CodeRow)
      /\ HeldIsWritten /\ HeldByOne /\ HeldIsFree /\ EnrollTypeOK'
      /\ Len(users) \in Nat /\ Len(invitation) \in Nat /\ AcceptsAtEnd
  <2>1. invitation \in Seq([phone: Phones, activated: BOOLEAN])
    BY DEF EnrollTypeOK, RInv, IInv
  <2>2. Len(invitation) \in Nat
    BY <2>1
  <2> QED
    BY <2>2, UsersAre DEF RInv, IInv, WebInv, WebTypes, OtherTypes, Holders
<1>3. UNCHANGED <<form, counter, codes, granted, edits, requests>>
  BY DEF webVars, hands
<1>4. WebTypes' /\ CodesDiffer' /\ CodesCounted'
  BY <1>1, <1>2, MessageKeepsForms
<1>5. /\ job'[w] # None /\ job'[w].user = d /\ d \in Emails /\ job[w].user = None
      /\ \A x \in Workers : x # w => job'[x] = job[x]
  <2>1. /\ job[w] \in Job /\ job[w].user = None /\ job[w].session \in Session
        /\ job[w].session.step = "ACCEPT_POLICY"
    <3>1. job[w] \in Job /\ job[w].session # None
      BY <1>1, <1>2, JobOf DEF EnrollTypeOK
    <3> QED
      BY <1>1, <1>2, <3>1 DEF AcceptsAtEnd, Job
  <2>2. d \in Emails
    BY <1>0, <2>1 DEF Session, Steps, HasEmail
  <2>3. job'[w] = [job[w] EXCEPT !.at = "commit", !.user = d]
        /\ \A x \in Workers : x # w => job'[x] = job[x]
    BY <1>1, <1>2 DEF EnrollTypeOK
  <2>4. job'[w] \in Job
    BY <2>1, <2>2, <2>3, JobEdits
  <2>5. job'[w].user = d
    BY <2>1, <2>3 DEF Job
  <2> QED
    BY <2>1, <2>2, <2>3, <2>4, <2>5, NoneIsNoRow
<1>6. Holders'
  <2>1. \A e \in Emails : (MsgHas(w, e)' <=> e = d) /\ ~MsgHas(w, e)
    <3>1. None \notin Emails
      BY EnrollmentAssumption
    <3> QED
      BY <1>5, <3>1 DEF MsgHas
  <2>2. \A e \in Emails : \A x \in Workers \ {w} : MsgHas(x, e)' <=> MsgHas(x, e)
    BY <1>5 DEF MsgHas
  <2>3. \A e \in Emails : \A f \in Forms : FormHas(f, e)' <=> FormHas(f, e)
    BY <1>1, <1>3 DEF FormHas, At, Addresses
  <2>4. HeldIsWritten' /\ HeldByOne'
    BY <1>1, <1>2, <1>5, <2>1, <2>2, <2>3, MsgTakes
  <2>5. HeldIsFree'
    BY <1>1, <1>2, <1>3 DEF HeldIsFree, At
  <2> QED
    BY <2>4, <2>5 DEF Holders
<1>7. Made'
  <2>1. RowsGrow /\ CodesGrow
    BY <1>1, <1>2, <1>3 DEF RowsGrow, CodesGrow
  <2>2. \A g \in Forms : Registered(g)' => Registered(g) /\ form'[g] = form[g]
                                           /\ (At(g, "finalize")' => At(g, "finalize"))
    BY <1>3 DEF Registered, InCodes, At
  <2> QED
    BY <1>1, <1>2, <2>1, <2>2, MadeKeeps
<1>8. Admins'
  <2>1. \A role \in {"NGO", "NGO_ADMIN"} : Have(role)' = Have(role)
    BY <1>1 DEF Have
  <2>2. \A g \in Forms : Deciding(g)' => Deciding(g) /\ form'[g].adds = form[g].adds
    BY <1>3 DEF Deciding, At
  <2> QED
    BY <1>1, <1>2, <1>3, <2>1, <2>2, AdminsStay
<1> QED
  BY <1>4, <1>6, <1>7, <1>8 DEF RInv, WebInv

\* The commit of a user lets it go, and uses up the invitation.
LEMMA CommitUserLetsGo ==
    ASSUME RInv, IInv', UNCHANGED webVars, NEW w \in Workers, Commit(w), job[w].user # None
    PROVE  RInv'
<1>0. PICK d, i, k : d = job[w].user /\ i = job[w].newest /\ k = Len(users) + 1
  OBVIOUS
<1>1. PICK n : n = SmsUser(job[w])
  OBVIOUS
<1>2. /\ job[w] # None /\ users' = Append(users, n) /\ held' = held \ {d}
      /\ invitation' = [invitation EXCEPT ![i].activated = TRUE]
      /\ job' = [job EXCEPT ![w] = None] /\ UNCHANGED raced
  BY <1>0, <1>1 DEF Commit, Activate
<1>3. /\ EnrollTypeOK /\ WebTypes /\ Made /\ Admins /\ codes \in Seq(CodeRow)
      /\ HeldIsWritten /\ HeldByOne /\ HeldIsFree /\ EnrollTypeOK'
      /\ Len(users) \in Nat /\ DOMAIN users = 1..Len(users)
  BY UsersAre DEF RInv, IInv, WebInv, WebTypes, OtherTypes, Holders
<1>4. UNCHANGED <<form, counter, codes, granted, edits, requests>>
  BY DEF webVars, hands
<1>5. /\ n.email = d /\ n.from = {<<i, "SMS">>} /\ n.roles = {"CLIENT"} /\ d \in Emails
  BY <1>0, <1>1, <1>2, MsgHolds DEF SmsUser
<1>6. /\ users' \in Seq(User) /\ Len(users') = Len(users) + 1 /\ DOMAIN users' = DOMAIN users \cup {k}
      /\ users'[k] = n /\ k \notin DOMAIN users /\ \A t \in DOMAIN users : users'[t] = users[t]
  <2>1. users \in Seq(User) /\ users' \in Seq(User)
    BY <1>3 DEF EnrollTypeOK
  <2>2. Len(users') = Len(users) + 1 /\ users'[k] = n
        /\ \A t \in 1..Len(users) : users'[t] = users[t]
    BY <1>0, <1>2, <2>1
  <2>3. DOMAIN users' = 1..Len(users) + 1
    BY <2>1, <2>2
  <2>4. 1..Len(users) + 1 = (1..Len(users)) \cup {Len(users) + 1}
    BY <1>3
  <2> QED
    BY <1>0, <1>3, <2>1, <2>2, <2>3, <2>4
<1>7. Len(invitation') = Len(invitation) /\ Len(invitation) \in Nat
      /\ DOMAIN invitation = 1..Len(invitation)
      /\ \A m \in 1..Len(invitation) : m # i => invitation'[m] = invitation[m]
  <2>1. Len(invitation') = Len(invitation)
    BY <1>2, <1>3, ActivateType
  <2>2. invitation \in Seq([phone: Phones, activated: BOOLEAN])
    BY <1>3 DEF EnrollTypeOK
  <2>3. Len(invitation) \in Nat /\ DOMAIN invitation = 1..Len(invitation)
    BY <2>2
  <2> QED
    BY <1>2, <2>1, <2>3
<1>8. \A x \in Workers : x # w => job'[x] = job[x]
  BY <1>2, <1>3 DEF EnrollTypeOK
<1>9. job'[w] = None
  BY <1>2, <1>3 DEF EnrollTypeOK
<1>10. \A e \in Emails : MsgHas(w, e) <=> e = d
  BY <1>0, <1>2 DEF MsgHas
<1>11. \A x \in Workers : MsgHas(x, d) => x = w
  BY <1>0, <1>2 DEF RInv, IInv, Unique, InsertsDiffer, MsgHas
<1>12. WebTypes' /\ CodesDiffer' /\ CodesCounted'
  BY <1>2, <1>3, <1>6, <1>7, MessageKeepsForms
<1>13. \A f \in Forms : ~FormHas(f, d)
  BY <1>3, <1>5, <1>10 DEF HeldByOne
<1>14. \A f \in Forms : form[f] # None => Addresses(f)' = Addresses(f)
  <2> SUFFICES ASSUME NEW f \in Forms, form[f] # None PROVE Addresses(f)' = Addresses(f)
    OBVIOUS
  <2>1. form[f].user # 0 => form[f].user \in DOMAIN users
    BY <1>3, AddressesAre
  <2>2. form[f].user # 0 => users'[form[f].user].email = users[form[f].user].email
    BY <1>6, <2>1
  <2>3. DOMAIN users \subseteq DOMAIN users'
    BY <1>6
  <2>4. form'[f] = form[f]
    BY <1>4
  <2> QED
    BY <1>3, <1>6, <2>2, <2>3, <2>4, FormHasSame
<1>15. Holders'
  <2>1. \A e \in Emails : ~MsgHas(w, e)'
    BY <1>9 DEF MsgHas
  <2>2. \A e \in Emails : \A x \in Workers \ {w} : MsgHas(x, e)' <=> MsgHas(x, e)
    BY <1>8 DEF MsgHas
  <2>3. \A e \in Emails : \A f \in Forms : FormHas(f, e)' <=> FormHas(f, e)
    BY <1>4, <1>14 DEF FormHas, At
  <2>4. HeldIsWritten' /\ HeldByOne'
    BY <1>2, <1>3, <1>5, <1>10, <1>11, <2>1, <2>2, <2>3, MsgLetsGo
  <2>5. HeldIsFree'
    <3> SUFFICES ASSUME NEW f \in Forms, At(f, "register"), NEW t \in DOMAIN users',
                        users'[t].email = form[f].email
                 PROVE  t = form[f].user
      BY <1>4 DEF HeldIsFree, At
    <3>1. form[f].email # d
      <4>1. form[f].email \in Addresses(f)
        BY DEF Addresses
      <4> QED
        BY <1>13, <4>1 DEF FormHas
    <3>2. t \in DOMAIN users /\ users[t].email = form[f].email
      BY <1>5, <1>6, <3>1
    <3> QED
      BY <1>3, <3>2 DEF HeldIsFree
  <2> QED
    BY <2>4, <2>5 DEF Holders
<1>16. Made'
  <2>1. RowsGrow /\ CodesGrow
    BY <1>3, <1>4, <1>6 DEF RowsGrow, CodesGrow
  <2>2. \A g \in Forms : Registered(g)' => Registered(g) /\ form'[g] = form[g]
                                           /\ (At(g, "finalize")' => At(g, "finalize"))
    BY <1>4 DEF Registered, InCodes, At
  <2>3. Used(i)'
    <3>1. k \in DOMAIN users' /\ "SMS" \in Ways /\ <<i, "SMS">> \in users'[k].from
      BY <1>5, <1>6 DEF Ways
    <3> QED
      BY <3>1 DEF Used
  <2>4. ASSUME NEW m \in 1..Len(invitation'), invitation'[m].activated
        PROVE  (m \in 1..Len(invitation) /\ invitation[m].activated) \/ Used(m)'
    <3>1. CASE m = i
      BY <2>3, <3>1
    <3>2. CASE m # i
      BY <1>7, <2>4, <3>2
    <3> QED
      BY <3>1, <3>2
  <2> QED
    BY <1>3, <2>1, <2>2, <2>4, MadeKeeps
<1>17. Admins'
  <2>1. \A role \in {"NGO", "NGO_ADMIN"} : Have(role)' = Have(role)
    BY <1>5, <1>6 DEF Have
  <2>2. \A g \in Forms : Deciding(g)' => Deciding(g) /\ form'[g].adds = form[g].adds
    BY <1>4 DEF Deciding, At
  <2> QED
    BY <1>2, <1>3, <1>4, <2>1, <2>2, AdminsStay
<1> QED
  BY <1>12, <1>15, <1>16, <1>17 DEF RInv, WebInv

LEMMA MessageKeeps ==
    ASSUME RInv, UNCHANGED webVars, NEW w \in Workers, MessageStep(w)
    PROVE  RInv'
<1>1. IInv' /\ IInv
  BY IInvStep DEF RInv, EnrollNext
<1>2. /\ None \notin Emails /\ AcceptsAtEnd /\ EnrollTypeOK
      /\ Len(invitation) \in Nat
  <2>1. invitation \in Seq([phone: Phones, activated: BOOLEAN])
    BY <1>1 DEF EnrollTypeOK, IInv
  <2>2. Len(invitation) \in Nat
    BY <2>1
  <2> QED
    BY <1>1, <2>1, <2>2, EnrollmentAssumption DEF IInv
<1>3. CASE Commit(w) /\ job[w].user # None
  BY <1>1, <1>3, CommitUserLetsGo
<1>4. CASE InsertUser(w) /\ held' # held
  BY <1>1, <1>4, InsertUserHolds
<1>5. CASE Commit(w) /\ job[w].user = None
  <2>1. UNCHANGED <<users, held, invitation, raced>>
    BY <1>5 DEF Commit
  <2>2. job[w] # None /\ job'[w] = None /\ \A x \in Workers : x # w => job'[x] = job[x]
    BY <1>2, <1>5 DEF Commit, EnrollTypeOK
  <2>3. \A e \in Emails : \A x \in Workers : MsgHas(x, e)' <=> MsgHas(x, e)
    BY <1>2, <1>5, <2>2 DEF MsgHas
  <2> QED
    BY <1>1, <1>2, <2>1, <2>3, QuietMessage
<1>6. CASE InsertUser(w) /\ held' = held
  <2>1. UNCHANGED <<users, invitation, raced>> /\ job[w] # None /\ job[w].at = "accept"
    BY <1>6 DEF InsertUser
  <2>2. job' = [job EXCEPT ![w] = None]
    <3>1. job[w].session.email \notin held
      BY <1>6 DEF InsertUser
    <3> QED
      BY <1>6, <3>1 DEF InsertUser
  <2>3. job'[w] = None /\ job[w].user = None /\ \A x \in Workers : x # w => job'[x] = job[x]
    BY <1>2, <2>1, <2>2 DEF EnrollTypeOK, AcceptsAtEnd
  <2>4. \A e \in Emails : \A x \in Workers : MsgHas(x, e)' <=> MsgHas(x, e)
    BY <1>2, <2>3 DEF MsgHas
  <2> QED
    BY <1>1, <1>2, <1>6, <2>1, <2>4, QuietMessage
<1>7. CASE ~Commit(w) /\ ~InsertUser(w)
  <2>1. /\ Others(w) /\ UNCHANGED shared /\ job[w] # None /\ job[w].at # "commit"
        /\ job'[w] # None => job'[w].user = job[w].user
    BY <1>1, <1>7, OtherSteps
  <2>2. job[w].user = None
    BY <1>2, <2>1 DEF AcceptsAtEnd
  <2>3. \A e \in Emails : \A x \in Workers : MsgHas(x, e)' <=> MsgHas(x, e)
    BY <1>2, <2>1, <2>2 DEF MsgHas, Others
  <2>4. UNCHANGED <<users, held, invitation, raced>>
    BY <2>1 DEF shared
  <2> QED
    BY <1>1, <1>2, <2>3, <2>4, QuietMessage
<1> QED
  BY <1>3, <1>4, <1>5, <1>6, <1>7

LEMMA EnvironmentKeeps ==
    ASSUME RInv, UNCHANGED webVars, Environment
    PROVE  RInv'
<1>1. IInv' /\ IInv
  BY IInvStep DEF RInv, EnrollNext
<1>2. /\ None \notin Emails /\ EnrollTypeOK
      /\ invitation \in Seq([phone: Phones, activated: BOOLEAN]) /\ Len(invitation) \in Nat
  <2>1. invitation \in Seq([phone: Phones, activated: BOOLEAN])
    BY <1>1 DEF EnrollTypeOK, IInv
  <2>2. Len(invitation) \in Nat
    BY <2>1
  <2> QED
    BY <1>1, <2>1, <2>2, EnrollmentAssumption DEF IInv
<1>3. ASSUME NEW w \in Workers, NEW p \in Phones, NEW t \in Texts, Receive(w, p, t)
      PROVE  RInv'
  <2>1. UNCHANGED <<users, held, invitation>> /\ raced \subseteq raced'
        /\ raced' \subseteq raced \cup Phones
    BY <1>3 DEF Receive
  <2>2. /\ job[w] = None /\ job'[w].user = None
        /\ \A x \in Workers : x # w => job'[x] = job[x]
    BY <1>2, <1>3 DEF Receive, EnrollTypeOK
  <2>3. \A e \in Emails : \A x \in Workers : MsgHas(x, e)' <=> MsgHas(x, e)
    BY <1>2, <2>2 DEF MsgHas
  <2> QED
    BY <1>1, <1>2, <2>1, <2>3, QuietMessage
<1>4. ASSUME NEW p \in Phones, Invite(p) PROVE RInv'
  <2>1. UNCHANGED <<users, held, raced, dialog>>
    BY <1>4 DEF Invite
  <2>2. PICK n : n = [phone |-> p, activated |-> FALSE]
    OBVIOUS
  <2>3. invitation' = Append(invitation, n) /\ n.activated = FALSE
    BY <1>4, <2>2 DEF Invite
  <2>4. Len(invitation') = Len(invitation) + 1
        /\ invitation'[Len(invitation) + 1] = n
        /\ \A i \in 1..Len(invitation) : invitation'[i] = invitation[i]
    BY <1>2, <2>3
  <2>5. \A i \in 1..Len(invitation') : i \in 1..Len(invitation) \/ i = Len(invitation) + 1
    BY <1>2, <2>4
  <2>6. \A i \in 1..Len(invitation') : invitation'[i].activated =>
            i \in 1..Len(invitation) /\ invitation[i].activated
    BY <2>3, <2>4, <2>5
  <2>7. Len(invitation) <= Len(invitation')
    BY <1>2, <2>4
  <2>8. \A e \in Emails : \A x \in Workers : MsgHas(x, e)' <=> MsgHas(x, e)
    BY <2>1 DEF MsgHas, dialog
  <2> QED
    BY <1>1, <2>1, <2>6, <2>7, <2>8, QuietMessage
<1>5. ASSUME NEW p \in Phones, LoseSession(p) PROVE RInv'
  <2>1. UNCHANGED <<users, held, invitation, job>> /\ raced' = raced \cup {p}
    BY <1>5 DEF LoseSession
  <2>2. \A e \in Emails : \A x \in Workers : MsgHas(x, e)' <=> MsgHas(x, e)
    BY <2>1 DEF MsgHas
  <2> QED
    BY <1>1, <1>2, <2>1, <2>2, QuietMessage
<1>6. CASE LapseInvitation
  <2>1. UNCHANGED <<users, held, invitation, raced, dialog>>
    BY <1>6 DEF LapseInvitation
  <2>2. \A e \in Emails : \A x \in Workers : MsgHas(x, e)' <=> MsgHas(x, e)
    BY <2>1 DEF MsgHas, dialog
  <2> QED
    BY <1>1, <1>2, <2>1, <2>2, QuietMessage
<1> QED
  BY <1>3, <1>4, <1>5, <1>6 DEF Environment

-----------------------------------------------------------------------------
(* The theorems.                                                           *)

LEMMA RInvInit == Init => RInv
<1> SUFFICES ASSUME Init PROVE RInv
  OBVIOUS
<1>1. /\ EnrollInit /\ users = <<>> /\ held = {} /\ invitation = <<>> /\ raced = {}
      /\ \A w \in Workers : job[w] = None
      /\ form = [f \in Forms |-> None] /\ \A f \in Forms : form[f] = None
      /\ counter = None /\ granted = 0 /\ edits = 0 /\ requests = 0
  BY DEF Init, EnrollInit
<1>2. IInv
  BY <1>1, IInvInit
<1>3. /\ codes \in Seq(CodeRow)
      /\ \A i \in DOMAIN codes : codes[i].user = 0
      /\ CodeFindsOneEntry
  <2>1. OldCodes \subseteq Nat /\ Cardinality(OldCodes) \in Nat
    BY RegistrationAssumption, FS_CardinalityType
  <2>2. codes \in [1..Cardinality(OldCodes) -> [code: OldCodes, user: {0}]]
    BY DEF Init
  <2>3. ASSUME NEW r \in [code: OldCodes, user: {0}] PROVE r \in CodeRow /\ r.user = 0
    <3>1. r = [code |-> r.code, user |-> r.user] /\ r.code \in OldCodes /\ r.user = 0
      OBVIOUS
    <3>2. r.code \in Nat
      <4>1. \A n \in OldCodes : n \in Nat
        BY <2>1
      <4> QED
        BY <3>1, <4>1
    <3>3. r.user \in Nat
      <4>1. 0 \in Nat
        OBVIOUS
      <4> QED
        BY <3>1, <4>1, Zenon
    <3> QED
      BY <3>1, <3>2, <3>3 DEF CodeRow
  <2>4. codes \in [1..Cardinality(OldCodes) -> CodeRow]
    BY <2>2, <2>3
  <2>5. codes \in Seq(CodeRow)
    BY <2>1, <2>4
  <2>6. \A i \in DOMAIN codes : codes[i].user = 0
    BY <2>2, <2>3
  <2>7. CodeFindsOneEntry
    BY DEF Init, CodeFindsOneEntry
  <2> QED
    BY <2>5, <2>6, <2>7
<1>4. WebTypes
  <2>1. FormTypes
    BY <1>1 DEF FormTypes
  <2>2. Len(users) = 0
    BY <1>1
  <2> QED
    BY <1>1, <1>3, <2>1, <2>2, WebBounds DEF WebTypes, OtherTypes
<1>5. /\ \A f \in Forms : ~At(f, "register") /\ ~Registered(f) /\ ~Deciding(f) /\ ~InCodes(f)
      /\ DOMAIN users = {} /\ 1..Len(invitation) = {}
  BY <1>1 DEF At, Registered, Deciding, InCodes
<1>6. Holders
  BY <1>1, <1>5 DEF Holders, HeldIsWritten, HeldByOne, HeldIsFree, MsgHas, FormHas
<1>7. Made
  BY <1>5 DEF Made, RegisteredHasUser, ActivatedHasUser
<1>8. Admins
  <2>1. Have("NGO") = {} /\ Have("NGO_ADMIN") = {}
    BY <1>5 DEF Have
  <2>2. Cardinality(Have("NGO_ADMIN")) = 0
    BY <2>1, FS_EmptySet
  <2>3. Cardinality(Have("NGO_ADMIN")) <= 1 + granted
    BY <1>1, <2>2
  <2> QED
    BY <1>1, <1>5, <2>1, <2>3 DEF Admins, OneAdministrator, Decided
<1>9. CodesDiffer
  BY <1>1, <1>3, <1>5 DEF CodesDiffer, OneTakesCodes
<1>10. CodesCounted
  <2> SUFFICES ASSUME NEW u \in Nat \ {0}
               PROVE  \E k \in 0..Len(codes) : Cardinality(CodesOf(u)) = k * CodesEach
    BY DEF CodesCounted
  <2>1. CodesOf(u) = {}
    BY <1>3 DEF CodesOf
  <2>2. Cardinality(CodesOf(u)) = 0 * CodesEach
    BY <2>1, FS_EmptySet, WebBounds
  <2>3. 0 \in 0..Len(codes)
    BY <1>3
  <2> QED
    BY <2>2, <2>3
<1> QED
  BY <1>2, <1>4, <1>6, <1>7, <1>8, <1>9, <1>10 DEF RInv, WebInv

LEMMA RInvStep == RInv /\ [Next /\ Busy]_vars => RInv'
<1> SUFFICES ASSUME RInv, [Next]_vars PROVE RInv'
  OBVIOUS
<1>1. CASE UNCHANGED vars
  <2>1. IInv'
    BY <1>1, IInvStep DEF RInv, vars
  <2>2. UNCHANGED <<users, held, invitation, raced, webVars, dialog>>
    BY <1>1 DEF vars, enrollVars, dialog
  <2>3. \A e \in Emails : \A x \in Workers : MsgHas(x, e)' <=> MsgHas(x, e)
    BY <2>2 DEF MsgHas, dialog
  <2>4. Len(invitation) <= Len(invitation')
    <3>1. invitation \in Seq([phone: Phones, activated: BOOLEAN])
      BY DEF RInv, IInv, EnrollTypeOK
    <3>2. Len(invitation) \in Nat
      BY <3>1
    <3> QED
      BY <2>2, <3>2
  <2> QED
    BY <2>1, <2>2, <2>3, <2>4, QuietMessage
<1>2. CASE RestartAll
  BY <1>2, RestartAllKeeps
<1>3. CASE Environment /\ UNCHANGED webVars
  BY <1>3, EnvironmentKeeps
<1>4. ASSUME NEW w \in Workers, MessageStep(w), UNCHANGED webVars PROVE RInv'
  BY <1>4, MessageKeeps
<1>5. ASSUME NEW f \in Forms, FormStep(f) PROVE RInv'
  BY <1>5, InsertWebUserKeeps, CommitWebUserKeeps, ReadTableKeeps, SetCounterKeeps,
     ReadCounterKeeps, TakeCodeKeeps, CommitCodesKeeps, FinalizeKeeps, FailKeeps DEF FormStep
<1>6. ASSUME NEW f \in Forms, NEW e \in Emails, NEW p \in Phones, NEW kind \in Kinds,
             NEW i \in 0..Len(invitation), NEW u \in 0..Len(users), Submit(f, e, p, kind, i, u)
      PROVE  RInv'
  BY <1>6, SubmitKeeps
<1>7. CASE Edit
  <2>1. ASSUME NEW u \in DOMAIN users, NEW role \in Roles, GiveRole(u, role) PROVE RInv'
    BY <2>1, GiveRoleKeeps
  <2>2. ASSUME NEW u \in DOMAIN users, NEW roles, RemoveRoles(u, roles) PROVE RInv'
    BY <2>2, RemoveRolesKeeps
  <2>3. ASSUME NEW u \in 0..Len(users), NEW e \in Emails, NEW p \in Phones, SaveUser(u, e, p)
        PROVE  RInv'
    BY <2>3, SaveUserKeeps
  <2> QED
    BY <1>7, <2>1, <2>2, <2>3 DEF Edit
<1> QED
  BY <1>1, <1>2, <1>3, <1>4, <1>5, <1>6, <1>7 DEF Next

LEMMA Always == Spec => []RInv
BY RInvInit, RInvStep, PTL DEF Spec

\* Every reachable state has the shape of users, invitations, requests and codes, and
\* the e-mail addresses that are held are those of open transactions, of registerUser
\* and of text messages.
THEOREM RegistrationTypeCorrect == Spec => []TypeOK
<1>1. RInv => TypeOK
  <2> SUFFICES ASSUME RInv PROVE TypeOK
    OBVIOUS
  <2>1. EnrollTypeOK /\ WebTypes /\ HeldIsWritten
    BY DEF RInv, IInv, WebInv, Holders
  <2>2. held = {e \in Emails : \/ \E w \in Workers : job[w] # None /\ job[w].user = e
                              \/ \E f \in Forms : At(f, "register") /\ e \in Addresses(f)}
    BY <2>1 DEF HeldIsWritten, MsgHas, FormHas
  <2> QED
    BY <2>1, <2>2 DEF TypeOK, WebTypes, FormTypes, OtherTypes
<1> QED
  BY <1>1, Always, PTL

\* What ConfirmedUsers says of enrolling by text message stays true next to the web
\* page and edits by hand, for each user whose row they have not written since: the
\* address there is one that the user's phone confirmed (UserAsConfirmed).
THEOREM UsersAsConfirmed == Spec => []UserAsConfirmed
<1>1. RInv => UserAsConfirmed
  BY DEF RInv, IInv, Confirmed
<1> QED
  BY <1>1, Always, PTL

\* An invitation is only used up when a user registered with it, who has all activation
\* codes if the page registered a client: whatever requests fail, wherever the process
\* ends, whichever rows are written over and whichever roles go away.
THEOREM UsedInvitations == Spec => []ActivatedHasUser
<1>1. RInv => ActivatedHasUser
  BY DEF RInv, WebInv, Made
<1> QED
  BY <1>1, Always, PTL

\* createUserRole makes one administrator at most, beside those made by hand, unless two
\* requests for NGO users are served at once, and with no edits by hand none of the NGO
\* users is without one, however many requests fail.
THEOREM NgoHasOneAdministrator == Spec => []OneAdministrator
<1>1. RInv => OneAdministrator
  BY DEF RInv, WebInv, Admins
<1> QED
  BY <1>1, Always, PTL

\* saveActivationCodes gives no code to two users through any number of failures and
\* restarts, unless two requests take codes at once or the greatest code as a text is
\* not the greatest number where a process reads the table.
THEOREM CodesAreOfOneUser == Spec => []CodeOfOneUser
<1>1. RInv => CodeOfOneUser
  BY DEF RInv, WebInv, CodesDiffer, OneTakesCodes, CodeOfOneUser
<1> QED
  BY <1>1, Always, PTL

\* A registration's activation codes are all there or none of them, wherever
\* registerUser stops, and a client's are there before the invitation is used up.
THEOREM ClientsHaveCodes == Spec => []ClientHasCodes
<1>1. RInv => ClientHasCodes
  <2> SUFFICES ASSUME RInv PROVE ClientHasCodes
    OBVIOUS
  <2>1. EnrollTypeOK /\ WebTypes /\ RegisteredHasUser /\ CodesCounted
    BY DEF RInv, IInv, WebInv, Made
  <2>2. \A u \in DOMAIN users : u \in Nat \ {0}
    BY <2>1, UsersAre
  <2>3. ASSUME NEW f \in Forms, At(f, "finalize"), form[f].kind = "CLIENT"
        PROVE  CodesOf(form[f].user) # {}
    <3>1. Cardinality(CodesOf(form[f].user)) >= CodesEach
      BY <2>1, <2>3 DEF RegisteredHasUser, Registered, MadeBy
    <3>2. Cardinality(CodesOf(form[f].user)) # 0
      BY <3>1, WebBounds
    <3> QED
      BY <3>2, FS_EmptySet
  <2> QED
    BY <2>1, <2>2, <2>3 DEF ClientHasCodes, CodesCounted
<1> QED
  BY <1>1, Always, PTL
=============================================================================
