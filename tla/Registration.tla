----------------------------- MODULE Registration -----------------------------
(***************************************************************************)
(* Registering at the web page of an invitation, next to enrolling by text *)
(* message: UserServiceController's registerUser and the endpoints that    *)
(* edit users and their roles, DefaultOrganizationUserService and          *)
(* DefaultActivationCodeService.  The two ways share the users, the        *)
(* invitations, the process and its restarts with Enrollment.              *)
(*                                                                         *)
(* registerUser is several transactions: the user and its role, the        *)
(* activation codes of a client, a row that nothing else reads, and the    *)
(* invitation.  It may stop with an exception before any of them commits.  *)
(* The next activation code is a static variable that every thread reads   *)
(* and increments without synchronization.                                 *)
(*                                                                         *)
(* One organization, in which nobody has a role at first.                  *)
(***************************************************************************)
EXTENDS Enrollment, FiniteSets

CONSTANTS
    Forms,          \* threads that serve requests to register
    CodesEach,      \* activation codes of a client
    FirstCode,      \* ACTIVATION_CODE_START_INDEX
    OldCodes,       \* activation codes that are in the table at first
    MaxRequests,    \* bound: requests to register in a behaviour
    MaxEdits,       \* bound: users and roles edited by hand in a behaviour
    MaxBusy         \* bound: requests and messages that are served at once

ASSUME RegistrationAssumption ==
    /\ CodesEach \in Nat \ {0}
    /\ FirstCode \in Nat
    /\ OldCodes \subseteq Nat /\ IsFiniteSet(OldCodes)
    /\ MaxRequests \in Nat
    /\ MaxEdits \in Nat
    /\ MaxBusy \in Nat

VARIABLES
    form,           \* the request a thread serves
    counter,        \* ACTIVATION_CODE_START_IDX; None: not read from the table yet
    codes,          \* rows of activation_codes, in the order of their ids
    granted,        \* ghost: how often the role NGO_ADMIN was given by hand
    edits,          \* counts edits by hand, up to MaxEdits
    requests        \* counts requests to register, up to MaxRequests

hands   == <<granted, edits>>
webVars == <<form, counter, codes, hands, requests>>
vars    == <<enrollVars, webVars>>

\* The types of user of the page; any other type does as VOLUNTEER does.
Kinds == {"CLIENT", "NGO", "VOLUNTEER"}

\* inv: the invitation of the header, 0 if it names none; user: the row whose id is in
\* the body, 0 if it makes a new one; adds: the role the row gets, if it has not got
\* it; local: what the thread has read of the counter; mine: codes not committed yet.
Form == [at: {"insert", "register", "codes", "set", "take", "finalize"},
         kind: Kinds, inv: 0..MaxInvitations, phone: Phones, email: Emails,
         user: Nat, adds: SUBSET Roles, local: Nat, mine: Seq(Nat)]

\* user: the owner's row; 0: none.
CodeRow == [code: Nat, user: Nat]

\* A thread without a request has no request, and a counter not read no number.
ASSUME NoneIsNoForm == None \notin Form \cup Nat

At(f, step) == form[f] # None /\ form[f].at = step

\* The e-mail addresses whose index entries a request's transaction holds.
Addresses(f) ==
    {form[f].email} \cup {users[u].email : u \in DOMAIN users \cap {form[f].user}}

TypeOK ==
    /\ EnrollTypeOK
    /\ form \in [Forms -> Form \cup {None}]
    /\ \A f \in Forms : form[f] # None => form[f].user \in 0..Len(users)
    /\ counter \in Nat \cup {None}
    /\ codes \in Seq(CodeRow)
    /\ \A i \in DOMAIN codes : codes[i].user \in 0..Len(users)
    /\ granted \in 0..edits
    /\ edits \in 0..MaxEdits
    /\ requests \in 0..MaxRequests
    /\ raced \subseteq Phones \cup {"codes", "digits", "admins"}
    /\ held = {e \in Emails : \/ \E w \in Workers : job[w] # None /\ job[w].user = e
                              \/ \E f \in Forms : At(f, "register") /\ e \in Addresses(f)}

Init ==
    /\ EnrollInit
    /\ form = [f \in Forms |-> None]
    /\ counter = None
    /\ codes \in {r \in [1..Cardinality(OldCodes) -> [code: OldCodes, user: {0}]] :
                     \A i, j \in DOMAIN r : r[i].code = r[j].code => i = j}
    /\ granted = 0
    /\ edits = 0
    /\ requests = 0

Serving == {w \in Workers : job[w] # None} \cup {f \in Forms : form[f] # None}

-----------------------------------------------------------------------------
(* The user.                                                               *)

Have(role) == {u \in DOMAIN users : role \in users[u].roles}

\* Mutant: the first NGO user is looked for among those with the role NGO.
RoleForByNgo(kind) ==
    IF kind = "NGO" /\ Have("NGO") = {} THEN "NGO_ADMIN" ELSE kind

\* createUserRole: the first NGO user of the organization is its administrator.
RoleFor(kind) ==
    IF kind = "NGO" /\ Have("NGO_ADMIN") = {} THEN "NGO_ADMIN" ELSE kind

\* Mutant: the request goes on without its e-mail address.
SubmitNoEmail(f, e, p, kind, i, u) ==
    /\ form[f] = None
    /\ requests < MaxRequests
    /\ requests' = requests + 1
    /\ form' = [form EXCEPT ![f] =
         [at |-> "insert", kind |-> kind, inv |-> i, phone |-> p, email |-> None, user |-> u,
          adds |-> {RoleFor(kind)}, local |-> 0, mine |-> <<>>]]
    /\ UNCHANGED <<enrollVars, counter, codes, hands>>

\* POST /users/register.  Whose id and which invitation the request names is not
\* looked at.  The transaction of register begins, and sees the users and roles
\* there are now; a role the user has already is not inserted.
Submit(f, e, p, kind, i, u) ==
    /\ form[f] = None
    /\ requests < MaxRequests
    /\ requests' = requests + 1
    /\ form' = [form EXCEPT ![f] =
         [at |-> "insert", kind |-> kind, inv |-> i, phone |-> p, email |-> e, user |-> u,
          adds |-> {RoleFor(kind)} \ (IF u = 0 THEN {} ELSE users[u].roles),
          local |-> 0, mine |-> <<>>]]
    /\ raced' = IF /\ kind = "NGO"
                   /\ \E g \in Forms : (At(g, "insert") \/ At(g, "register"))
                                       /\ form[g].kind = "NGO"
                THEN raced \cup {"admins"} ELSE raced
    /\ UNCHANGED <<users, held, invitation, expired, dialog, restarts, counter, codes, hands>>

\* save(user): a row is inserted, or the row with the id is written over.  It waits
\* for other transactions that write the e-mail address or the row, and fails if
\* another row has the address (Fail).
InsertWebUser(f) ==
    /\ At(f, "insert")
    /\ Addresses(f) \cap held = {}
    /\ \A u \in DOMAIN users : users[u].email = form[f].email => u = form[f].user
    /\ form' = [form EXCEPT ![f].at = "register"]
    /\ held' = held \cup Addresses(f)
    /\ UNCHANGED <<users, invitation, expired, raced, dialog, restarts, counter, codes, hands,
                   requests>>

InCodes(f) == At(f, "codes") \/ At(f, "set") \/ At(f, "take")

\* How the user registered: at the page, with an invitation if the header names one.
FromForm(r) == IF r.inv = 0 THEN {} ELSE {<<r.inv, r.kind>>}

\* The row a request makes or, written over row v, leaves.
WebUser(r) ==
    [email |-> r.email, phone |-> r.phone, from |-> FromForm(r), by |-> "web", roles |-> r.adds]

WrittenOver(v, r) ==
    [email |-> r.email, phone |-> r.phone, from |-> v.from \cup FromForm(r), by |-> "web",
     roles |-> v.roles \cup r.adds]

\* Mutant: the invitation is used up with the transaction that makes the user.
CommitWebUserUsesUp(f) ==
    LET r == form[f] IN
    /\ At(f, "register")
    /\ users' = IF r.user = 0 THEN Append(users, WebUser(r))
                ELSE [users EXCEPT ![r.user] = WrittenOver(users[r.user], r)]
    /\ held' = held \ Addresses(f)
    /\ IF r.inv = 0 THEN UNCHANGED invitation ELSE Activate(r.inv)
    /\ form' = [form EXCEPT ![f] =
         [r EXCEPT !.at = IF r.kind = "CLIENT" THEN "codes" ELSE "finalize",
                   !.user = IF r.user = 0 THEN Len(users) + 1 ELSE r.user]]
    /\ UNCHANGED <<expired, raced, dialog, restarts, counter, codes, hands, requests>>

\* The user and its role become visible.  A client gets activation codes.
CommitWebUser(f) ==
    LET r == form[f] IN
    /\ At(f, "register")
    /\ users' = IF r.user = 0 THEN Append(users, WebUser(r))
                ELSE [users EXCEPT ![r.user] = WrittenOver(users[r.user], r)]
    /\ held' = held \ Addresses(f)
    /\ form' = [form EXCEPT ![f] =
         [r EXCEPT !.at = IF r.kind = "CLIENT" THEN "codes" ELSE "finalize",
                   !.user = IF r.user = 0 THEN Len(users) + 1 ELSE r.user]]
    /\ raced' = IF r.kind = "CLIENT" /\ \E g \in Forms : InCodes(g)
                THEN raced \cup {"codes"} ELSE raced
    /\ UNCHANGED <<invitation, expired, dialog, restarts, counter, codes, hands, requests>>

\* The request ends with an exception, or with nothing done as the organization is not
\* there (register).  What the open transaction wrote is rolled back, what was
\* committed stays, and so does the counter: an address that is taken, additionalInfo
\* without a number of dependants, a text that parseInt refuses, a database error.
Fail(f) ==
    /\ form[f] # None
    /\ form' = [form EXCEPT ![f] = None]
    /\ held' = IF At(f, "register") THEN held \ Addresses(f) ELSE held
    /\ UNCHANGED <<users, invitation, expired, raced, dialog, restarts, counter, codes, hands,
                   requests>>

-----------------------------------------------------------------------------
(* saveActivationCodes.                                                    *)

\* Integer.MAX_VALUE: parseInt refuses greater numbers.  Bound: the model has no codes
\* beyond it, where the counter would become negative.
MaxInt == 2147483647

Digits(n) == CHOOSE d \in 1..10 : n < 10^d /\ (d = 1 \/ 10^(d - 1) <= n)

\* activation_code is a varchar: 1000000 comes before 999999.
TextBefore(m, n) ==
    IF Digits(m) < Digits(n) THEN m * 10^(Digits(n) - Digits(m)) <= n
                             ELSE m < n * 10^(Digits(m) - Digits(n))

Given == {codes[i].code : i \in DOMAIN codes}

\* getNextActivationCode: SELECT max(x.activationCode).
LastCodes ==
    IF Given = {} THEN {FirstCode} ELSE {n \in Given : \A m \in Given : ~TextBefore(n, m)}

\* Mutant: the counter starts from the first code after every restart.
ReadTableNever(f) ==
    /\ At(f, "codes")
    /\ Len(form[f].mine) < CodesEach
    /\ counter = None
    /\ form' = [form EXCEPT ![f].at = "set", ![f].local = FirstCode]
    /\ UNCHANGED <<enrollVars, counter, codes, hands, requests>>

\* The first code the process gives out: the last one of the table is read ...
ReadTable(f) ==
    /\ At(f, "codes")
    /\ Len(form[f].mine) < CodesEach
    /\ counter = None
    /\ \E n \in LastCodes :
         /\ n <= MaxInt
         /\ form' = [form EXCEPT ![f] = [@ EXCEPT !.at = "set", !.local = n]]
         /\ raced' = IF \E m \in Given : m > n THEN raced \cup {"digits"} ELSE raced
    /\ UNCHANGED <<users, held, invitation, expired, dialog, restarts, counter, codes, hands,
                   requests>>

\* ... and sets the counter.
SetCounter(f) ==
    /\ At(f, "set")
    /\ counter' = form[f].local
    /\ form' = [form EXCEPT ![f] = [@ EXCEPT !.at = "codes", !.local = 0]]
    /\ UNCHANGED <<enrollVars, codes, hands, requests>>

\* ++ACTIVATION_CODE_START_IDX is a read ...
ReadCounter(f) ==
    /\ At(f, "codes")
    /\ Len(form[f].mine) < CodesEach
    /\ counter # None
    /\ counter < MaxInt
    /\ form' = [form EXCEPT ![f] = [@ EXCEPT !.at = "take", !.local = counter]]
    /\ UNCHANGED <<enrollVars, counter, codes, hands, requests>>

\* ... and a write.
TakeCode(f) ==
    LET n == form[f].local + 1 IN
    /\ At(f, "take")
    /\ counter' = n
    /\ form' = [form EXCEPT ![f] =
         [@ EXCEPT !.at = "codes", !.mine = Append(form[f].mine, n), !.local = 0]]
    /\ UNCHANGED <<enrollVars, codes, hands, requests>>

CodeRows(r) == [k \in 1..Len(r.mine) |-> [code |-> r.mine[k], user |-> r.user]]

\* Mutant: the loop over the codes ends one early.
CommitCodesEarly(f) ==
    /\ At(f, "codes")
    /\ Len(form[f].mine) = CodesEach - 1
    /\ codes' = codes \o CodeRows(form[f])
    /\ form' = [form EXCEPT ![f] = [@ EXCEPT !.at = "finalize", !.mine = <<>>]]
    /\ UNCHANGED <<enrollVars, counter, hands, requests>>

\* The rows of activation_codes are committed together.
CommitCodes(f) ==
    /\ At(f, "codes")
    /\ Len(form[f].mine) = CodesEach
    /\ codes' = codes \o CodeRows(form[f])
    /\ form' = [form EXCEPT ![f] = [@ EXCEPT !.at = "finalize", !.mine = <<>>]]
    /\ UNCHANGED <<enrollVars, counter, hands, requests>>

\* finalizeRegistration: whether the invitation is still valid does not matter.
Finalize(f) ==
    /\ At(f, "finalize")
    /\ IF form[f].inv = 0 THEN UNCHANGED invitation ELSE Activate(form[f].inv)
    /\ form' = [form EXCEPT ![f] = None]
    /\ UNCHANGED <<users, held, expired, raced, dialog, restarts, counter, codes, hands,
                   requests>>

-----------------------------------------------------------------------------
(* Users and roles by hand.                                                *)

\* PUT /users/{id}/organizations/{orgId}/roles/{roleId}
GiveRole(u, role) ==
    /\ edits < MaxEdits
    /\ edits' = edits + 1
    /\ users' = [users EXCEPT ![u].roles = @ \cup {role}]
    /\ granted' = IF role = "NGO_ADMIN" THEN granted + 1 ELSE granted
    /\ UNCHANGED <<held, invitation, expired, raced, dialog, restarts, form, counter, codes,
                   requests>>

\* DELETE of one role of a user, or of all, which lock does too.
RemoveRoles(u, roles) ==
    /\ edits < MaxEdits
    /\ edits' = edits + 1
    /\ users' = [users EXCEPT ![u].roles = @ \ roles]
    /\ UNCHANGED <<held, invitation, expired, raced, dialog, restarts, form, counter, codes,
                   granted, requests>>

\* POST /users, and the pages where users edit themselves: a row is inserted (u = 0) or
\* written over, unless another has the e-mail address.
SaveUser(u, e, p) ==
    /\ edits < MaxEdits
    /\ edits' = edits + 1
    /\ e \notin held
    /\ \A t \in DOMAIN users : users[t].email = e => t = u
    /\ \/ /\ u = 0
          /\ users' = Append(users, [email |-> e, phone |-> p, from |-> {}, by |-> "web",
                                     roles |-> {}])
       \/ /\ u # 0
          /\ users[u].email \notin held
          /\ users' = [users EXCEPT ![u] = [@ EXCEPT !.email = e, !.phone = p, !.by = "web"]]
    /\ UNCHANGED <<held, invitation, expired, raced, dialog, restarts, form, counter, codes,
                   granted, requests>>

-----------------------------------------------------------------------------
\* The end of the process stops every request where it is.
RestartAll ==
    /\ Restart
    /\ counter' = None
    /\ form' = [f \in Forms |-> None]
    /\ UNCHANGED <<codes, hands, requests>>

FormStep(f) ==
    \/ InsertWebUser(f) \/ CommitWebUser(f)
    \/ ReadTable(f) \/ SetCounter(f) \/ ReadCounter(f) \/ TakeCode(f) \/ CommitCodes(f)
    \/ Finalize(f) \/ Fail(f)

Edit ==
    \/ \E u \in DOMAIN users, role \in Roles : GiveRole(u, role)
    \/ \E u \in DOMAIN users, roles \in {Roles} \cup {{role} : role \in Roles} :
          RemoveRoles(u, roles)
    \/ \E u \in 0..Len(users), e \in Emails, p \in Phones : SaveUser(u, e, p)

Next ==
    \/ RestartAll
    \/ Environment /\ UNCHANGED webVars
    \/ \E w \in Workers : MessageStep(w) /\ UNCHANGED webVars
    \/ \E f \in Forms : FormStep(f)
    \/ \E f \in Forms, e \in Emails, p \in Phones, kind \in Kinds,
          i \in 0..Len(invitation), u \in 0..Len(users) : Submit(f, e, p, kind, i, u)
    \/ Edit

Busy == Cardinality(Serving') <= MaxBusy

Spec == Init /\ [][Next /\ Busy]_vars

-----------------------------------------------------------------------------
(* Properties.                                                             *)

CodesOf(u) == {i \in DOMAIN codes : codes[i].user = u}

\* "You have already registered!" is said of invitations that a user registered with,
\* and of a client's that the page used up only if the client has all its codes, at
\* whatever step requests fail (isValidInvitation, finalizeRegistration,
\* createUserForSmsChannel).
ActivatedHasUser ==
    \A i \in 1..Len(invitation) : invitation[i].activated =>
        \E u \in DOMAIN users, way \in Ways :
            /\ <<i, way>> \in users[u].from
            /\ way = "CLIENT" => Cardinality(CodesOf(u)) >= CodesEach

\* No activation code is in the table twice, so that getByActivationCode finds one
\* entry.
CodeFindsOneEntry == \A i, j \in DOMAIN codes : codes[i].code = codes[j].code => i = j

\* That is so through restarts, failures and codes that were taken and not saved, as
\* long as no two requests take codes at once and the greatest code as a text was the
\* greatest number when a process read it (saveActivationCodes).
CodeOfOneUser == CodeFindsOneEntry \/ raced \cap {"codes", "digits"} # {}

\* The codes of a registration are all saved or none, at whatever step it fails, and a
\* client's invitation is not used up before (registerUser, saveActivationCodes).
ClientHasCodes ==
    /\ \A u \in DOMAIN users :
          \E k \in 0..Len(codes) : Cardinality(CodesOf(u)) = k * CodesEach
    /\ \A f \in Forms : At(f, "finalize") /\ form[f].kind = "CLIENT" =>
          CodesOf(form[f].user) # {}

\* Registrations make one administrator of an organization at most, beside those who
\* were made so by hand, unless two are served at once; and they make no NGO user
\* without one, unless roles were edited by hand (createUserRole).
OneAdministrator ==
    /\ Cardinality(Have("NGO_ADMIN")) <= 1 + granted \/ "admins" \in raced
    /\ Have("NGO") # {} /\ edits = 0 => Have("NGO_ADMIN") # {}
=============================================================================
