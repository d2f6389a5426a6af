------------------------------ MODULE Enrollment ------------------------------
(***************************************************************************)
(* Enrolling by text message: EventRouter, AbstractRegistrationService,    *)
(* RegisterService and UserCreationServiceHandler of hni-events, and the   *)
(* invitations of DefaultUserOnboardingService.                            *)
(*                                                                         *)
(* EventRouter.handleEvent is one database transaction (REPEATABLE READ):  *)
(* what it reads from tables is as of its start, and what it writes is     *)
(* seen by others when it commits.  The dialogs are in a HashMap of the    *)
(* process: they are read and written at once by every thread, are not     *)
(* rolled back, and are lost when the process ends.  A HashMap that two     *)
(* threads write at once may lose an entry (LoseSession); that it may also *)
(* keep a reader in a loop is not modelled.                                *)
(*                                                                         *)
(* Names and passwords are left out: the session's step tells which of     *)
(* them it has.  The word "none", for no e-mail address, is one of Emails: *)
(* the code stores it and looks it up like any other.                      *)
(***************************************************************************)
EXTENDS Naturals, Sequences

CONSTANTS
    Phones,
    TenDigits,      \* those that UserService.validate takes for a phone number
    Emails,         \* texts that pass for an e-mail address
    Workers,        \* threads that serve text messages
    None,
    Replies,        \* the other texts that are sent
    OrganizationsGo,\* whether the organization of an invitation may be deleted
    MaxInvitations, \* bound: invitations in a behaviour
    MaxRestarts     \* bound: restarts of the process in a behaviour

ASSUME EnrollmentAssumption ==
    /\ None \notin Phones
    /\ TenDigits \subseteq Phones
    /\ OrganizationsGo \in BOOLEAN
    /\ None \notin Emails
    /\ Replies \subseteq {"ENROLL", "HUNGRY", "1", "2", "I ACCEPT", "PRIVACY", ""}
    /\ Emails \cap Replies = {}
    /\ MaxInvitations \in Nat
    /\ MaxRestarts \in Nat

VARIABLES
    users,      \* rows of users with their roles, in the order of their ids
    held,       \* e-mail addresses in rows that are written and not committed
    invitation, \* rows of invitation, in the order of their ids
    expired,    \* how many of them, the oldest, are past their date
    route,      \* rows of event_state by phone number, which is unique
    session,    \* registrationStateMap of the process, by phone number
    job,        \* the message a thread is at
    confirmed,  \* ghost: phones and the e-mail addresses they confirmed
    raced,      \* ghost: phones whose messages were handled at once, or whose session
                \* was lost; Registration adds what else was done at once
    restarts    \* counts restarts, up to MaxRestarts

shared     == <<users, held, invitation, expired, raced>>
dialog     == <<route, session, job, confirmed>>
enrollVars == <<users, held, invitation, expired, route, session, job, confirmed,
                raced, restarts>>

Steps == {"START", "GET_FIRST_NAME", "GET_LAST_NAME", "GET_EMAIL", "CONFIRM_EMAIL",
          "GET_PASSWORD", "CONFIRM_PASSWORD", "ACCEPT_POLICY"}
HasEmail == {"CONFIRM_EMAIL", "GET_PASSWORD", "CONFIRM_PASSWORD", "ACCEPT_POLICY"}

\* A session has an e-mail address from the step on that asks to confirm it.
Session == [step: Steps \ HasEmail, email: {None}] \cup [step: HasEmail, email: Emails]

\* registrationStateDAO.get: null is not a RegistrationState.
ASSUME NoneIsNoSession == None \notin Session

Start   == [step |-> "START", email |-> None]

Texts == Replies \cup Emails

Roles == {"CLIENT", "NGO", "NGO_ADMIN", "VOLUNTEER"}

\* The ways to register: by text message, or at the page as one of its types of user.
Ways == {"SMS", "CLIENT", "NGO", "VOLUNTEER"}

\* from: the invitations it registered with, and how (ghost); by: "sms" if it enrolled
\* by text message and was not written again since, at the page or by hand (ghost).
User == [email: Emails, phone: Phones, from: SUBSET ((1..MaxInvitations) \X Ways),
         by: {"sms", "web"}, roles: SUBSET Roles]

\* newest, taken: what the transaction reads of invitations and e-mail addresses;
\* inserted, writes: whether it has inserted or will write the route.
Job == [at: {"insert", "dispatch", "begin", "perform", "accept", "put", "commit"},
        phone: Phones, text: Texts \cup {None}, event: {"REGISTER", "MEAL"},
        inserted: BOOLEAN, writes: BOOLEAN,
        newest: 0..MaxInvitations, taken: SUBSET Emails,
        session: Session \cup {None}, user: Emails \cup {None}]

\* findOne and get: null is neither a row nor a message.
ASSUME NoneIsNoRow == None \notin User \cup Job

EnrollTypeOK ==
    /\ users \in Seq(User)
    /\ held \subseteq Emails
    /\ invitation \in Seq([phone: Phones, activated: BOOLEAN])
    /\ Len(invitation) <= MaxInvitations
    /\ expired \in 0..Len(invitation)
    /\ route \in [Phones -> {"REGISTER", "MEAL", None}]
    /\ session \in [Phones -> Session \cup {None}]
    /\ job \in [Workers -> Job \cup {None}]
    /\ \A w \in Workers :
          job[w] # None /\ job[w].at \in {"perform", "accept", "put"} =>
              job[w].session # None
    /\ confirmed \subseteq Phones \X Emails
    /\ restarts \in 0..MaxRestarts

EnrollInit ==
    /\ users = <<>>
    /\ held = {}
    /\ invitation = <<>>
    /\ expired = 0
    /\ route = [p \in Phones |-> None]
    /\ session = [p \in Phones |-> None]
    /\ job = [w \in Workers |-> None]
    /\ confirmed = {}
    /\ raced = {}
    /\ restarts = 0

\* E-mail addresses are unique among the rows.
Taken == {users[u].email : u \in DOMAIN users}

-----------------------------------------------------------------------------
(* Invitations.                                                            *)

\* inviteUser, for an e-mail address that no user has.
Invite(p) ==
    /\ Len(invitation) < MaxInvitations
    /\ invitation' = Append(invitation, [phone |-> p, activated |-> FALSE])
    /\ UNCHANGED <<users, held, expired, raced, dialog, restarts>>

\* Five days after it was made, hence oldest first.
LapseInvitation ==
    /\ expired < Len(invitation)
    /\ expired' = expired + 1
    /\ UNCHANGED <<users, held, invitation, raced, dialog, restarts>>

Valid(i) == i \in expired + 1 .. Len(invitation)

\* isValidInvitation and getInvitationByPhoneNumber: the last one that is valid.
Newest(p) ==
    LET valid == {i \in 1..Len(invitation) : Valid(i) /\ invitation[i].phone = p}
    IN  IF valid = {} THEN 0 ELSE CHOOSE i \in valid : \A k \in valid : k <= i

Activate(i) == invitation' = [invitation EXCEPT ![i].activated = TRUE]

-----------------------------------------------------------------------------
(* EventRouter.handleEvent.                                                *)

\* parseKeyWordToEventName.  GIVE and DONATE have no service: an exception.
EventOf(t) ==
    CASE t = "ENROLL" -> "REGISTER"
      [] t = "HUNGRY" -> "MEAL"
      [] OTHER        -> None

\* Another message of p is being handled.
Overlaps(w, p) == \E x \in Workers \ {w} : job[x] # None /\ job[x].phone = p

\* The transaction begins.  An ENROLL without an invitation to use, and a text
\* without a keyword from a phone that has no route, are answered at once.
Receive(w, p, t) ==
    LET event  == EventOf(t)
        newest == Newest(p)
    IN
    /\ job[w] = None
    /\ event = "REGISTER" => newest # 0 /\ ~invitation[newest].activated
    /\ event # None \/ route[p] # None
    /\ job' = [job EXCEPT ![w] =
         [at       |-> IF route[p] = None THEN "insert" ELSE "dispatch",
          phone    |-> p,
          text     |-> t,
          event    |-> IF event = None THEN route[p] ELSE event,
          inserted |-> FALSE,
          writes   |-> event \notin {None, route[p]},
          newest   |-> newest,
          taken    |-> Taken,
          session  |-> None,
          user     |-> None]]
    /\ raced' = IF Overlaps(w, p) THEN raced \cup {p} ELSE raced
    /\ UNCHANGED <<users, held, invitation, expired, route, session, confirmed, restarts>>

\* The insert of a route waits for another transaction's of the same phone; the
\* message fails if that has committed.
InsertRoute(w) ==
    LET p == job[w].phone IN
    /\ job[w] # None
    /\ job[w].at = "insert"
    /\ \A x \in Workers : job[x] # None /\ job[x].phone = p => ~job[x].inserted
    /\ job' = [job EXCEPT ![w] = IF route[p] # None THEN None
                                 ELSE [@ EXCEPT !.at = "dispatch", !.inserted = TRUE]]
    /\ UNCHANGED <<shared, route, session, confirmed, restarts>>

\* eventServiceMap.get(MEAL): the dialog of OrderDialog.
DispatchMeal(w) ==
    /\ job[w] # None
    /\ job[w].at = "dispatch"
    /\ job[w].event = "MEAL"
    /\ job' = [job EXCEPT ![w].at = "commit"]
    /\ UNCHANGED <<shared, route, session, confirmed, restarts>>

-----------------------------------------------------------------------------
(* AbstractRegistrationService.handleEvent.                                *)

\* Mutant: that there may be no session is not looked at.
GetSessionUnchecked(w) ==
    /\ job[w] # None
    /\ job[w].at = "dispatch"
    /\ job[w].event = "REGISTER"
    /\ job' = [job EXCEPT ![w] = [@ EXCEPT !.at = "perform", !.session = session[job[w].phone]]]
    /\ UNCHANGED <<shared, route, session, confirmed, restarts>>

\* registrationStateDAO.get(phone)
GetSession(w) ==
    LET s == session[job[w].phone] IN
    /\ job[w] # None
    /\ job[w].at = "dispatch"
    /\ job[w].event = "REGISTER"
    /\ job' = [job EXCEPT ![w] = [@ EXCEPT !.at = IF s = None THEN "begin" ELSE "perform",
                                           !.session = s]]
    /\ UNCHANGED <<shared, route, session, confirmed, restarts>>

\* There was none: insert one at its first step, over whatever is there by now.
BeginSession(w) ==
    /\ job[w] # None
    /\ job[w].at = "begin"
    /\ session' = [session EXCEPT ![job[w].phone] = Start]
    /\ job' = [job EXCEPT ![w] = [@ EXCEPT !.at = "perform", !.session = Start]]
    /\ UNCHANGED <<shared, route, confirmed, restarts>>

\* Mutant: any reply but 2 confirms the e-mail address.
NextSessionTakesAny(s, t, taken, valid) ==
    LET To(step) == [s EXCEPT !.step = step] IN
    CASE s.step = "START"                               -> To("GET_FIRST_NAME")
      [] s.step = "GET_FIRST_NAME" /\ t # "PRIVACY" /\ valid -> To("GET_LAST_NAME")
      [] s.step = "GET_LAST_NAME" /\ valid              -> To("GET_EMAIL")
      [] s.step = "GET_EMAIL" /\ t \in Emails \ taken /\ valid ->
                                      [step |-> "CONFIRM_EMAIL", email |-> t]
      [] s.step = "CONFIRM_EMAIL" /\ t = "2"            ->
                                      [step |-> "GET_EMAIL", email |-> None]
      [] s.step = "CONFIRM_EMAIL"                       -> To("GET_PASSWORD")
      [] s.step = "GET_PASSWORD" /\ t # ""              -> To("CONFIRM_PASSWORD")
      [] s.step = "CONFIRM_PASSWORD" /\ t = "1"         -> To("ACCEPT_POLICY")
      [] s.step = "CONFIRM_PASSWORD" /\ t = "2"         -> To("GET_PASSWORD")
      [] OTHER                                          -> s

\* performWorkFlowStep: the session after text t, save I ACCEPT at the last step;
\* valid: the phone number, which validate looks at with every name and address.
\* The session is only saved when the step changes; what else the transaction has
\* read is of no more use.
NextSession(s, t, taken, valid) ==
    LET To(step) == [s EXCEPT !.step = step] IN
    CASE s.step = "START"                               -> To("GET_FIRST_NAME")
      [] s.step = "GET_FIRST_NAME" /\ t # "PRIVACY" /\ valid -> To("GET_LAST_NAME")
      [] s.step = "GET_LAST_NAME" /\ valid              -> To("GET_EMAIL")
      [] s.step = "GET_EMAIL" /\ t \in Emails \ taken /\ valid ->
                                      [step |-> "CONFIRM_EMAIL", email |-> t]
      [] s.step = "CONFIRM_EMAIL" /\ t = "1"            -> To("GET_PASSWORD")
      [] s.step = "CONFIRM_EMAIL" /\ t = "2"            ->
                                      [step |-> "GET_EMAIL", email |-> None]
      [] s.step = "GET_PASSWORD" /\ t # ""              -> To("CONFIRM_PASSWORD")
      [] s.step = "CONFIRM_PASSWORD" /\ t = "1"         -> To("ACCEPT_POLICY")
      [] s.step = "CONFIRM_PASSWORD" /\ t = "2"         -> To("GET_PASSWORD")
      [] OTHER                                          -> s

Accepts(j) == j.session.step = "ACCEPT_POLICY" /\ j.text = "I ACCEPT"

Perform(w) ==
    LET j == job[w]
        n == NextSession(j.session, j.text, j.taken, j.phone \in TenDigits)
    IN
    /\ j # None
    /\ j.at = "perform"
    /\ job' = [job EXCEPT ![w] =
         IF Accepts(j) THEN [j EXCEPT !.at = "accept", !.taken = {}]
         ELSE [j EXCEPT !.at = IF n.step # j.session.step THEN "put" ELSE "commit",
                        !.text = None, !.newest = 0, !.taken = {}, !.session = n]]
    /\ confirmed' = IF j.session.step = "CONFIRM_EMAIL" /\ j.text = "1"
                    THEN confirmed \cup {<<j.phone, j.session.email>>} ELSE confirmed
    /\ UNCHANGED <<shared, route, session, restarts>>

\* registrationStateDAO.update(nextState), before the transaction commits.
PutSession(w) ==
    /\ job[w] # None
    /\ job[w].at = "put"
    /\ session' = [session EXCEPT ![job[w].phone] = job[w].session]
    /\ job' = [job EXCEPT ![w].at = "commit"]
    /\ UNCHANGED <<shared, route, confirmed, restarts>>

\* Two threads write a HashMap at once, which may lose an entry.
LoseSession(p) ==
    /\ \E w, x \in Workers :
         /\ w # x
         /\ \A y \in {w, x} : job[y] # None /\ job[y].at \in {"begin", "put"}
    /\ session' = [session EXCEPT ![p] = None]
    /\ raced' = raced \cup {p}
    /\ UNCHANGED <<users, held, invitation, expired, route, job, confirmed, restarts>>

-----------------------------------------------------------------------------
(* UserCreationServiceHandler.createUserForSmsChannel.                     *)

\* There is no valid invitation any more: the reply is an error.
RefuseUser(w) ==
    /\ job[w] # None
    /\ job[w].at = "accept"
    /\ job[w].newest = 0
    /\ job' = [job EXCEPT ![w].at = "commit"]
    /\ UNCHANGED <<shared, route, session, confirmed, restarts>>

\* The user is inserted, which waits for another transaction's insert of the same
\* e-mail address.  If the address is taken the whole message is rolled back.
InsertUser(w) ==
    LET e == job[w].session.email IN
    /\ job[w] # None
    /\ job[w].at = "accept"
    /\ job[w].newest # 0
    /\ e \notin held
    /\ \/ /\ e \in Taken
          /\ job' = [job EXCEPT ![w] = None]
          /\ UNCHANGED held
       \/ /\ e \notin Taken
          /\ job' = [job EXCEPT ![w] = [@ EXCEPT !.at = "commit", !.user = e]]
          /\ held' = held \cup {e}
    /\ UNCHANGED <<users, invitation, expired, raced, route, session, confirmed, restarts>>

\* The organization of the invitation was deleted: register returns null, which is
\* ignored, and a client row of a user that was not saved rolls the message back.
LoseUser(w) ==
    /\ OrganizationsGo
    /\ job[w] # None
    /\ job[w].at = "accept"
    /\ job[w].newest # 0
    /\ job' = [job EXCEPT ![w] = None]
    /\ UNCHANGED <<shared, route, session, confirmed, restarts>>

\* The row that createUserForSmsChannel inserts, with its role.
SmsUser(j) == [email |-> j.user, phone |-> j.phone, from |-> {<<j.newest, "SMS">>},
               by |-> "sms", roles |-> {"CLIENT"}]

\* Mutant: the session is removed once the user is created.
CommitEndsSession(w) ==
    LET j == job[w] IN
    /\ j # None
    /\ j.at = "commit"
    /\ route' = IF j.writes THEN [route EXCEPT ![j.phone] = j.event] ELSE route
    /\ \/ /\ j.user = None
          /\ UNCHANGED <<users, held, invitation, session>>
       \/ /\ j.user # None
          /\ users' = Append(users, SmsUser(j))
          /\ held' = held \ {j.user}
          /\ Activate(j.newest)
          /\ session' = [session EXCEPT ![j.phone] = None]
    /\ job' = [job EXCEPT ![w] = None]
    /\ UNCHANGED <<expired, raced, confirmed, restarts>>

\* The route, the user with its role and client row, and the invitation's
\* activation become visible together.
Commit(w) ==
    LET j == job[w] IN
    /\ j # None
    /\ j.at = "commit"
    /\ route' = IF j.writes THEN [route EXCEPT ![j.phone] = j.event] ELSE route
    /\ \/ /\ j.user = None
          /\ UNCHANGED <<users, held, invitation>>
       \/ /\ j.user # None
          /\ users' = Append(users, SmsUser(j))
          /\ held' = held \ {j.user}
          /\ Activate(j.newest)
    /\ job' = [job EXCEPT ![w] = None]
    /\ UNCHANGED <<expired, raced, session, confirmed, restarts>>

-----------------------------------------------------------------------------
\* The process ends and comes back: transactions and sessions are gone.
Restart ==
    /\ restarts < MaxRestarts
    /\ restarts' = restarts + 1
    /\ session' = [p \in Phones |-> None]
    /\ job' = [w \in Workers |-> None]
    /\ held' = {}
    /\ raced' = raced \cup {p \in Phones : session[p] # None}
    /\ UNCHANGED <<users, invitation, expired, route, confirmed>>

MessageStep(w) ==
    \/ InsertRoute(w) \/ DispatchMeal(w) \/ GetSession(w) \/ BeginSession(w)
    \/ Perform(w) \/ PutSession(w) \/ RefuseUser(w) \/ InsertUser(w)
    \/ LoseUser(w) \/ Commit(w)

Environment ==
    \/ \E w \in Workers, p \in Phones, t \in Texts : Receive(w, p, t)
    \/ \E p \in Phones : Invite(p) \/ LoseSession(p)
    \/ LapseInvitation

EnrollNext == Restart \/ Environment \/ \E w \in Workers : MessageStep(w)

EnrollSpec == EnrollInit /\ [][EnrollNext]_enrollVars

-----------------------------------------------------------------------------
(* Properties.                                                             *)

\* A phone gets a second user by text message only if its session was lost or two
\* of its messages were handled at once: otherwise its session ends at a step where
\* its e-mail address is taken (RegisterService, "i accept").
OneUserPerPhone ==
    \A t, u \in DOMAIN users :
        /\ users[t].by = "sms" /\ users[u].by = "sms"
        /\ users[t].phone = users[u].phone
        => t = u \/ users[t].phone \in raced

\* A user who enrolled by text message, and was not written since at the page or by
\* hand, has the e-mail address that "Is that correct?" was asked about and answered
\* with 1, whatever was handled in between (RegisterService).
UserAsConfirmed ==
    \A u \in DOMAIN users :
        users[u].by = "sms" => <<users[u].phone, users[u].email>> \in confirmed

\* "reply I ACCEPT to complete your enrollment": when the reply of a participant
\* who has a valid invitation has been handled, the participant is a user.
Accepting(j) ==
    /\ j # None /\ j.at \in {"accept", "commit"}
    /\ j.session # None /\ Accepts(j) /\ j.newest # 0

AcceptEnrolls ==
    [][\A w \in Workers :
          Accepting(job[w]) /\ job'[w] = None /\ restarts' = restarts =>
              \E u \in DOMAIN users' :
                 users'[u].email = job[w].session.email /\ users'[u].phone = job[w].phone]_enrollVars
=============================================================================
