--------------------------- MODULE EnrollmentProofs ---------------------------
(***************************************************************************)
(* What holds of enrolling by text message for any phones, e-mail          *)
(* addresses, threads, invitations and restarts.                           *)
(***************************************************************************)
EXTENDS Enrollment, SequenceTheorems, WellFoundedInduction, TLAPS

-----------------------------------------------------------------------------
(* The inductive invariants.                                               *)

\* I ACCEPT counts at the last step only, when the session has an e-mail address,
\* and a user is inserted for an invitation.
AcceptsAtEnd ==
    \A w \in Workers : job[w] # None =>
        /\ job[w].at = "accept" => job[w].session.step = "ACCEPT_POLICY"
        /\ job[w].user # None => job[w].at = "commit" /\ job[w].newest # 0

\* The steps after the one that confirms the e-mail address.
Past == {"GET_PASSWORD", "CONFIRM_PASSWORD", "ACCEPT_POLICY"}

HasConfirmed(p, s) == s # None /\ s.step \in Past => <<p, s.email>> \in confirmed

\* Sessions past that step have a confirmed address, in the map ...
SessionsConfirmed == \A p \in Phones : HasConfirmed(p, session[p])

\* ... and in a thread's hands, up to the insert of the user.
JobsConfirmed ==
    \A w \in Workers : job[w] # None =>
        /\ HasConfirmed(job[w].phone, job[w].session)
        /\ job[w].user # None => <<job[w].phone, job[w].user>> \in confirmed

Confirmed == SessionsConfirmed /\ JobsConfirmed /\ UserAsConfirmed

\* While its messages are handled one after the other, a phone has one job ...
OneJob ==
    \A w, x \in Workers :
        /\ job[w] # None /\ job[x] # None
        /\ job[w].phone = job[x].phone
        /\ job[w].phone \notin raced
        => w = x

\* ... whose session is the one in the map ...
JobHasSession ==
    \A w \in Workers : job[w] # None /\ job[w].phone \notin raced =>
        /\ job[w].at = "begin" => session[job[w].phone] = None
        /\ job[w].at \in {"perform", "accept"} => session[job[w].phone] = job[w].session
        /\ job[w].at = "put" => session[job[w].phone] # None
                                /\ session[job[w].phone].step # "ACCEPT_POLICY"
        /\ job[w].user # None => session[job[w].phone] = [step |-> "ACCEPT_POLICY",
                                                          email |-> job[w].user]

\* ... and a user has the e-mail address at which the session of its phone ends.
UserEndsSession ==
    \A u \in DOMAIN users :
        users[u].by = "sms" /\ users[u].phone \notin raced =>
            session[users[u].phone] = [step |-> "ACCEPT_POLICY", email |-> users[u].email]

OneByOne == OneJob /\ JobHasSession /\ UserEndsSession

\* The unique index of users: e-mail addresses of rows that are committed ...
RowsDiffer == \A t, u \in DOMAIN users : users[t].email = users[u].email => t = u

\* ... and of rows that are not are held, and all different.
InsertsDiffer ==
    \A w \in Workers : job[w] # None /\ job[w].user # None =>
        /\ job[w].user \in held \ Taken
        /\ \A x \in Workers : job[x] # None /\ job[x].user = job[w].user => x = w

Unique == RowsDiffer /\ InsertsDiffer

IInv == EnrollTypeOK /\ AcceptsAtEnd /\ Confirmed /\ OneByOne /\ Unique

-----------------------------------------------------------------------------
(* Types.                                                                  *)

\* The bounds are numbers.
LEMMA Bounds == MaxInvitations \in Nat /\ MaxRestarts \in Nat
BY EnrollmentAssumption

\* A set of ids has a greatest one.
LEMMA Greatest ==
    ASSUME NEW N \in Nat, NEW S \in SUBSET (1..N), S # {}
    PROVE  \E i \in S : \A k \in S : k <= i
<1> DEFINE T == {n \in Nat : n <= N /\ N - n \in S}
           R == OpToRel(<, Nat)
<1>1. PICK k \in S : TRUE
  OBVIOUS
<1>2. T # {}
  <2>1. N - k \in Nat /\ N - k <= N /\ N - (N - k) = k
    BY <1>1
  <2> QED
    BY <1>1, <2>1
<1>3. PICK x \in T : \A y \in T : ~(<<y, x>> \in R)
  <2>1. IsWellFoundedOn(R, Nat)
    BY NatLessThanWellFounded
  <2>2. T \subseteq Nat
    OBVIOUS
  <2> QED
    BY <1>2, <2>1, <2>2, WFMin
<1>4. \A y \in T : ~(y < x)
  BY <1>3 DEF OpToRel
<1>5. \A m \in S : m <= N - x
  <2> SUFFICES ASSUME NEW m \in S PROVE m <= N - x
    OBVIOUS
  <2>1. N - m \in Nat /\ N - m <= N /\ N - (N - m) = m
    OBVIOUS
  <2>2. N - m \in T
    BY <2>1
  <2>3. ~(N - m < x)
    BY <1>4, <2>2
  <2>4. x \in Nat /\ m \in Nat
    OBVIOUS
  <2> HIDE DEF T
  <2> QED
    BY <2>3, <2>4
<1>6. N - x \in S
  OBVIOUS
<1> QED
  BY <1>5, <1>6

\* isValidInvitation finds an invitation, or none.
LEMMA NewestType ==
    ASSUME EnrollTypeOK, NEW p \in Phones
    PROVE  Newest(p) \in 0..MaxInvitations
<1> DEFINE valid == {i \in 1..Len(invitation) : Valid(i) /\ invitation[i].phone = p}
<1>1. CASE valid = {}
  <2>1. Newest(p) = 0
    BY <1>1 DEF Newest
  <2> QED
    BY <2>1, Bounds
<1>2. CASE valid # {}
  <2>1. Len(invitation) \in Nat /\ Len(invitation) <= MaxInvitations
    BY DEF EnrollTypeOK
  <2>2. \E i \in valid : \A k \in valid : k <= i
    BY <1>2, <2>1, Greatest
  <2>3. Newest(p) \in valid
    BY <1>2, <2>2 DEF Newest
  <2> QED
    BY <2>1, <2>3, Bounds
<1> QED
  BY <1>1, <1>2

\* performWorkFlowStep keeps a session well-formed; it goes past CONFIRM_EMAIL with
\* 1 only, and from there on neither back nor to another e-mail address.
LEMMA NextSessionType ==
    ASSUME NEW s \in Session, NEW t, NEW taken, NEW v
    PROVE  NextSession(s, t, taken, v) \in Session
BY DEF NextSession, Session, Steps, HasEmail

LEMMA NextSessionKeeps ==
    ASSUME NEW s \in Session, NEW t, NEW taken, NEW v, NextSession(s, t, taken, v).step \in Past
    PROVE  /\ NextSession(s, t, taken, v).email = s.email
           /\ s.step \in Past \/ (s.step = "CONFIRM_EMAIL" /\ t = "1")
BY DEF NextSession, Session, Steps, HasEmail, Past

LEMMA NextSessionEnds ==
    ASSUME NEW s \in Session, NEW t, NEW taken, NEW v, s.step = "ACCEPT_POLICY"
    PROVE  NextSession(s, t, taken, v) = s
BY DEF NextSession, Session, Steps, HasEmail

LEMMA StartType == Start \in Session
BY DEF Start, Session, Steps, HasEmail

LEMMA InitType == EnrollInit => EnrollTypeOK
BY Bounds DEF EnrollInit, EnrollTypeOK

\* A thread goes on with another job, or with none.
LEMMA JobStep ==
    ASSUME EnrollTypeOK, NEW w \in Workers, NEW j \in Job \cup {None},
           job' = [job EXCEPT ![w] = j],
           j # None /\ j.at \in {"perform", "accept", "put"} => j.session # None
    PROVE  /\ job' \in [Workers -> Job \cup {None}]
           /\ \A x \in Workers :
                 job'[x] # None /\ job'[x].at \in {"perform", "accept", "put"} =>
                     job'[x].session # None
BY DEF EnrollTypeOK

LEMMA JobOf ==
    ASSUME EnrollTypeOK, NEW w \in Workers, job[w] # None
    PROVE  job[w] \in Job
BY DEF EnrollTypeOK

\* What the handlers change of a job.
LEMMA JobEdits ==
    ASSUME NEW j \in Job
    PROVE  /\ [j EXCEPT !.at = "commit"] \in Job
           /\ [j EXCEPT !.at = "dispatch", !.inserted = TRUE] \in Job
           /\ [j EXCEPT !.at = "accept", !.taken = {}] \in Job
           /\ \A s \in Session \cup {None} : \A a \in {"begin", "perform"} :
                 [j EXCEPT !.at = a, !.session = s] \in Job
           /\ \A s \in Session : \A a \in {"put", "commit"} :
                 [j EXCEPT !.at = a, !.text = None, !.newest = 0, !.taken = {},
                           !.session = s] \in Job
           /\ \A e \in Emails : [j EXCEPT !.at = "commit", !.user = e] \in Job
<1> USE Bounds DEF Job
<1>1. [j EXCEPT !.at = "commit"] \in Job
  OBVIOUS
<1>2. [j EXCEPT !.at = "dispatch", !.inserted = TRUE] \in Job
  OBVIOUS
<1>3. [j EXCEPT !.at = "accept", !.taken = {}] \in Job
  OBVIOUS
<1>4. ASSUME NEW s \in Session \cup {None}, NEW a \in {"begin", "perform"}
      PROVE  [j EXCEPT !.at = a, !.session = s] \in Job
  OBVIOUS
<1>5. ASSUME NEW s \in Session, NEW a \in {"put", "commit"}
      PROVE  [j EXCEPT !.at = a, !.text = None, !.newest = 0, !.taken = {}, !.session = s] \in Job
  <2>1. 0 \in 0..MaxInvitations /\ None \in Texts \cup {None} /\ {} \in SUBSET Emails
    OBVIOUS
  <2>2. s \in Session \cup {None}
    OBVIOUS
  <2> HIDE Bounds
  <2> QED
    BY <2>1, <2>2
<1>6. ASSUME NEW e \in Emails PROVE [j EXCEPT !.at = "commit", !.user = e] \in Job
  OBVIOUS
<1> QED
  BY <1>1, <1>2, <1>3, <1>4, <1>5, <1>6

\* updateInvitationStatus
LEMMA ActivateType ==
    ASSUME EnrollTypeOK, NEW i
    PROVE  LET v == [invitation EXCEPT ![i].activated = TRUE]
           IN  /\ v \in Seq([phone: Phones, activated: BOOLEAN])
               /\ Len(v) = Len(invitation)
<1> DEFINE S == [phone: Phones, activated: BOOLEAN]
           v == [invitation EXCEPT ![i].activated = TRUE]
<1>1. invitation \in Seq(S)
  BY DEF EnrollTypeOK
<1>2. CASE i \in 1..Len(invitation)
  <2>1. invitation[i] \in S
    <3> HIDE DEF S
    <3> QED
      BY <1>1, <1>2, ElementOfSeq
  <2>2. [invitation[i] EXCEPT !.activated = TRUE] \in S
    BY <2>1
  <2>3. v = [invitation EXCEPT ![i] = [invitation[i] EXCEPT !.activated = TRUE]]
    OBVIOUS
  <2> HIDE DEF S, v
  <2> QED
    BY <1>1, <1>2, <2>2, <2>3, ExceptSeq DEF S, v
<1>3. CASE i \notin 1..Len(invitation)
  <2>1. v = invitation
    BY <1>1, <1>3
  <2> QED
    BY <1>1, <2>1
<1> QED
  BY <1>2, <1>3

LEMMA TakenType ==
    ASSUME EnrollTypeOK
    PROVE  /\ Taken \subseteq Emails
           /\ \A u \in DOMAIN users : users[u] \in User
<1>1. users \in Seq(User)
  BY DEF EnrollTypeOK
<1>2. \A u \in DOMAIN users : users[u] \in User
  BY <1>1
<1>3. \A n \in User : n.email \in Emails
  BY DEF User
<1> QED
  BY <1>2, <1>3 DEF Taken

LEMMA TypeStep == EnrollTypeOK /\ AcceptsAtEnd /\ [EnrollNext]_enrollVars => EnrollTypeOK'
<1> SUFFICES ASSUME EnrollTypeOK, AcceptsAtEnd, [EnrollNext]_enrollVars PROVE EnrollTypeOK'
  OBVIOUS
<1> USE Bounds DEF shared, dialog
<1>1. ASSUME NEW p \in Phones, Invite(p) PROVE EnrollTypeOK'
  BY <1>1 DEF Invite, EnrollTypeOK
<1>2. CASE LapseInvitation
  BY <1>2 DEF LapseInvitation, EnrollTypeOK
<1>3. ASSUME NEW w \in Workers, NEW p \in Phones, NEW t \in Texts, Receive(w, p, t)
      PROVE  EnrollTypeOK'
  <2> DEFINE event == EventOf(t)
             j == [at       |-> IF route[p] = None THEN "insert" ELSE "dispatch",
                   phone    |-> p,
                   text     |-> t,
                   event    |-> IF event = None THEN route[p] ELSE event,
                   inserted |-> FALSE,
                   writes   |-> event \notin {None, route[p]},
                   newest   |-> Newest(p),
                   taken    |-> Taken,
                   session  |-> None,
                   user     |-> None]
  <2>1. Newest(p) \in 0..MaxInvitations
    BY NewestType
  <2>2. j.event \in {"REGISTER", "MEAL"}
    BY <1>3 DEF EnrollTypeOK, EventOf, Receive
  <2>0. Taken \subseteq Emails
    BY TakenType
  <2>3. j \in Job
    BY <2>0, <2>1, <2>2 DEF Job
  <2>4. job' = [job EXCEPT ![w] = j]
    BY <1>3 DEF Receive
  <2> HIDE DEF j
  <2>5. job' \in [Workers -> Job \cup {None}]
    BY <2>3, <2>4 DEF EnrollTypeOK
  <2>6. j.at \notin {"perform", "accept", "put"}
    BY DEF j
  <2>7. \A x \in Workers : job'[x] # None /\ job'[x].at \in {"perform", "accept", "put"} =>
              job'[x].session # None
    BY <2>4, <2>6 DEF EnrollTypeOK
  <2> QED
    BY <1>3, <2>5, <2>7 DEF Receive, EnrollTypeOK
<1>4. ASSUME NEW w \in Workers, InsertRoute(w) PROVE EnrollTypeOK'
  <2> DEFINE j == IF route[job[w].phone] # None THEN None
                  ELSE [job[w] EXCEPT !.at = "dispatch", !.inserted = TRUE]
  <2>1. job[w] \in Job
    BY <1>4, JobOf DEF InsertRoute
  <2>2. j \in Job \cup {None}
    BY <2>1, JobEdits
  <2>3. job' = [job EXCEPT ![w] = j]
    BY <1>4 DEF InsertRoute
  <2>4. j # None /\ j.at \in {"perform", "accept", "put"} => j.session # None
    BY <1>4, <2>1 DEF Job
  <2> HIDE DEF j
  <2>5. /\ job' \in [Workers -> Job \cup {None}]
        /\ \A y \in Workers :
              job'[y] # None /\ job'[y].at \in {"perform", "accept", "put"} =>
                  job'[y].session # None
    BY <2>2, <2>3, <2>4, JobStep
  <2> QED
    BY <1>4, <2>5 DEF InsertRoute, EnrollTypeOK
<1>5. ASSUME NEW w \in Workers, DispatchMeal(w) PROVE EnrollTypeOK'
  BY <1>5 DEF DispatchMeal, EnrollTypeOK, Job
<1>6. ASSUME NEW w \in Workers, GetSession(w) PROVE EnrollTypeOK'
  <2> DEFINE j == [job[w] EXCEPT !.at = IF session[job[w].phone] = None THEN "begin" ELSE "perform",
                             !.session = session[job[w].phone]]
  <2>1. job[w] \in Job
    BY <1>6, JobOf DEF GetSession
  <2>0. session[job[w].phone] \in Session \cup {None}
    BY <2>1 DEF EnrollTypeOK, Job
  <2>2. j \in Job \cup {None}
    BY <2>1, JobEdits, <2>0
  <2>3. job' = [job EXCEPT ![w] = j]
    BY <1>6 DEF GetSession
  <2>4. j # None /\ j.at \in {"perform", "accept", "put"} => j.session # None
    BY <1>6, <2>1 DEF Job
  <2> HIDE DEF j
  <2>5. /\ job' \in [Workers -> Job \cup {None}]
        /\ \A y \in Workers :
              job'[y] # None /\ job'[y].at \in {"perform", "accept", "put"} =>
                  job'[y].session # None
    BY <2>2, <2>3, <2>4, JobStep
  <2> QED
    BY <1>6, <2>5 DEF GetSession, EnrollTypeOK
<1>7. ASSUME NEW w \in Workers, BeginSession(w) PROVE EnrollTypeOK'
  <2> DEFINE j == [job[w] EXCEPT !.at = "perform", !.session = Start]
  <2>1. job[w] \in Job
    BY <1>7, JobOf DEF BeginSession
  <2>2. j \in Job \cup {None}
    BY <2>1, JobEdits, StartType
  <2>3. job' = [job EXCEPT ![w] = j]
    BY <1>7 DEF BeginSession
  <2>4. j # None /\ j.at \in {"perform", "accept", "put"} => j.session # None
    BY <1>7, <2>1, StartType, NoneIsNoSession DEF Job
  <2> HIDE DEF j
  <2>5. /\ job' \in [Workers -> Job \cup {None}]
        /\ \A y \in Workers :
              job'[y] # None /\ job'[y].at \in {"perform", "accept", "put"} =>
                  job'[y].session # None
    BY <2>2, <2>3, <2>4, JobStep
  <2>6. job[w].phone \in Phones
    BY <2>1 DEF Job
  <2> QED
    BY <1>7, <2>5, <2>6, StartType DEF BeginSession, EnrollTypeOK
<1>8. ASSUME NEW w \in Workers, Perform(w) PROVE EnrollTypeOK'
  <2> DEFINE n == NextSession(job[w].session, job[w].text, job[w].taken,
                              job[w].phone \in TenDigits)
             j == IF Accepts(job[w]) THEN [job[w] EXCEPT !.at = "accept", !.taken = {}]
                  ELSE [job[w] EXCEPT !.at = IF n.step # job[w].session.step
                                             THEN "put" ELSE "commit",
                                      !.text = None, !.newest = 0, !.taken = {}, !.session = n]
  <2>1. job[w] \in Job /\ job[w].session \in Session
    <3>1. job[w] \in Job /\ job[w].session # None
      BY <1>8, JobOf DEF Perform, EnrollTypeOK
    <3> QED
      BY <3>1 DEF Job
  <2>2. n \in Session
    BY <2>1, NextSessionType
  <2>3. job' = [job EXCEPT ![w] = j]
    BY <1>8 DEF Perform
  <2>4. j \in Job /\ j.session # None
    <3>1. CASE Accepts(job[w])
      <4>1. j \in Job
        BY <2>1, <3>1, JobEdits
      <4>2. j.session = job[w].session
        BY <2>1, <3>1 DEF Job
      <4> QED
        BY <2>1, <4>1, <4>2, NoneIsNoSession
    <3>2. CASE ~Accepts(job[w])
      <4> HIDE DEF n
      <4>1. j \in Job
        BY <2>1, <2>2, <3>2, JobEdits
      <4>2. j.session = n
        BY <2>1, <3>2 DEF Job
      <4> QED
        BY <2>2, <4>1, <4>2, NoneIsNoSession
    <3> QED
      BY <3>1, <3>2
  <2> HIDE DEF j
  <2>5. /\ job' \in [Workers -> Job \cup {None}]
        /\ \A y \in Workers :
              job'[y] # None /\ job'[y].at \in {"perform", "accept", "put"} =>
                  job'[y].session # None
    BY <2>3, <2>4, JobStep
  <2>6. confirmed' \subseteq Phones \X Emails
    <3>1. job[w].session.step = "CONFIRM_EMAIL" => job[w].session.email \in Emails
      BY <2>1 DEF Session, Steps, HasEmail
    <3>2. job[w].phone \in Phones
      BY <2>1 DEF Job
    <3> QED
      BY <1>8, <3>1, <3>2 DEF Perform, EnrollTypeOK
  <2> QED
    BY <1>8, <2>5, <2>6 DEF Perform, EnrollTypeOK
<1>9. ASSUME NEW w \in Workers, PutSession(w) PROVE EnrollTypeOK'
  <2> DEFINE j == [job[w] EXCEPT !.at = "commit"]
  <2>1. job[w] \in Job
    BY <1>9, JobOf DEF PutSession
  <2>2. j \in Job \cup {None}
    BY <2>1, JobEdits
  <2>3. job' = [job EXCEPT ![w] = j]
    BY <1>9 DEF PutSession
  <2>4. j # None /\ j.at \in {"perform", "accept", "put"} => j.session # None
    BY <1>9, <2>1 DEF Job
  <2> HIDE DEF j
  <2>5. /\ job' \in [Workers -> Job \cup {None}]
        /\ \A y \in Workers :
              job'[y] # None /\ job'[y].at \in {"perform", "accept", "put"} =>
                  job'[y].session # None
    BY <2>2, <2>3, <2>4, JobStep
  <2> QED
    BY <1>9, <2>5 DEF PutSession, EnrollTypeOK, Job
<1>10. ASSUME NEW p \in Phones, LoseSession(p) PROVE EnrollTypeOK'
  BY <1>10 DEF LoseSession, EnrollTypeOK
<1>11. ASSUME NEW w \in Workers, RefuseUser(w) PROVE EnrollTypeOK'
  <2> DEFINE j == [job[w] EXCEPT !.at = "commit"]
  <2>1. job[w] \in Job
    BY <1>11, JobOf DEF RefuseUser
  <2>2. j \in Job \cup {None}
    BY <2>1, JobEdits
  <2>3. job' = [job EXCEPT ![w] = j]
    BY <1>11 DEF RefuseUser
  <2>4. j # None /\ j.at \in {"perform", "accept", "put"} => j.session # None
    BY <1>11, <2>1 DEF Job
  <2> HIDE DEF j
  <2>5. /\ job' \in [Workers -> Job \cup {None}]
        /\ \A y \in Workers :
              job'[y] # None /\ job'[y].at \in {"perform", "accept", "put"} =>
                  job'[y].session # None
    BY <2>2, <2>3, <2>4, JobStep
  <2> QED
    BY <1>11, <2>5 DEF RefuseUser, EnrollTypeOK
<1>12. ASSUME NEW w \in Workers, InsertUser(w) PROVE EnrollTypeOK'
  <2> DEFINE e == job[w].session.email
             j == IF e \in Taken THEN None ELSE [job[w] EXCEPT !.at = "commit", !.user = e]
  <2>1. job[w] \in Job /\ job[w].session \in Session
    <3>1. job[w] \in Job /\ job[w].session # None
      BY <1>12, JobOf DEF InsertUser, EnrollTypeOK
    <3> QED
      BY <3>1 DEF Job
  <2>2. e \in Emails
    BY <1>12, <2>1 DEF InsertUser, AcceptsAtEnd, Session, Steps, HasEmail
  <2>3. j \in Job \cup {None}
    BY <2>1, <2>2, JobEdits
  <2>4. job' = [job EXCEPT ![w] = j]
    BY <1>12 DEF InsertUser
  <2>5. j = None \/ j.at = "commit"
    BY <2>1 DEF Job
  <2> HIDE DEF j
  <2>6. /\ job' \in [Workers -> Job \cup {None}]
        /\ \A y \in Workers :
              job'[y] # None /\ job'[y].at \in {"perform", "accept", "put"} =>
                  job'[y].session # None
    BY <2>3, <2>4, <2>5, JobStep
  <2> QED
    BY <1>12, <2>2, <2>6 DEF InsertUser, EnrollTypeOK
<1>13. ASSUME NEW w \in Workers, Commit(w) PROVE EnrollTypeOK'
  <2> DEFINE j == job[w]
  <2>1. j \in Job /\ (j.user # None => j.newest # 0)
    BY <1>13, JobOf DEF Commit, AcceptsAtEnd
  <2>2. /\ job' \in [Workers -> Job \cup {None}]
        /\ \A y \in Workers :
              job'[y] # None /\ job'[y].at \in {"perform", "accept", "put"} =>
                  job'[y].session # None
    BY <1>13, JobStep DEF Commit
  <2>3. route' \in [Phones -> {"REGISTER", "MEAL", None}]
    BY <1>13, <2>1 DEF Commit, EnrollTypeOK, Job
  <2>4. /\ users' \in Seq(User)
        /\ held' \subseteq Emails
        /\ invitation' \in Seq([phone: Phones, activated: BOOLEAN])
        /\ Len(invitation') = Len(invitation)
    <3>1. CASE j.user = None
      <4>1. UNCHANGED <<users, held, invitation>>
        BY <1>13, <3>1 DEF Commit
      <4> QED
        BY <4>1 DEF EnrollTypeOK
    <3>2. CASE j.user # None
      <4> DEFINE u == SmsUser(j)
      <4>1. /\ users' = Append(users, u)
            /\ held' = held \ {j.user}
            /\ invitation' = [invitation EXCEPT ![j.newest].activated = TRUE]
        BY <1>13, <3>2 DEF Commit, Activate
      <4>2. u \in User /\ j.user \in Emails
        <5>1. /\ j.user \in Emails /\ j.phone \in Phones /\ j.newest \in 0..MaxInvitations
              /\ j.newest # 0
          BY <2>1, <3>2 DEF Job, AcceptsAtEnd
        <5>2. {<<j.newest, "SMS">>} \subseteq (1..MaxInvitations) \X Ways
          <6>1. j.newest \in 1..MaxInvitations /\ "SMS" \in Ways
            BY <5>1, Bounds DEF Ways
          <6> QED
            BY <6>1
        <5>3. {"CLIENT"} \subseteq Roles
          BY DEF Roles
        <5> QED
          BY <5>1, <5>2, <5>3 DEF User, SmsUser
      <4> HIDE DEF u
      <4>3. users' \in Seq(User) /\ held' \subseteq Emails
        BY <4>1, <4>2 DEF EnrollTypeOK
      <4>4. /\ invitation' \in Seq([phone: Phones, activated: BOOLEAN])
            /\ Len(invitation') = Len(invitation)
        BY <4>1, ActivateType
      <4> QED
        BY <4>3, <4>4
    <3> QED
      BY <3>1, <3>2
  <2> QED
    BY <1>13, <2>2, <2>3, <2>4 DEF Commit, EnrollTypeOK
<1>14. CASE Restart
  BY <1>14 DEF Restart, EnrollTypeOK
<1>15. CASE UNCHANGED enrollVars
  BY <1>15 DEF enrollVars, EnrollTypeOK
<1>16. ASSUME NEW w \in Workers, LoseUser(w) PROVE EnrollTypeOK'
  BY <1>16 DEF LoseUser, EnrollTypeOK
<1> QED
  BY <1>1, <1>2, <1>3, <1>4, <1>5, <1>6, <1>7, <1>8, <1>9, <1>10, <1>11, <1>12, <1>13,
     <1>14, <1>15, <1>16 DEF EnrollNext, Environment, MessageStep

-----------------------------------------------------------------------------
(* Confirmed addresses, and phones whose messages are handled one by one.  *)

Others(w) == \A x \in Workers : x # w => job'[x] = job[x]

\* What a thread's next job must be for the invariant, where nothing else changes.
Fits(p, j) ==
    /\ j.phone = p
    /\ j.session # None /\ j.session.step \in Past => <<p, j.session.email>> \in confirmed'
    /\ j.at = "accept" => j.session.step = "ACCEPT_POLICY"
    /\ j.user # None => /\ j.at = "commit" /\ j.newest # 0
                        /\ <<p, j.user>> \in confirmed'
    /\ p \notin raced =>
          /\ j.at = "begin" => session[p] = None
          /\ j.at \in {"perform", "accept"} => session[p] = j.session
          /\ j.at = "put" => session[p] # None /\ session[p].step # "ACCEPT_POLICY"
          /\ j.user # None => session[p] = [step |-> "ACCEPT_POLICY", email |-> j.user]

LEMMA JobKeeps ==
    ASSUME IInv, NEW w \in Workers, job[w] # None, Others(w),
           UNCHANGED <<users, raced, session>>, confirmed \subseteq confirmed',
           job'[w] # None => Fits(job[w].phone, job'[w])
    PROVE  AcceptsAtEnd' /\ Confirmed' /\ OneByOne'
<1> USE DEF IInv, Fits, Others
<1>1. AcceptsAtEnd'
  BY DEF AcceptsAtEnd
<1>2. Confirmed'
  <2>1. SessionsConfirmed'
    BY DEF Confirmed, SessionsConfirmed, HasConfirmed
  <2>2. JobsConfirmed'
    <3> SUFFICES ASSUME NEW x \in Workers, job'[x] # None
                 PROVE  /\ HasConfirmed(job[x].phone, job[x].session)'
                        /\ job'[x].user # None => <<job'[x].phone, job'[x].user>> \in confirmed'
      BY DEF JobsConfirmed
    <3>1. CASE x = w
      BY <3>1 DEF HasConfirmed
    <3>2. CASE x # w
      BY <3>2 DEF Confirmed, JobsConfirmed, HasConfirmed
    <3> QED
      BY <3>1, <3>2
  <2>3. UserAsConfirmed'
    BY DEF Confirmed, UserAsConfirmed
  <2> QED
    BY <2>1, <2>2, <2>3 DEF Confirmed
<1>3. OneByOne'
  <2>1. OneJob'
    BY DEF OneByOne, OneJob
  <2>2. JobHasSession'
    BY DEF OneByOne, JobHasSession
  <2>3. UserEndsSession'
    BY DEF OneByOne, UserEndsSession
  <2> QED
    BY <2>1, <2>2, <2>3 DEF OneByOne
<1> QED
  BY <1>1, <1>2, <1>3

LEMMA InsertRouteKeeps ==
    ASSUME IInv, NEW w \in Workers, InsertRoute(w)
    PROVE  AcceptsAtEnd' /\ Confirmed' /\ OneByOne'
<1>1. job[w] \in Job
  BY JobOf DEF IInv, InsertRoute
<1>2. Others(w)
  BY DEF Others, InsertRoute
<1>3. job'[w] # None => Fits(job[w].phone, job'[w])
  <2> SUFFICES ASSUME job'[w] # None PROVE Fits(job[w].phone, job'[w])
    OBVIOUS
  <2>1. /\ job'[w].phone = job[w].phone /\ job'[w].at = "dispatch"
        /\ job'[w].user = job[w].user /\ job'[w].session = job[w].session
        /\ job[w].at # "commit"
    BY <1>1 DEF InsertRoute, Job, IInv, EnrollTypeOK
  <2>2. UNCHANGED <<session, confirmed, raced>>
    BY DEF InsertRoute, shared
  <2>3. /\ job[w].user = None
        /\ HasConfirmed(job[w].phone, job[w].session)
    BY <2>1 DEF IInv, AcceptsAtEnd, Confirmed, JobsConfirmed, InsertRoute
  <2> QED
    BY <2>1, <2>2, <2>3 DEF Fits, HasConfirmed
<1> QED
  BY <1>2, <1>3, JobKeeps DEF InsertRoute, shared

LEMMA DispatchMealKeeps ==
    ASSUME IInv, NEW w \in Workers, DispatchMeal(w)
    PROVE  AcceptsAtEnd' /\ Confirmed' /\ OneByOne'
<1>1. job[w] \in Job
  BY JobOf DEF IInv, DispatchMeal
<1>2. Others(w)
  BY DEF Others, DispatchMeal
<1>3. job'[w] # None => Fits(job[w].phone, job'[w])
  <2> SUFFICES ASSUME job'[w] # None PROVE Fits(job[w].phone, job'[w])
    OBVIOUS
  <2>1. /\ job'[w].phone = job[w].phone /\ job'[w].at = "commit"
        /\ job'[w].user = job[w].user /\ job'[w].session = job[w].session
        /\ job[w].at # "commit"
    BY <1>1 DEF DispatchMeal, Job, IInv, EnrollTypeOK
  <2>2. UNCHANGED <<session, confirmed, raced>>
    BY DEF DispatchMeal, shared
  <2>3. /\ job[w].user = None
        /\ HasConfirmed(job[w].phone, job[w].session)
    BY <2>1 DEF IInv, AcceptsAtEnd, Confirmed, JobsConfirmed, DispatchMeal
  <2> QED
    BY <2>1, <2>2, <2>3 DEF Fits, HasConfirmed
<1> QED
  BY <1>2, <1>3, JobKeeps DEF DispatchMeal, shared

LEMMA GetSessionKeeps ==
    ASSUME IInv, NEW w \in Workers, GetSession(w)
    PROVE  AcceptsAtEnd' /\ Confirmed' /\ OneByOne'
<1>1. job[w] \in Job
  BY JobOf DEF IInv, GetSession
<1>2. Others(w)
  BY DEF Others, GetSession
<1>3. job'[w] # None => Fits(job[w].phone, job'[w])
  <2> SUFFICES ASSUME job'[w] # None PROVE Fits(job[w].phone, job'[w])
    OBVIOUS
  <2>1. /\ job'[w].phone = job[w].phone /\ job[w].phone \in Phones
        /\ job'[w].user = job[w].user /\ job'[w].session = session[job[w].phone]
        /\ job'[w].at = IF session[job[w].phone] = None THEN "begin" ELSE "perform"
    BY <1>1 DEF GetSession, Job, IInv, EnrollTypeOK
  <2>2. UNCHANGED <<session, confirmed, raced>>
    BY DEF GetSession, shared
  <2>3. /\ job[w].user = None
        /\ HasConfirmed(job[w].phone, session[job[w].phone])
    BY <2>1 DEF IInv, AcceptsAtEnd, Confirmed, SessionsConfirmed, GetSession
  <2> QED
    BY <2>1, <2>2, <2>3 DEF Fits, HasConfirmed
<1> QED
  BY <1>2, <1>3, JobKeeps DEF GetSession, shared

LEMMA RefuseUserKeeps ==
    ASSUME IInv, NEW w \in Workers, RefuseUser(w)
    PROVE  AcceptsAtEnd' /\ Confirmed' /\ OneByOne'
<1>1. job[w] \in Job
  BY JobOf DEF IInv, RefuseUser
<1>2. Others(w)
  BY DEF Others, RefuseUser
<1>3. job'[w] # None => Fits(job[w].phone, job'[w])
  <2> SUFFICES ASSUME job'[w] # None PROVE Fits(job[w].phone, job'[w])
    OBVIOUS
  <2>1. /\ job'[w].phone = job[w].phone /\ job'[w].at = "commit"
        /\ job'[w].user = job[w].user /\ job'[w].session = job[w].session
        /\ job[w].at # "commit"
    BY <1>1 DEF RefuseUser, Job, IInv, EnrollTypeOK
  <2>2. UNCHANGED <<session, confirmed, raced>>
    BY DEF RefuseUser, shared
  <2>3. /\ job[w].user = None
        /\ HasConfirmed(job[w].phone, job[w].session)
    BY <2>1 DEF IInv, AcceptsAtEnd, Confirmed, JobsConfirmed, RefuseUser
  <2> QED
    BY <2>1, <2>2, <2>3 DEF Fits, HasConfirmed
<1> QED
  BY <1>2, <1>3, JobKeeps DEF RefuseUser, shared

LEMMA InsertUserKeeps ==
    ASSUME IInv, NEW w \in Workers, InsertUser(w)
    PROVE  AcceptsAtEnd' /\ Confirmed' /\ OneByOne'
<1>1. /\ job[w] \in Job /\ job[w].session \in Session
      /\ job[w].session.step = "ACCEPT_POLICY" /\ job[w].user = None
  <2>1. job[w] \in Job /\ job[w].session # None
    BY JobOf DEF IInv, InsertUser, EnrollTypeOK
  <2> QED
    BY <2>1 DEF IInv, AcceptsAtEnd, InsertUser, Job
<1>2. job[w].session = [step |-> "ACCEPT_POLICY", email |-> job[w].session.email]
  BY <1>1 DEF Session
<1>3. <<job[w].phone, job[w].session.email>> \in confirmed
  BY <1>1, NoneIsNoSession DEF InsertUser, IInv, Confirmed, JobsConfirmed, HasConfirmed, Past
<1>4. job[w].phone \notin raced => session[job[w].phone] = job[w].session
  BY DEF InsertUser, IInv, OneByOne, JobHasSession
<1>5. Others(w)
  BY DEF Others, InsertUser, IInv, EnrollTypeOK
<1>6. job'[w] # None => Fits(job[w].phone, job'[w])
  <2> SUFFICES ASSUME job'[w] # None PROVE Fits(job[w].phone, job'[w])
    OBVIOUS
  <2>1. job'[w] = [job[w] EXCEPT !.at = "commit", !.user = job[w].session.email]
    BY DEF InsertUser, IInv, EnrollTypeOK
  <2>2. /\ job'[w].phone = job[w].phone /\ job'[w].at = "commit"
        /\ job'[w].user = job[w].session.email
        /\ job'[w].session = job[w].session /\ job'[w].newest = job[w].newest
    BY <1>1, <2>1 DEF Job
  <2>3. UNCHANGED <<session, confirmed, raced>> /\ job[w].newest # 0
    BY DEF InsertUser
  <2> QED
    BY <1>2, <1>3, <1>4, <2>2, <2>3 DEF Fits
<1> QED
  BY <1>5, <1>6, JobKeeps DEF InsertUser

LEMMA PerformKeeps ==
    ASSUME IInv, NEW w \in Workers, Perform(w)
    PROVE  AcceptsAtEnd' /\ Confirmed' /\ OneByOne'
<1> DEFINE p == job[w].phone
           s == job[w].session
           n == NextSession(s, job[w].text, job[w].taken, p \in TenDigits)
<1>1. /\ job[w] # None /\ job[w] \in Job /\ s \in Session /\ p \in Phones
      /\ job[w].at = "perform" /\ job[w].user = None
  <2>1. job[w] # None /\ job[w] \in Job /\ s # None /\ job[w].at = "perform"
    BY JobOf DEF IInv, Perform, EnrollTypeOK
  <2> QED
    BY <2>1 DEF IInv, AcceptsAtEnd, Job
<1>2. s.step \in Past => <<p, s.email>> \in confirmed
  BY <1>1, NoneIsNoSession DEF IInv, Confirmed, JobsConfirmed, HasConfirmed
<1>3. p \notin raced => session[p] = s
  BY <1>1 DEF IInv, OneByOne, JobHasSession
<1>4. /\ UNCHANGED <<users, raced, session>> /\ confirmed \subseteq confirmed'
      /\ s.step = "CONFIRM_EMAIL" /\ job[w].text = "1" => <<p, s.email>> \in confirmed'
      /\ Others(w)
  BY DEF Perform, shared, Others, IInv, EnrollTypeOK
<1>5. Fits(p, job'[w])
  <2>1. CASE Accepts(job[w])
    <3>1. job'[w] = [job[w] EXCEPT !.at = "accept", !.taken = {}]
      BY <2>1 DEF Perform, IInv, EnrollTypeOK
    <3>2. /\ job'[w].phone = p /\ job'[w].at = "accept" /\ job'[w].session = s
          /\ job'[w].user = None
      BY <1>1, <3>1 DEF Job
    <3> QED
      BY <1>2, <1>3, <1>4, <2>1, <3>2 DEF Fits, Accepts
  <2>2. CASE ~Accepts(job[w])
    <3>1. job'[w] = [job[w] EXCEPT !.at = IF n.step # s.step THEN "put" ELSE "commit",
                                   !.text = None, !.newest = 0, !.taken = {}, !.session = n]
      BY <2>2 DEF Perform, IInv, EnrollTypeOK
    <3>2. /\ job'[w].phone = p /\ job'[w].session = n /\ job'[w].user = None
          /\ job'[w].at = IF n.step # s.step THEN "put" ELSE "commit"
      <4> HIDE DEF n
      <4> QED
        BY <1>1, <3>1 DEF Job
    <3>3. n.step \in Past => <<p, n.email>> \in confirmed'
      BY <1>1, <1>2, <1>4, NextSessionKeeps
    <3>4. n.step # s.step => s.step # "ACCEPT_POLICY"
      BY <1>1, NextSessionEnds
    <3> HIDE DEF n
    <3> QED
      BY <1>1, <1>3, <3>2, <3>3, <3>4, NoneIsNoSession DEF Fits
  <2> QED
    BY <2>1, <2>2
<1> QED
  BY <1>1, <1>4, <1>5, JobKeeps

\* A session that is saved is past CONFIRM_EMAIL only with a confirmed address, and
\* no user's session is overwritten unless messages were handled at once.
LEMMA SessionKeeps ==
    ASSUME IInv, NEW w \in Workers, NEW s \in Session, job[w] # None, Others(w),
           UNCHANGED <<users, confirmed, raced>>,
           job[w].phone \in Phones,
           session' = [session EXCEPT ![job[w].phone] = s],
           s.step \in Past => <<job[w].phone, s.email>> \in confirmed,
           \/ session[job[w].phone] = None
           \/ session[job[w].phone].step # "ACCEPT_POLICY"
           \/ job[w].phone \in raced,
           job'[w].phone = job[w].phone, job'[w].session = s,
           job'[w].user = None, job'[w].at \in {"perform", "commit"}
    PROVE  AcceptsAtEnd' /\ Confirmed' /\ OneByOne'
<1> DEFINE p == job[w].phone
<1> USE DEF IInv, Others
<1>0. session'[p] = s /\ \A q \in Phones : q # p => session'[q] = session[q]
  BY DEF EnrollTypeOK
<1>1. AcceptsAtEnd'
  BY DEF AcceptsAtEnd
<1>2. Confirmed'
  <2>1. SessionsConfirmed'
    BY <1>0 DEF Confirmed, SessionsConfirmed, HasConfirmed
  <2>2. JobsConfirmed'
    <3> SUFFICES ASSUME NEW x \in Workers, job'[x] # None
                 PROVE  /\ HasConfirmed(job[x].phone, job[x].session)'
                        /\ job'[x].user # None => <<job'[x].phone, job'[x].user>> \in confirmed'
      BY DEF JobsConfirmed
    <3>1. CASE x = w
      BY <3>1 DEF HasConfirmed
    <3>2. CASE x # w
      BY <3>2 DEF Confirmed, JobsConfirmed, HasConfirmed
    <3> QED
      BY <3>1, <3>2
  <2>3. UserAsConfirmed'
    BY DEF Confirmed, UserAsConfirmed
  <2> QED
    BY <2>1, <2>2, <2>3 DEF Confirmed
<1>3. OneByOne'
  <2>1. OneJob'
    BY DEF OneByOne, OneJob
  <2>2. JobHasSession'
    <3> SUFFICES ASSUME NEW x \in Workers, job'[x] # None, job'[x].phone \notin raced
                 PROVE  LET q == job'[x].phone IN
                        /\ job'[x].at = "begin" => session'[q] = None
                        /\ job'[x].at \in {"perform", "accept"} => session'[q] = job'[x].session
                        /\ job'[x].at = "put" => session'[q] # None
                                                 /\ session'[q].step # "ACCEPT_POLICY"
                        /\ job'[x].user # None =>
                              session'[q] = [step |-> "ACCEPT_POLICY", email |-> job'[x].user]
      BY DEF JobHasSession
    <3>1. CASE x = w
      BY <1>0, <3>1
    <3>2. CASE x # w
      <4>1. job[x].phone # p
        BY <3>2 DEF OneByOne, OneJob
      <4>2. job[x].phone \in Phones
        BY <3>2, JobOf DEF Job
      <4>3. session'[job[x].phone] = session[job[x].phone]
        BY <1>0, <4>1, <4>2
      <4> QED
        BY <3>2, <4>3 DEF OneByOne, JobHasSession
    <3> QED
      BY <3>1, <3>2
  <2>3. UserEndsSession'
    <3> SUFFICES ASSUME NEW u \in DOMAIN users, users[u].by = "sms",
                        users[u].phone \notin raced
                 PROVE  session'[users[u].phone] =
                            [step |-> "ACCEPT_POLICY", email |-> users[u].email]
      BY DEF UserEndsSession
    <3>1. session[users[u].phone] = [step |-> "ACCEPT_POLICY", email |-> users[u].email]
      BY DEF OneByOne, UserEndsSession
    <3>2. users[u].phone \in Phones /\ users[u].email \in Emails
      BY TakenType DEF User
    <3>3. [step |-> "ACCEPT_POLICY", email |-> users[u].email] \in Session
      BY <3>2 DEF Session, Steps, HasEmail
    <3>4. users[u].phone # p
      BY <3>1, <3>3, NoneIsNoSession
    <3> QED
      BY <1>0, <3>1, <3>2, <3>4
  <2> QED
    BY <2>1, <2>2, <2>3 DEF OneByOne
<1> QED
  BY <1>1, <1>2, <1>3

LEMMA BeginSessionKeeps ==
    ASSUME IInv, NEW w \in Workers, BeginSession(w)
    PROVE  AcceptsAtEnd' /\ Confirmed' /\ OneByOne'
<1>1. job[w] # None /\ job[w] \in Job /\ job[w].user = None
  BY JobOf DEF IInv, BeginSession, AcceptsAtEnd
<1>2. job[w].phone \in Phones
  BY <1>1 DEF Job
<1>3. job[w].phone \notin raced => session[job[w].phone] = None
  BY <1>1 DEF IInv, OneByOne, JobHasSession, BeginSession
<1>4. job'[w] = [job[w] EXCEPT !.at = "perform", !.session = Start]
  BY DEF BeginSession, IInv, EnrollTypeOK
<1>5. /\ job'[w].phone = job[w].phone /\ job'[w].session = Start /\ job'[w].user = None
      /\ job'[w].at = "perform"
  BY <1>1, <1>4 DEF Job
<1>6. /\ Others(w) /\ UNCHANGED <<users, confirmed, raced>>
      /\ session' = [session EXCEPT ![job[w].phone] = Start]
  BY DEF Others, BeginSession, shared, IInv, EnrollTypeOK
<1>7. Start.step \notin Past
  BY DEF Start, Past
<1> QED
  BY <1>1, <1>2, <1>3, <1>5, <1>6, <1>7, StartType, SessionKeeps

LEMMA PutSessionKeeps ==
    ASSUME IInv, NEW w \in Workers, PutSession(w)
    PROVE  AcceptsAtEnd' /\ Confirmed' /\ OneByOne'
<1> DEFINE s == job[w].session
<1>1. /\ job[w] # None /\ job[w] \in Job /\ job[w].user = None
      /\ s \in Session /\ job[w].phone \in Phones
  <2>1. job[w] # None /\ job[w] \in Job /\ s # None
    BY JobOf DEF IInv, PutSession, EnrollTypeOK
  <2> QED
    BY <2>1 DEF IInv, PutSession, AcceptsAtEnd, Job
<1>2. job[w].phone \notin raced => session[job[w].phone].step # "ACCEPT_POLICY"
  BY <1>1 DEF IInv, OneByOne, JobHasSession, PutSession
<1>3. s.step \in Past => <<job[w].phone, s.email>> \in confirmed
  BY <1>1, NoneIsNoSession DEF IInv, Confirmed, JobsConfirmed, HasConfirmed
<1>4. job'[w] = [job[w] EXCEPT !.at = "commit"]
  BY DEF PutSession, IInv, EnrollTypeOK
<1>5. /\ job'[w].phone = job[w].phone /\ job'[w].session = s /\ job'[w].user = None
      /\ job'[w].at = "commit"
  BY <1>1, <1>4 DEF Job
<1>6. /\ Others(w) /\ UNCHANGED <<users, confirmed, raced>>
      /\ session' = [session EXCEPT ![job[w].phone] = s]
  BY DEF Others, PutSession, shared, IInv, EnrollTypeOK
<1> QED
  BY <1>1, <1>2, <1>3, <1>5, <1>6, SessionKeeps

\* The rows after a commit: those there were, and a new one if a user was inserted.
LEMMA CommitRows ==
    ASSUME EnrollTypeOK, NEW w \in Workers, Commit(w)
    PROVE  \A u \in DOMAIN users' :
              \/ u \in DOMAIN users /\ users'[u] = users[u]
              \/ job[w].user # None /\ users'[u] = SmsUser(job[w])
<1> DEFINE n == SmsUser(job[w])
<1>1. users \in Seq(User)
  BY DEF EnrollTypeOK
<1>2. \/ UNCHANGED users
      \/ job[w].user # None /\ users' = Append(users, n)
  BY DEF Commit
<1> HIDE DEF n
<1>3. CASE users' = Append(users, n)
  <2>1. /\ Len(users) \in Nat /\ DOMAIN users = 1..Len(users)
        /\ DOMAIN users' = 1..Len(users) + 1
        /\ \A u \in 1..Len(users) : users'[u] = users[u]
        /\ users'[Len(users) + 1] = n
    BY <1>1, <1>3
  <2>2. CASE job[w].user # None
    BY <2>1, <2>2 DEF n
  <2>3. CASE job[w].user = None
    BY <1>2, <2>3
  <2> QED
    BY <2>2, <2>3
<1> QED
  BY <1>2, <1>3

\* What a job that goes away leaves to be shown.
LEMMA CommitKeeps ==
    ASSUME IInv, NEW w \in Workers, Commit(w)
    PROVE  AcceptsAtEnd' /\ Confirmed' /\ OneByOne'
<1> DEFINE j == job[w]
           n == SmsUser(j)
<1> USE DEF IInv
<1>1. /\ j # None /\ j \in Job /\ j.phone \in Phones /\ j.user \in Emails \cup {None}
      /\ job'[w] = None /\ Others(w) /\ UNCHANGED <<session, confirmed, raced>>
  <2>1. j # None /\ j \in Job
    BY JobOf DEF Commit
  <2> QED
    BY <2>1 DEF Commit, Others, EnrollTypeOK, Job
<1>2. \A u \in DOMAIN users' :
         \/ u \in DOMAIN users /\ users'[u] = users[u]
         \/ j.user # None /\ users'[u] = n
  BY CommitRows
<1>3. n.phone = j.phone /\ n.email = j.user /\ n.by = "sms"
  BY DEF SmsUser
<1> HIDE DEF n
<1>4. AcceptsAtEnd'
  BY <1>1 DEF AcceptsAtEnd, Others
<1>5. Confirmed'
  <2>1. SessionsConfirmed' /\ JobsConfirmed'
    BY <1>1 DEF Confirmed, SessionsConfirmed, JobsConfirmed, HasConfirmed, Others
  <2>2. j.user # None => <<j.phone, j.user>> \in confirmed
    BY <1>1 DEF Confirmed, JobsConfirmed
  <2>3. UserAsConfirmed'
    BY <1>1, <1>2, <1>3, <2>2 DEF Confirmed, UserAsConfirmed
  <2> QED
    BY <2>1, <2>3 DEF Confirmed
<1>6. OneByOne'
  <2>1. OneJob' /\ JobHasSession'
    BY <1>1 DEF OneByOne, OneJob, JobHasSession, Others
  <2>2. j.user # None /\ j.phone \notin raced =>
           session[j.phone] = [step |-> "ACCEPT_POLICY", email |-> j.user]
    BY <1>1 DEF OneByOne, JobHasSession
  <2>3. UserEndsSession'
    BY <1>1, <1>2, <1>3, <2>2 DEF OneByOne, UserEndsSession
  <2> QED
    BY <2>1, <2>3 DEF OneByOne
<1> QED
  BY <1>4, <1>5, <1>6

LEMMA LoseUserKeeps ==
    ASSUME IInv, NEW w \in Workers, LoseUser(w)
    PROVE  AcceptsAtEnd' /\ Confirmed' /\ OneByOne'
<1>1. job'[w] = None /\ Others(w)
  BY DEF Others, LoseUser, IInv, EnrollTypeOK
<1>2. job[w] # None /\ UNCHANGED <<users, raced, session, confirmed>>
  BY DEF LoseUser, shared
<1> QED
  BY <1>1, <1>2, JobKeeps

-----------------------------------------------------------------------------
(* The unique index.                                                       *)

\* Where no row is committed and no address let go, a job's new address is one that
\* nobody has.
LEMMA UniqueKeeps ==
    ASSUME Unique, UNCHANGED users, NEW w \in Workers, Others(w), held \subseteq held',
           job'[w] # None /\ job'[w].user # None =>
               \/ job[w] # None /\ job'[w].user = job[w].user
               \/ job'[w].user \in held' \ (held \cup Taken)
    PROVE  Unique'
<1>1. RowsDiffer'
  BY DEF Unique, RowsDiffer
<1>2. Taken' = Taken
  BY DEF Taken
<1>3. InsertsDiffer'
  BY <1>2 DEF Unique, InsertsDiffer, Others
<1> QED
  BY <1>1, <1>3 DEF Unique

LEMMA CommitUnique ==
    ASSUME IInv, NEW w \in Workers, Commit(w)
    PROVE  Unique'
<1> DEFINE j == job[w]
<1> USE DEF IInv
<1>1. /\ j # None /\ job'[w] = None /\ Others(w)
  BY DEF Commit, Others, EnrollTypeOK
<1>2. CASE j.user = None
  <2>1. UNCHANGED <<users, held>>
    BY <1>2 DEF Commit
  <2> QED
    BY <1>1, <2>1, UniqueKeeps
<1>3. CASE j.user # None
  <2>1. users' = Append(users, SmsUser(j)) /\ held' = held \ {j.user}
    BY <1>3 DEF Commit
  <2>2. j.user \notin Taken /\ SmsUser(j).email = j.user
    BY <1>1, <1>3 DEF Unique, InsertsDiffer, SmsUser
  <2>0. /\ Len(users) \in Nat /\ DOMAIN users = 1..Len(users)
        /\ DOMAIN users' = 1..Len(users) + 1
        /\ \A u \in 1..Len(users) : users'[u] = users[u]
        /\ users'[Len(users) + 1].email = j.user
        /\ 1..Len(users) + 1 = (1..Len(users)) \cup {Len(users) + 1}
        /\ Len(users) + 1 \notin 1..Len(users)
    <3>1. users \in Seq(User)
      BY DEF EnrollTypeOK
    <3> HIDE DEF IInv
    <3> QED
      BY <2>1, <2>2, <3>1
  <2>3. Taken' = Taken \cup {j.user}
    <3>1. Taken' = {users'[u].email : u \in 1..Len(users)} \cup {users'[Len(users) + 1].email}
      BY <2>0 DEF Taken
    <3>2. {users'[u].email : u \in 1..Len(users)} = Taken
      BY <2>0 DEF Taken
    <3> QED
      BY <2>0, <3>1, <3>2
  <2>4. RowsDiffer'
    BY <2>0, <2>2 DEF Unique, RowsDiffer, Taken
  <2>5. InsertsDiffer'
    BY <1>1, <1>3, <2>1, <2>3 DEF Unique, InsertsDiffer, Others
  <2> QED
    BY <2>4, <2>5 DEF Unique
<1> QED
  BY <1>2, <1>3

LEMMA InsertUserUnique ==
    ASSUME IInv, NEW w \in Workers, InsertUser(w)
    PROVE  Unique'
<1> USE DEF IInv
<1>1. /\ job[w] \in Job /\ Others(w) /\ UNCHANGED users /\ held \subseteq held'
  BY JobOf DEF InsertUser, Others, EnrollTypeOK
<1>2. job'[w] # None => job'[w].user \in held' \ (held \cup Taken)
  BY <1>1 DEF InsertUser, EnrollTypeOK, Job
<1> QED
  BY <1>1, <1>2, UniqueKeeps

\* The other steps of a message neither insert nor commit.
LEMMA OtherSteps ==
    ASSUME IInv, NEW w \in Workers, MessageStep(w), ~Commit(w), ~InsertUser(w)
    PROVE  /\ Others(w) /\ UNCHANGED shared /\ job[w] # None /\ job[w].at # "commit"
           /\ job'[w] # None => job'[w].user = job[w].user
<1> USE DEF IInv
<1>1. Others(w) /\ UNCHANGED shared /\ job[w] # None /\ job[w].at # "commit"
  BY DEF MessageStep, InsertRoute, DispatchMeal, GetSession, BeginSession, Perform, PutSession,
         RefuseUser, LoseUser, Others, shared, EnrollTypeOK
<1>2. job[w] \in Job
  BY <1>1, JobOf
<1>3. job'[w] # None => job'[w].user = job[w].user
  <2>1. CASE InsertRoute(w)
    BY <1>2, <2>1 DEF InsertRoute, EnrollTypeOK, Job
  <2>2. CASE DispatchMeal(w)
    BY <1>2, <2>2 DEF DispatchMeal, EnrollTypeOK, Job
  <2>3. CASE GetSession(w)
    BY <1>2, <2>3 DEF GetSession, EnrollTypeOK, Job
  <2>4. CASE BeginSession(w)
    BY <1>2, <2>4 DEF BeginSession, EnrollTypeOK, Job
  <2>5. CASE PutSession(w)
    BY <1>2, <2>5 DEF PutSession, EnrollTypeOK, Job
  <2>6. CASE RefuseUser(w)
    BY <1>2, <2>6 DEF RefuseUser, EnrollTypeOK, Job
  <2>7. CASE LoseUser(w)
    BY <1>2, <2>7 DEF LoseUser, EnrollTypeOK, Job
  <2>8. CASE Perform(w)
    <3> DEFINE n == NextSession(job[w].session, job[w].text, job[w].taken,
                                job[w].phone \in TenDigits)
    <3>1. \/ job'[w] = [job[w] EXCEPT !.at = "accept", !.taken = {}]
          \/ job'[w] = [job[w] EXCEPT !.at = IF n.step # job[w].session.step
                                             THEN "put" ELSE "commit",
                                      !.text = None, !.newest = 0, !.taken = {}, !.session = n]
      BY <2>8 DEF Perform, EnrollTypeOK
    <3> HIDE DEF n
    <3> QED
      BY <1>2, <3>1 DEF Job
  <2> QED
    BY <2>1, <2>2, <2>3, <2>4, <2>5, <2>6, <2>7, <2>8 DEF MessageStep
<1> QED
  BY <1>1, <1>3

LEMMA UniqueStep == IInv /\ [EnrollNext]_enrollVars => Unique'
<1> SUFFICES ASSUME IInv, [EnrollNext]_enrollVars PROVE Unique'
  OBVIOUS
<1> USE DEF IInv
<1>1. CASE UNCHANGED <<users, held, job>>
  BY <1>1 DEF Unique, RowsDiffer, InsertsDiffer, Taken
<1>2. CASE Restart
  BY <1>2 DEF Restart, Unique, RowsDiffer, InsertsDiffer
<1>3. ASSUME NEW w \in Workers, NEW p \in Phones, NEW t \in Texts, Receive(w, p, t)
      PROVE  Unique'
  <2>1. job'[w].user = None /\ Others(w) /\ UNCHANGED <<users, held>>
    BY <1>3 DEF Receive, Others, EnrollTypeOK
  <2> QED
    BY <2>1, UniqueKeeps
<1>4. ASSUME NEW w \in Workers, MessageStep(w) PROVE Unique'
  <2>1. CASE ~Commit(w) /\ ~InsertUser(w)
    BY <1>4, <2>1, OtherSteps, UniqueKeeps DEF shared
  <2> QED
    BY <1>4, <2>1, CommitUnique, InsertUserUnique
<1> QED
  BY <1>1, <1>2, <1>3, <1>4 DEF EnrollNext, Environment, Invite, LoseSession, LapseInvitation,
                               enrollVars, dialog

\* A message received adds a job, and its phone to raced if it has another.
LEMMA ReceiveKeeps ==
    ASSUME IInv, NEW w \in Workers, NEW p \in Phones, NEW t \in Texts, Receive(w, p, t)
    PROVE  AcceptsAtEnd' /\ Confirmed' /\ OneByOne'
<1> USE DEF IInv
<1>1. /\ job'[w].phone = p /\ job'[w].user = None /\ job'[w].session = None
      /\ job'[w].at \in {"insert", "dispatch"}
  BY DEF Receive, EnrollTypeOK
<1>2. /\ Others(w) /\ UNCHANGED <<users, session, confirmed>>
      /\ raced' = IF Overlaps(w, p) THEN raced \cup {p} ELSE raced
  BY DEF Receive, Others, EnrollTypeOK
<1>3. AcceptsAtEnd'
  BY <1>1, <1>2 DEF AcceptsAtEnd, Others
<1>4. Confirmed'
  <2>1. SessionsConfirmed' /\ UserAsConfirmed'
    BY <1>2 DEF Confirmed, SessionsConfirmed, UserAsConfirmed, HasConfirmed
  <2>2. JobsConfirmed'
    BY <1>1, <1>2 DEF Confirmed, JobsConfirmed, HasConfirmed, Others
  <2> QED
    BY <2>1, <2>2 DEF Confirmed
<1>5. OneByOne'
  <2>1. raced \subseteq raced' /\
        (p \notin raced' => \A x \in Workers \ {w} : job[x] # None => job[x].phone # p)
    BY <1>2 DEF Overlaps
  <2>2. OneJob'
    BY <1>1, <1>2, <2>1 DEF OneByOne, OneJob, Others
  <2>3. JobHasSession'
    BY <1>1, <1>2, <2>1 DEF OneByOne, JobHasSession, Others
  <2>4. UserEndsSession'
    BY <1>2, <2>1 DEF OneByOne, UserEndsSession
  <2> QED
    BY <2>2, <2>3, <2>4 DEF OneByOne
<1> QED
  BY <1>3, <1>4, <1>5

LEMMA LoseSessionKeeps ==
    ASSUME IInv, NEW p \in Phones, LoseSession(p)
    PROVE  AcceptsAtEnd' /\ Confirmed' /\ OneByOne'
<1> USE DEF IInv
<1>1. /\ UNCHANGED <<users, job, confirmed>> /\ raced' = raced \cup {p}
      /\ session' = [session EXCEPT ![p] = None]
  BY DEF LoseSession
<1>2. session'[p] = None /\ \A q \in Phones : q # p => session'[q] = session[q]
  BY <1>1 DEF EnrollTypeOK
<1>3. \A w \in Workers : job[w] # None => job[w].phone \in Phones
  BY JobOf DEF Job
<1>4. \A u \in DOMAIN users : users[u].phone \in Phones
  BY TakenType DEF User
<1>5. AcceptsAtEnd'
  BY <1>1 DEF AcceptsAtEnd
<1>6. Confirmed'
  BY <1>1, <1>2 DEF Confirmed, SessionsConfirmed, JobsConfirmed, UserAsConfirmed, HasConfirmed
<1>7. OneByOne'
  <2>1. OneJob'
    BY <1>1 DEF OneByOne, OneJob
  <2>2. JobHasSession'
    BY <1>1, <1>2, <1>3 DEF OneByOne, JobHasSession
  <2>3. UserEndsSession'
    BY <1>1, <1>2, <1>4 DEF OneByOne, UserEndsSession
  <2> QED
    BY <2>1, <2>2, <2>3 DEF OneByOne
<1> QED
  BY <1>5, <1>6, <1>7

LEMMA RestartKeeps ==
    ASSUME IInv, Restart
    PROVE  AcceptsAtEnd' /\ Confirmed' /\ OneByOne'
<1> USE DEF IInv
<1>1. /\ \A p \in Phones : session'[p] = None
      /\ \A w \in Workers : job'[w] = None
      /\ UNCHANGED <<users, confirmed>>
      /\ raced' = raced \cup {p \in Phones : session[p] # None}
  BY DEF Restart
<1>2. AcceptsAtEnd'
  BY <1>1 DEF AcceptsAtEnd
<1>3. Confirmed'
  BY <1>1 DEF Confirmed, SessionsConfirmed, JobsConfirmed, UserAsConfirmed, HasConfirmed
<1>4. UserEndsSession'
  <2> SUFFICES ASSUME NEW u \in DOMAIN users, users[u].by = "sms",
                      users[u].phone \notin raced'
               PROVE  FALSE
    BY <1>1 DEF UserEndsSession
  <2>1. /\ users[u].phone \in Phones /\ users[u].phone \notin raced
        /\ users[u].email \in Emails
    BY <1>1, TakenType DEF User
  <2>2. session[users[u].phone] = [step |-> "ACCEPT_POLICY", email |-> users[u].email]
    BY <2>1 DEF OneByOne, UserEndsSession
  <2>3. [step |-> "ACCEPT_POLICY", email |-> users[u].email] \in Session
    BY <2>1 DEF Session, Steps, HasEmail
  <2>4. session[users[u].phone] # None
    BY <2>2, <2>3, NoneIsNoSession
  <2> QED
    BY <1>1, <2>1, <2>4
<1>5. OneByOne'
  BY <1>1, <1>4 DEF OneByOne, OneJob, JobHasSession
<1> QED
  BY <1>2, <1>3, <1>5

-----------------------------------------------------------------------------
(* The theorems.                                                           *)

LEMMA IInvInit == EnrollInit => IInv
<1> SUFFICES ASSUME EnrollInit PROVE IInv
  OBVIOUS
<1>1. EnrollTypeOK
  BY InitType
<1>2. /\ \A p \in Phones : session[p] = None
      /\ \A w \in Workers : job[w] = None
      /\ DOMAIN users = {}
  BY DEF EnrollInit
<1>3. AcceptsAtEnd /\ Confirmed
  BY <1>2 DEF AcceptsAtEnd, Confirmed, SessionsConfirmed, JobsConfirmed, UserAsConfirmed,
              HasConfirmed
<1>4. OneByOne
  BY <1>2 DEF OneByOne, OneJob, JobHasSession, UserEndsSession
<1>5. Unique
  BY <1>2 DEF Unique, RowsDiffer, InsertsDiffer
<1> QED
  BY <1>1, <1>3, <1>4, <1>5 DEF IInv

LEMMA IInvStep == IInv /\ [EnrollNext]_enrollVars => IInv'
<1> SUFFICES ASSUME IInv, [EnrollNext]_enrollVars PROVE IInv'
  OBVIOUS
<1>1. EnrollTypeOK'
  BY TypeStep DEF IInv
<1>0. Unique'
  BY UniqueStep
<1>2. CASE UNCHANGED <<users, raced, dialog>>
  BY <1>0, <1>1, <1>2 DEF dialog, IInv, AcceptsAtEnd, Confirmed, SessionsConfirmed, JobsConfirmed,
              UserAsConfirmed, HasConfirmed, OneByOne, OneJob, JobHasSession, UserEndsSession
<1>3. CASE Restart
  BY <1>0, <1>1, <1>3, RestartKeeps DEF IInv
<1>4. CASE Environment
  <2>1. ASSUME NEW w \in Workers, NEW p \in Phones, NEW t \in Texts, Receive(w, p, t)
        PROVE  IInv'
    BY <1>0, <1>1, <2>1, ReceiveKeeps DEF IInv
  <2>2. ASSUME NEW p \in Phones, Invite(p) PROVE IInv'
    BY <1>2, <2>2 DEF Invite
  <2>3. ASSUME NEW p \in Phones, LoseSession(p) PROVE IInv'
    BY <1>0, <1>1, <2>3, LoseSessionKeeps DEF IInv
  <2>4. CASE LapseInvitation
    BY <1>2, <2>4 DEF LapseInvitation
  <2> QED
    BY <1>4, <2>1, <2>2, <2>3, <2>4 DEF Environment
<1>5. ASSUME NEW w \in Workers, MessageStep(w) PROVE IInv'
  BY <1>0, <1>1, <1>5, InsertRouteKeeps, DispatchMealKeeps, GetSessionKeeps, BeginSessionKeeps,
     PerformKeeps, PutSessionKeeps, RefuseUserKeeps, InsertUserKeeps, LoseUserKeeps,
     CommitKeeps
     DEF MessageStep, IInv
<1>6. CASE UNCHANGED enrollVars
  BY <1>2, <1>6 DEF enrollVars, dialog
<1> QED
  BY <1>3, <1>4, <1>5, <1>6 DEF EnrollNext

\* Every reachable state has an enrollment's shape: rows, routes, sessions and the
\* messages of EventRouter's threads.
THEOREM EnrollTypeCorrect == EnrollSpec => []EnrollTypeOK
<1>1. IInv => EnrollTypeOK
  BY DEF IInv
<1> QED
  BY <1>1, IInvInit, IInvStep, PTL DEF EnrollSpec

\* A user who enrolled by text message confirmed the e-mail address of the row,
\* whichever threads, restarts and lost sessions came between the confirmation and
\* RegisterService's "i accept".
THEOREM ConfirmedUsers == EnrollSpec => []UserAsConfirmed
<1>1. IInv => UserAsConfirmed
  BY DEF IInv, Confirmed
<1> QED
  BY <1>1, IInvInit, IInvStep, PTL DEF EnrollSpec

\* As long as a phone's messages are handled one after the other and its session is
\* not lost, RegisterService creates at most one user for it.
THEOREM OneUser == EnrollSpec => []OneUserPerPhone
<1>1. IInv => OneUserPerPhone
  <2> SUFFICES ASSUME IInv, NEW t \in DOMAIN users, NEW u \in DOMAIN users,
                      users[t].by = "sms", users[u].by = "sms",
                      users[t].phone = users[u].phone, users[t].phone \notin raced
               PROVE  t = u
    BY DEF OneUserPerPhone
  <2>1. [step |-> "ACCEPT_POLICY", email |-> users[t].email] =
            [step |-> "ACCEPT_POLICY", email |-> users[u].email]
    BY DEF IInv, OneByOne, UserEndsSession
  <2>2. users[t].email = users[u].email
    BY <2>1
  <2> QED
    BY <2>2 DEF IInv, Unique, RowsDiffer
<1> QED
  BY <1>1, IInvInit, IInvStep, PTL DEF EnrollSpec
=============================================================================
