\* A participant who enrolls next to requests of the page; or requests of the page and
\* an edit by hand.  Two of them all are served at a time.
SPECIFICATION Spec
CONSTANTS
    p1 = p1
    e1 = e1
    e2 = e2
    w1 = w1
    f1 = f1
    f2 = f2
    None = None
    Replies = {"ENROLL", "1", "I ACCEPT"}
    Phones = {p1}
    TenDigits = {p1}
    OrganizationsGo = FALSE
    Emails = {e1, e2}
    Workers = {w1}
    Forms = {f1, f2}
    CodesEach = 2
    FirstCode = 7
    OldCodes = {}
    MaxInvitations = 1
    MaxRestarts = 1
    MaxRequests = 2
    MaxEdits = 1
    MaxBusy = 2
INVARIANTS TypeOK ActivatedHasUser CodeOfOneUser OneAdministrator 
SYMMETRY Symmetric
CONSTRAINT TextsOrEdits
CHECK_DEADLOCK FALSE
