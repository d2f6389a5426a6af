\* Two phones, whose messages are handled one after the other; nobody has an
\* e-mail address.
SPECIFICATION EnrollSpec
CONSTANTS
    p1 = p1
    p2 = p2
    e1 = e1
    e2 = e2
    w1 = w1
    w2 = w2
    None = None
    Replies = {"ENROLL", "HUNGRY", "1", "2", "I ACCEPT", "PRIVACY", ""}
    Phones = {p1, p2}
    TenDigits = {p1, p2}
    OrganizationsGo = FALSE
    Emails = {NONE}
    Workers = {w1}
    MaxInvitations = 2
    MaxRestarts = 0
PROPERTIES AcceptEnrolls
CHECK_DEADLOCK FALSE
