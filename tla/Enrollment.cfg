\* One phone, whose messages two threads may handle at once.
SPECIFICATION EnrollSpec
CONSTANTS
    p1 = p1
    p2 = p2
    e1 = e1
    e2 = e2
    w1 = w1
    w2 = w2
    None = None
    Replies = {"ENROLL", "HUNGRY", "1", "2", "I ACCEPT", "PRIVACY", ""}
    Phones = {p1}
    TenDigits = {p1}
    OrganizationsGo = TRUE
    Emails = {e1, e2}
    Workers = {w1, w2}
    MaxInvitations = 1
    MaxRestarts = 1
INVARIANTS EnrollTypeOK OneUserPerPhone UserAsConfirmed
SYMMETRY Symmetric
CHECK_DEADLOCK FALSE
