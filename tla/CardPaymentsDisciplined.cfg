\* Volunteers work on different orders and are through with a card before its lock lapses.
SPECIFICATION Spec
CONSTANTS
    o1 = o1
    o2 = o2
    o3 = o3
    w1 = w1
    w2 = w2
    w3 = w3
    c1 = c1
    c2 = c2
    SubTotal0 <- SubTotals
    Balance0 <- Balances
    None = None
    Free = Free
    Orders = {o1, o2, o3}
    Cards = {c1, c2}
    Workers = {w1, w2, w3}
    Amounts = {1}
    Edits = {}
    MaxRequests = 7
    MaxFailures = 0
    Disciplined = TRUE
INVARIANTS NothingLost OneOrderPerCard CompletedIsPaid CancelledIsUnpaid
PROPERTIES ImplementsCardLedger
SYMMETRY Symmetric
CHECK_DEADLOCK FALSE
