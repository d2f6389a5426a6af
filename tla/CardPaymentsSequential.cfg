\* One request at a time, of any kind and in any order, with failures.
SPECIFICATION Spec
CONSTANTS
    o1 = o1
    o2 = o2
    o3 = o3
    w1 = w1
    w2 = w2
    w3 = w3
    c1 = c1
    c2 = c2
    SubTotal0 <- SubTotals
    Balance0 <- Balances
    None = None
    Free = Free
    Orders = {o1, o2}
    Cards = {c1, c2}
    Workers = {w1}
    Amounts = {1}
    Edits = {"activate", "deactivate", "recharge", "update"}
    MaxRequests = 4
    MaxFailures = 1
    Disciplined = FALSE
INVARIANTS TypeOK NothingLost
CHECK_DEADLOCK FALSE
