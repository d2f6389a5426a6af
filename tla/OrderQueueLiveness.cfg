\* Two server processes, so that RLock.lock can block, two volunteers on one of
\* them, so that one can wait for its monitor meanwhile.
SPECIFICATION FairSpec
CONSTANTS
    v1 = v1
    v2 = v2
    v3 = v3
    o1 = o1
    o2 = o2
    j1 = j1
    j2 = j2
    p1 = p1
    p2 = p2
    Volunteers = {v1, v2, v3}
    Orders = {o1}
    Jvms = {j1, j2}
    JvmOf <- TwoAndOne
    Providers = {p1}
    ProviderOf <- ProviderOfOrders
    AnyProvider = AnyProvider
    Free = Free
    MaxRequests = 3
PROPERTIES NextAnswers
CHECK_DEADLOCK FALSE
