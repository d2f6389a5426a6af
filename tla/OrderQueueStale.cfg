\* One server process, a list of open orders that has gone stale.
SPECIFICATION Spec
CONSTANTS
    v1 = v1
    v2 = v2
    v3 = v3
    o1 = o1
    o2 = o2
    j1 = j1
    j2 = j2
    p1 = p1
    p2 = p2
    Volunteers = {v1, v2}
    Orders = {o1, o2}
    Jvms = {j1}
    JvmOf <- OneProcess
    Providers = {p1, p2}
    ProviderOf <- ProviderOfOrders
    AnyProvider = AnyProvider
    Free = Free
    MaxRequests = 2
PROPERTIES HandsOutUncompleted
CHECK_DEADLOCK FALSE
