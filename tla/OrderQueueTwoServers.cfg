\* Two server processes share the Redis lock: the monitor no longer covers both.
SPECIFICATION Spec
CONSTANTS
    v1 = v1
    v2 = v2
    v3 = v3
    o1 = o1
    o2 = o2
    j1 = j1
    j2 = j2
    p1 = p1
    p2 = p2
    Volunteers = {v1, v2}
    Orders = {o1, o2}
    Jvms = {j1, j2}
    JvmOf <- TwoProcesses
    Providers = {p1, p2}
    ProviderOf <- ProviderOfOrders
    AnyProvider = AnyProvider
    Free = Free
    MaxRequests = 2
INVARIANTS OneHolder
CHECK_DEADLOCK FALSE
