CONSTANTS
    wa = wa
    wb = wb
    fd1 = fd1
    fd2 = fd2
    r1 = r1
    r2 = r2
    NoTimeout = NoTimeout
    None = None
    Waiters <- MCWaiters
    Fds <- MCFdsShared
    Reactors <- MCReactors1
    FdOf <- MCFdOfShared
    EvOf <- MCEvOf
    Timeout <- MCTimeout
    MaxArrive = 2
    MaxCalls = 2
    Closing <- MCNoClose
SPECIFICATION Spec
INVARIANT TypeOK
INVARIANT EventTableOK
INVARIANT WaiterOwnedOnce
INVARIANT TimeoutOnlyAfterDeadline
