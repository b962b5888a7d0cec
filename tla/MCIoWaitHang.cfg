CONSTANTS
    wa = wa
    wb = wb
    fd1 = fd1
    fd2 = fd2
    r1 = r1
    r2 = r2
    NoTimeout = NoTimeout
    None = None
    Waiters <- MCWaiters
    Fds <- MCFdsApart
    Reactors <- MCReactors1
    FdOf <- MCFdOfApart
    EvOf <- MCEvOf
    Timeout <- MCTimeout
    MaxArrive = 2
    MaxCalls = 1
    Closing <- MCNoClose
SPECIFICATION Spec
PROPERTY WaitEnds
