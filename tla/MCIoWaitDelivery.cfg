\* A reader and a writer parked on one socket with no timeout, and a third
\* fiber that may close that socket: a wait ends only by the reactor
\* delivering its event or by a close that really happens.
CONSTANTS
    wa = wa
    wb = wb
    fd1 = fd1
    fd2 = fd2
    r1 = r1
    r2 = r2
    NoTimeout = NoTimeout
    None = None
    Waiters <- MCWaiters
    Fds <- MCFdsShared
    Reactors <- MCReactors1
    FdOf <- MCFdOfShared
    EvOf <- MCEvOf
    Timeout <- MCNoTimeouts
    MaxArrive = 2
    MaxCalls = 1
    Closing <- MCCloseFd1
SPECIFICATION Spec
INVARIANT EventTableOK
INVARIANT WaiterOwnedOnce
PROPERTY ReadyIsDelivered
