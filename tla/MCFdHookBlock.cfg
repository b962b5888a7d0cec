\* Sockets, other files, and every descriptor call on two descriptor numbers.
CONSTANTS
    t1 = t1
    NoTimeout = NoTimeout
    None = None
    Fds <- MCFds
    Timeouts <- MCTimeouts
SPECIFICATION Spec
INVARIANT HookedIoNeverBlocks
