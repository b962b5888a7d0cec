------------------------------- MODULE FdHook -------------------------------
(***************************************************************************)
(* The per-descriptor table (FdManager and FdCtx, fd_manager.cpp) and the *)
(* descriptor half of the hook layer (hook.cpp): socket, accept, close,   *)
(* fcntl(F_SETFL), ioctl(FIONBIO), setsockopt and the first decision of   *)
(* do_io, which picks between the native call and the reactor path.      *)
(*                                                                         *)
(* The kernel side is modelled by what it does: descriptors are allocated *)
(* lowest-free-first, each is a socket or another kind of file, and each  *)
(* has the O_NONBLOCK status flag.  A call is made either on a scheduler  *)
(* worker (t_hook_enable set by Scheduler::run) or on a thread where the  *)
(* hook is off; each call is one step, as no other thread can name a      *)
(* descriptor before the call that created it returns.  What happens      *)
(* after do_io chooses the reactor path is IoWait's subject.              *)
(***************************************************************************)
EXTENDS Naturals, FiniteSets

CONSTANTS
    Fds,        \* descriptor numbers the process can hold
    Timeouts,   \* values a program passes to setsockopt(SO_RCVTIMEO)
    NoTimeout,  \* the (uint64_t)-1 of FdCtx::m_recvTimeout
    None        \* an empty slot of FdManager::m_datas

ASSUME /\ Fds \subseteq Nat /\ Fds # {} /\ NoTimeout \notin Timeouts

VARIABLES
    osOpen,     \* osOpen[fd]: the descriptor is open in the kernel
    osKind,     \* osKind[fd]: "socket" or "file"
    osNb,       \* osNb[fd]: the kernel's O_NONBLOCK flag
    table,      \* FdManager::m_datas: None or an FdCtx record
    stalled     \* a worker thread is blocked inside a native call

vars == <<osOpen, osKind, osNb, table, stalled>>
kernel == <<osOpen, osKind, osNb>>

Init ==
    /\ osOpen = [fd \in Fds |-> FALSE]
    /\ osKind = [fd \in Fds |-> "file"]
    /\ osNb = [fd \in Fds |-> FALSE]
    /\ table = [fd \in Fds |-> None]
    /\ stalled = FALSE

\* The kernel hands out the lowest free descriptor.
FreeFds == {fd \in Fds : ~osOpen[fd]}
LowestFree == CHOOSE fd \in FreeFds : \A x \in FreeFds : fd <= x

\* A new descriptor of kind k, in blocking mode as socket(2) and accept(2)
\* without SOCK_NONBLOCK create it.
OsCreate(fd, k) ==
    /\ osOpen' = [osOpen EXCEPT ![fd] = TRUE]
    /\ osKind' = [osKind EXCEPT ![fd] = k]

(***************************************************************************)
(* FdCtx::FdCtx and FdCtx::init (fd_manager.cpp:10-52): fstat decides     *)
(* whether fd is a socket; a socket is switched to O_NONBLOCK with        *)
(* fcntl_f and marked m_sysNonblock.  m_userNonblock and m_isClosed start *)
(* false, the timeouts at -1.                                             *)
(***************************************************************************)
NewCtx(fd, isSock) ==
    [isSocket |-> isSock, sysNb |-> isSock, userNb |-> FALSE,
     closed |-> FALSE, rcv |-> NoTimeout]

(***************************************************************************)
(* FdManager::get(fd, true) (fd_manager.cpp:74-98): an existing entry is  *)
(* returned as it is; otherwise a new FdCtx is built and stored.  The     *)
(* vector's growth is abstracted (every modelled fd is below its size).   *)
(* The result is the table and the O_NONBLOCK flags after the call.       *)
(***************************************************************************)
GetCreate(fd, isSock, nb) ==
    IF table[fd] # None
    THEN [tbl |-> table, nb |-> nb]
    ELSE [tbl |-> [table EXCEPT ![fd] = NewCtx(fd, isSock)],
          nb |-> IF isSock THEN [nb EXCEPT ![fd] = TRUE] ELSE nb]

\* FdManager::del (fd_manager.cpp:100-106): the slot is reset.
Del(fd) == [table EXCEPT ![fd] = None]

\* The checks shared by fcntl and ioctl (hook.cpp:374, 532): the table
\* entry exists, is open and is a socket.
Managed(fd) ==
    table[fd] # None /\ ~table[fd].closed /\ table[fd].isSocket

(***************************************************************************)
(* socket() (hook.cpp:212-222): socket_f; on a hooked thread the new      *)
(* descriptor is registered with FdManager::get(fd, true).                *)
(***************************************************************************)
SocketCall(hooked) ==
    LET fd == LowestFree IN
    /\ FreeFds # {}
    /\ OsCreate(fd, "socket")
    /\ IF hooked
       THEN LET g == GetCreate(fd, TRUE, [osNb EXCEPT ![fd] = FALSE]) IN
            /\ table' = g.tbl
            /\ osNb' = g.nb
       ELSE /\ osNb' = [osNb EXCEPT ![fd] = FALSE]
            /\ UNCHANGED table
    /\ UNCHANGED stalled

(***************************************************************************)
(* accept() (hook.cpp:300-306): do_io(accept_f) returns the connection's  *)
(* descriptor, which is registered with get(fd, true) whatever thread the *)
(* call is made on.  (The wait inside do_io is IoWait's subject.)         *)
(***************************************************************************)
AcceptCall ==
    LET fd == LowestFree
        g == GetCreate(fd, TRUE, [osNb EXCEPT ![fd] = FALSE])
    IN
    /\ FreeFds # {}
    /\ OsCreate(fd, "socket")
    /\ table' = g.tbl
    /\ osNb' = g.nb
    /\ UNCHANGED stalled

\* A descriptor of another kind (a file or a pipe end), opened by a call
\* the hook layer does not intercept.
OpenOther ==
    LET fd == LowestFree IN
    /\ FreeFds # {}
    /\ OsCreate(fd, "file")
    /\ osNb' = [osNb EXCEPT ![fd] = FALSE]
    /\ UNCHANGED <<table, stalled>>

(***************************************************************************)
(* close() (hook.cpp:349-362): on a hooked thread, if FdManager knows fd, *)
(* cancelAll wakes its waiters (IoWait) and the entry is deleted; then    *)
(* close_f.  With the hook off only close_f runs.                         *)
(***************************************************************************)
CloseCall(fd, hooked) ==
    /\ osOpen[fd]
    /\ osOpen' = [osOpen EXCEPT ![fd] = FALSE]
    /\ table' = IF hooked /\ table[fd] # None THEN Del(fd) ELSE table
    /\ UNCHANGED <<osKind, osNb, stalled>>

(***************************************************************************)
(* fcntl(fd, F_SETFL, arg) (hook.cpp:370-386), on any thread: for a       *)
(* managed socket the O_NONBLOCK bit of arg is kept as m_userNonblock and *)
(* the bit passed to fcntl_f is forced on when m_sysNonblock is set;      *)
(* otherwise arg goes to fcntl_f unchanged.                                *)
(***************************************************************************)
SetFlCall(fd, nb) ==
    /\ osOpen[fd]
    /\ IF Managed(fd)
       THEN /\ table' = [table EXCEPT ![fd].userNb = nb]
            /\ osNb' = [osNb EXCEPT ![fd] = table[fd].sysNb \/ nb]
       ELSE /\ osNb' = [osNb EXCEPT ![fd] = nb]
            /\ UNCHANGED table
    /\ UNCHANGED <<osOpen, osKind, stalled>>

\* fcntl(fd, F_GETFL) (hook.cpp:387-401): what the caller reads back.
GetFl(fd) == IF Managed(fd) THEN table[fd].userNb ELSE osNb[fd]

(***************************************************************************)
(* ioctl(fd, FIONBIO, &v) (hook.cpp:523-538), on any thread: a managed    *)
(* socket records v as m_userNonblock; then ioctl_f is called with v      *)
(* whatever the descriptor, and sets the kernel flag to v.                *)
(***************************************************************************)
IoctlCall(fd, nb) ==
    /\ osOpen[fd]
    /\ table' = IF Managed(fd) THEN [table EXCEPT ![fd].userNb = nb] ELSE table
    /\ osNb' = [osNb EXCEPT ![fd] = nb]
    /\ UNCHANGED <<osOpen, osKind, stalled>>

\* FdCtx::setTimeout (fd_manager.cpp:54-60) for SO_RCVTIMEO.
SetTimeout(fd, v) == [table EXCEPT ![fd].rcv = v]

(***************************************************************************)
(* setsockopt(SOL_SOCKET, SO_RCVTIMEO) (hook.cpp:544-558): on a hooked    *)
(* thread the timeout goes into the FdCtx when FdManager knows fd (the    *)
(* kernel option is set too, and is moot on a non-blocking socket).       *)
(***************************************************************************)
SetSockOptCall(fd, v) ==
    /\ osOpen[fd]
    /\ table[fd] # None
    /\ table' = SetTimeout(fd, v)
    /\ UNCHANGED <<kernel, stalled>>

(***************************************************************************)
(* do_io on a hooked thread (hook.cpp:88-107): a descriptor FdManager     *)
(* does not know, a closed entry, a non-socket or a user-non-blocking     *)
(* socket goes to the native call, which is what the caller asked for.    *)
(* Otherwise the call is made believing fd non-blocking; when the kernel  *)
(* flag is off and nothing is ready, that native call blocks the worker   *)
(* thread and every fiber queued behind it.  With the flag on it returns  *)
(* EAGAIN and the wait goes to the reactor (IoWait).                      *)
(***************************************************************************)
DoIo(fd) ==
    /\ osOpen[fd]
    /\ table[fd] # None
    /\ ~table[fd].closed
    /\ table[fd].isSocket /\ ~table[fd].userNb
    /\ ~osNb[fd]
    /\ stalled' = TRUE
    /\ UNCHANGED <<kernel, table>>

Next ==
    \/ SocketCall(TRUE) \/ SocketCall(FALSE) \/ AcceptCall \/ OpenOther
    \/ \E fd \in Fds, h \in BOOLEAN : CloseCall(fd, h)
    \/ \E fd \in Fds, nb \in BOOLEAN : SetFlCall(fd, nb) \/ IoctlCall(fd, nb)
    \/ \E fd \in Fds, v \in Timeouts \cup {NoTimeout} : SetSockOptCall(fd, v)
    \/ \E fd \in Fds : DoIo(fd)

Spec == Init /\ [][Next]_vars

-----------------------------------------------------------------------------
CtxRec == [isSocket : BOOLEAN, sysNb : BOOLEAN, userNb : BOOLEAN,
           closed : BOOLEAN, rcv : Timeouts \cup {NoTimeout}]

TypeOK ==
    /\ osOpen \in [Fds -> BOOLEAN]
    /\ osKind \in [Fds -> {"socket", "file"}]
    /\ osNb \in [Fds -> BOOLEAN]
    /\ table \in [Fds -> CtxRec \cup {None}]
    /\ stalled \in BOOLEAN

(***************************************************************************)
(* The spec (sections 4.5 and 4.6) says a socket the hook layer manages   *)
(* is kept non-blocking in the kernel whatever the user asks for, so that *)
(* a hooked call never blocks its worker thread: do_io's native attempt   *)
(* on a socket it treats as blocking-for-the-user always returns at once. *)
(***************************************************************************)
HookedIoNeverBlocks == ~stalled

=============================================================================
