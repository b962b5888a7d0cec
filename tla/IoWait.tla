------------------------------- MODULE IoWait -------------------------------
(***************************************************************************)
(* A blocking read/write issued from a fiber through the hook layer        *)
(* (do_io, hook.cpp) against the IOManager reactor (iomanager.cpp) and the *)
(* timer manager (timer.cpp).                                              *)
(*                                                                         *)
(* Each waiter is one fiber inside one do_io call on a fixed (fd, event).  *)
(* It tries the native call, on EAGAIN arms a condition timer and the      *)
(* event, yields, and when resumed cancels the timer and consults the      *)
(* shared timer_info::cancelled flag.  Reactor threads run the idle loop   *)
(* of IOManager: epoll_wait, listExpiredCb, then the returned batch one    *)
(* event at a time under the fd's mutex.  Expired timer callbacks run as   *)
(* scheduler callback units on any worker.  Which worker runs a resumed    *)
(* fiber is abstracted away (Scheduler.tla models that).  The kernel's     *)
(* edge-triggered ready list is modelled by what it does.                  *)
(***************************************************************************)
EXTENDS Naturals, FiniteSets, FiniteSetsExt

CONSTANTS
    Waiters,      \* fibers, each in one do_io call
    Fds,          \* descriptors
    Reactors,     \* threads running IOManager::idle
    FdOf,         \* FdOf[w]: the fd waiter w reads or writes
    EvOf,         \* EvOf[w]: "READ" or "WRITE"
    Timeout,      \* Timeout[w]: the fd's timeout in ticks, or NoTimeout
    NoTimeout,    \* the (uint64_t)-1 of getTimeout
    None,         \* an empty EventContext
    MaxArrive,    \* bound on readiness edges produced by the peer
    MaxCalls,     \* bound on do_io calls each fiber makes in a row
    Closing       \* fds that another fiber close()s while the waiters run

Events == {"READ", "WRITE"}

ASSUME /\ FdOf \in [Waiters -> Fds] /\ EvOf \in [Waiters -> Events]
       /\ NoTimeout \notin Nat
       /\ Timeout \in [Waiters -> Nat \cup {NoTimeout}]
       /\ None \notin Waiters /\ MaxArrive \in Nat /\ MaxCalls \in Nat \ {0}
       /\ Closing \subseteq Fds

VARIABLES
    pc,         \* waiter's position in do_io
    gen,        \* which of its calls the waiter is in (one timer_info each)
    ready,      \* ready[fd][ev]: the native call would not block
    arrivals,   \* readiness edges produced so far
    curEvents,  \* FdContext::curEvents, also the epoll interest set
    ctx,        \* ctx[fd][ev]: the fiber held by the EventContext
    pending,    \* IOManager::m_pendingEventCount
    rlist,      \* fds on the kernel's ready list
    timers,     \* TimerManager::m_timers: records [w, g, s, left]
    tseq,       \* serial of the last timer a waiter created
    cbq,        \* expired timer callbacks scheduled as units: [w, g, s, ph]
    runq,       \* fibers scheduled by triggerEvent and not yet resumed
    cancelled,  \* timer_info::cancelled of each waiter's call
    result,     \* what do_io returned
    wokenBy,    \* who scheduled the waiter last: "data" or "cancel"
    waited,     \* ticks since the waiter's call started (capped)
    rpc,        \* reactor: "wait" or "proc"
    batch,      \* batch[r]: the events epoll_wait returned, [fd, evs]
    aborted,    \* an MS_ASSERT failed and the process died
    fdst        \* the closing fiber's progress: "open", "cancelled", "closed"

vars == <<pc, gen, aborted, ready, arrivals, curEvents, ctx, pending, rlist, timers, tseq,
          cbq, runq, cancelled, result, wokenBy, waited, rpc, batch, fdst>>
kernel == <<ready, arrivals, rlist>>

HasTimer(w) == Timeout[w] # NoTimeout
\* waited[] counts up to one past the longest timeout, which is all a
\* property about deadlines needs to tell apart.
WaitCap == 1 + Max({0} \cup {Timeout[w] : w \in {v \in Waiters : HasTimer(v)}})

\* The kernel puts fd on its ready list when an interest bit is ready.
ReadyBits(fd, ev) == {e \in ev : ready[fd][e]}
ReList(fd, ev) == IF ReadyBits(fd, ev) # {} THEN rlist \cup {fd} ELSE rlist

\* epoll_ctl MOD with new interest ev re-examines readiness; DEL drops fd.
RlistAfter(fd, ev) == IF ev = {} THEN rlist \ {fd} ELSE ReList(fd, ev)

Armed(w) == EvOf[w] \in curEvents[FdOf[w]] /\ ctx[FdOf[w]][EvOf[w]] = w

Init ==
    /\ pc = [w \in Waiters |-> "try"]
    /\ gen = [w \in Waiters |-> 1]
    /\ aborted = FALSE
    /\ ready = [fd \in Fds |-> [e \in Events |-> FALSE]]
    /\ arrivals = 0
    /\ curEvents = [fd \in Fds |-> {}]
    /\ ctx = [fd \in Fds |-> [e \in Events |-> None]]
    /\ pending = 0
    /\ rlist = {}
    /\ timers = {}
    /\ tseq = [w \in Waiters |-> 0]
    /\ cbq = {}
    /\ runq = {}
    /\ cancelled = [w \in Waiters |-> FALSE]
    /\ result = [w \in Waiters |-> "none"]
    /\ wokenBy = [w \in Waiters |-> "none"]
    /\ waited = [w \in Waiters |-> 0]
    /\ rpc = [r \in Reactors |-> "wait"]
    /\ batch = [r \in Reactors |-> {}]
    /\ fdst = [fd \in Fds |-> "open"]

(***************************************************************************)
(* The peer makes (fd, ev) ready: an edge, queued by the kernel if armed.  *)
(***************************************************************************)
Arrive(fd, e) ==
    /\ arrivals < MaxArrive
    /\ fdst[fd] # "closed"
    /\ ~ready[fd][e]
    /\ arrivals' = arrivals + 1
    /\ ready' = [ready EXCEPT ![fd][e] = TRUE]
    /\ rlist' = IF e \in curEvents[fd] THEN rlist \cup {fd} ELSE rlist
    /\ UNCHANGED <<fdst, pc, gen, aborted, curEvents, ctx, pending, timers, tseq,
                   cbq, runq, cancelled, result, wokenBy, waited, rpc, batch>>

(***************************************************************************)
(* Time passes: every timer's remaining time and every waiter's elapsed    *)
(* time move by one tick.                                                  *)
(***************************************************************************)
Tick ==
    /\ timers' = {[t EXCEPT !.left = IF @ > 0 THEN @ - 1 ELSE 0] : t \in timers}
    /\ waited' = [w \in Waiters |->
                    IF pc[w] # "done" /\ waited[w] < WaitCap
                    THEN waited[w] + 1 ELSE waited[w]]
    /\ UNCHANGED <<fdst, pc, gen, aborted, kernel, curEvents, ctx, pending, tseq,
                   cbq, runq, cancelled, result, wokenBy, rpc, batch>>
(***************************************************************************)
(* do_io, hook.cpp:111-117: the native call.  On a closed fd it fails     *)
(* with EBADF, which do_io returns (hook.cpp:158).  With the fd ready it  *)
(* returns data; on EAGAIN the fiber goes on to arm a timer (when the     *)
(* fd has a timeout) and the event.                                       *)
(***************************************************************************)
Try(w) ==
    /\ pc[w] = "try"
    /\ CASE fdst[FdOf[w]] = "closed" ->
              /\ pc' = [pc EXCEPT ![w] = "done"]
              /\ result' = [result EXCEPT ![w] = "error"]
              /\ UNCHANGED ready
         [] ready[FdOf[w]][EvOf[w]] ->
              /\ ready' = [ready EXCEPT ![FdOf[w]][EvOf[w]] = FALSE]
              /\ pc' = [pc EXCEPT ![w] = "done"]
              /\ result' = [result EXCEPT ![w] = "data"]
         [] OTHER ->
              /\ pc' = [pc EXCEPT ![w] = IF HasTimer(w) THEN "addTimer" ELSE "addEvent"]
              /\ UNCHANGED <<ready, result>>
    /\ UNCHANGED <<fdst, gen, aborted, arrivals, rlist, curEvents, ctx, pending,
                   timers, tseq, cbq, runq, cancelled, wokenBy, waited, rpc, batch>>

(***************************************************************************)
(* hook.cpp:121-132: addConditionTimer(to, cb, winfo).  The timer is      *)
(* inserted into m_timers (timer.cpp:104-110, 201-212).                   *)
(***************************************************************************)
AddTimer(w) ==
    /\ pc[w] = "addTimer"
    /\ timers' = timers \cup {[w |-> w, g |-> gen[w], s |-> tseq[w] + 1,
                               left |-> Timeout[w]]}
    /\ tseq' = [tseq EXCEPT ![w] = @ + 1]
    /\ pc' = [pc EXCEPT ![w] = "addEvent"]
    /\ UNCHANGED <<fdst, gen, aborted, kernel, curEvents, ctx, pending, cbq, runq,
                   cancelled, result, wokenBy, waited, rpc, batch>>

(***************************************************************************)
(* IOManager::addEvent (iomanager.cpp:134-188) with no callback: arm the  *)
(* event with EPOLL_CTL_ADD/MOD, count it, store the current fiber.  An   *)
(* ADD or MOD makes the kernel re-examine readiness of the new interest.  *)
(* The MS_ASSERT on an event already armed is stated by EventTableOK.     *)
(***************************************************************************)
\* Mutant: m_pendingEventCount not incremented on arming.
AddEventNoPendingInc(w) ==
    LET fd == FdOf[w]  e == EvOf[w] IN
    /\ pc[w] = "addEvent"
    /\ e \notin curEvents[fd]
    /\ fdst[fd] # "closed"
    /\ curEvents' = [curEvents EXCEPT ![fd] = @ \cup {e}]
    /\ ctx' = [ctx EXCEPT ![fd][e] = w]
    /\ rlist' = ReList(fd, curEvents[fd] \cup {e})
    /\ pc' = [pc EXCEPT ![w] = "yield"]
    /\ UNCHANGED <<fdst, gen, aborted, ready, arrivals, pending, timers, tseq, cbq,
                   runq, cancelled, result, wokenBy, waited, rpc, batch>>

AddEvent(w) ==
    LET fd == FdOf[w]  e == EvOf[w] IN
    /\ pc[w] = "addEvent"
    /\ e \notin curEvents[fd]
    /\ fdst[fd] # "closed"
    /\ curEvents' = [curEvents EXCEPT ![fd] = @ \cup {e}]
    /\ ctx' = [ctx EXCEPT ![fd][e] = w]
    /\ pending' = pending + 1
    /\ rlist' = ReList(fd, curEvents[fd] \cup {e})
    /\ pc' = [pc EXCEPT ![w] = "yield"]
    /\ UNCHANGED <<fdst, gen, aborted, ready, arrivals, timers, tseq, cbq, runq,
                   cancelled, result, wokenBy, waited, rpc, batch>>

(***************************************************************************)
(* addEvent on an fd closed since the native call: epoll_ctl fails with   *)
(* EBADF and addEvent returns -1 (iomanager.cpp:157-163); do_io cancels   *)
(* its timer and returns -1 (hook.cpp:135-141).                           *)
(***************************************************************************)
AddEventFail(w) ==
    /\ pc[w] = "addEvent"
    /\ EvOf[w] \notin curEvents[FdOf[w]]
    /\ fdst[FdOf[w]] = "closed"
    /\ timers' = {t \in timers : ~(t.w = w /\ t.s = tseq[w])}
    /\ pc' = [pc EXCEPT ![w] = "done"]
    /\ result' = [result EXCEPT ![w] = "error"]
    /\ UNCHANGED <<fdst, gen, aborted, kernel, curEvents, ctx, pending, tseq,
                   cbq, runq, cancelled, wokenBy, waited, rpc, batch>>

\* Fiber::YieldToHold (hook.cpp:143): the fiber swaps out.
Yield(w) ==
    /\ pc[w] = "yield"
    /\ pc' = [pc EXCEPT ![w] = "held"]
    /\ UNCHANGED <<fdst, gen, aborted, kernel, curEvents, ctx, pending, timers, tseq,
                   cbq, runq, cancelled, result, wokenBy, waited, rpc, batch>>

\* A worker takes the scheduled fiber and swaps it in.
Resume(w) ==
    /\ pc[w] = "held"
    /\ w \in runq
    /\ runq' = runq \ {w}
    /\ pc' = [pc EXCEPT ![w] = "cancelTimer"]
    /\ UNCHANGED <<fdst, gen, aborted, kernel, curEvents, ctx, pending, timers, tseq,
                   cbq, cancelled, result, wokenBy, waited, rpc, batch>>

(***************************************************************************)
(* hook.cpp:144-147, Timer::cancel (timer.cpp:7-16): remove this          *)
(* iteration's timer if it is still in the set.  A timer already taken by *)
(* listExpiredCb has m_cb == nullptr and cancel() does nothing.           *)
(***************************************************************************)
CancelTimer(w) ==
    /\ pc[w] = "cancelTimer"
    /\ timers' = {t \in timers : ~(t.w = w /\ t.s = tseq[w])}
    /\ pc' = [pc EXCEPT ![w] = "check"]
    /\ UNCHANGED <<fdst, gen, aborted, kernel, curEvents, ctx, pending, tseq, cbq,
                   runq, cancelled, result, wokenBy, waited, rpc, batch>>

\* hook.cpp:148-152: a set cancellation flag ends the call with ETIMEDOUT,
\* otherwise the call goes back to retry.
Check(w) ==
    /\ pc[w] = "check"
    /\ IF cancelled[w]
       THEN /\ pc' = [pc EXCEPT ![w] = "done"]
            /\ result' = [result EXCEPT ![w] = "timeout"]
       ELSE /\ pc' = [pc EXCEPT ![w] = "try"]
            /\ UNCHANGED result
    /\ UNCHANGED <<fdst, gen, aborted, kernel, curEvents, ctx, pending, timers, tseq,
                   cbq, runq, cancelled, wokenBy, waited, rpc, batch>>

\* The fiber returns from do_io, destroying timer_info, and issues its
\* next call (hook.cpp:108-109: a fresh timer_info per call).
NextCall(w) ==
    /\ pc[w] = "done"
    /\ gen[w] < MaxCalls
    /\ gen' = [gen EXCEPT ![w] = @ + 1]
    /\ pc' = [pc EXCEPT ![w] = "try"]
    /\ cancelled' = [cancelled EXCEPT ![w] = FALSE]
    /\ result' = [result EXCEPT ![w] = "none"]
    /\ wokenBy' = [wokenBy EXCEPT ![w] = "none"]
    /\ waited' = [waited EXCEPT ![w] = 0]
    /\ UNCHANGED <<fdst, aborted, kernel, curEvents, ctx, pending, timers, tseq,
                   cbq, runq, rpc, batch>>

(***************************************************************************)
(* IOManager::idle (iomanager.cpp:334-358): epoll_wait hands this thread  *)
(* the fds on the ready list with their ready interest bits and, being    *)
(* edge-triggered, takes them off the list; then listExpiredCb takes the  *)
(* due timers out of the set (clearing m_cb) and schedules their          *)
(* callbacks (timer.cpp:145-181).                                         *)
(***************************************************************************)
EpollWait(r) ==
    LET due == {t \in timers : t.left = 0} IN
    /\ rpc[r] = "wait"
    /\ batch' = [batch EXCEPT ![r] =
                   {[fd |-> fd, evs |-> ReadyBits(fd, curEvents[fd])] :
                      fd \in {x \in rlist : ReadyBits(x, curEvents[x]) # {}}}]
    /\ rlist' = {}
    /\ timers' = timers \ due
    /\ cbq' = cbq \cup {[w |-> t.w, g |-> t.g, s |-> t.s, ph |-> "lock"] : t \in due}
    /\ rpc' = [rpc EXCEPT ![r] = "proc"]
    /\ UNCHANGED <<fdst, pc, gen, aborted, ready, arrivals, curEvents, ctx, pending,
                   tseq, runq, cancelled, result, wokenBy, waited>>

(***************************************************************************)
(* iomanager.cpp:366-404, one returned event under the fd's mutex.  The   *)
(* event bits are those epoll_wait saw; curEvents is read now.  When none *)
(* of them is still armed the event is skipped.                           *)
(***************************************************************************)
ProcessSkip(r, b) ==
    /\ rpc[r] = "proc"
    /\ b \in batch[r]
    /\ curEvents[b.fd] \cap b.evs = {}
    /\ batch' = [batch EXCEPT ![r] = @ \ {b}]
    /\ UNCHANGED <<fdst, pc, gen, aborted, kernel, curEvents, ctx, pending, timers,
                   tseq, cbq, runq, cancelled, result, wokenBy, waited, rpc>>

\* Otherwise interest is cut to curEvents & ~real_events and every reported
\* bit is passed to FdContext::triggerEvent (iomanager.cpp:82-93), which
\* schedules the stored fiber and empties the slot, with m_pendingEventCount
\* decremented for each.
\* Mutant: the reported events are not removed from curEvents.
ProcessTriggerKeepArmed(r, b) ==
    LET fd == b.fd  woken == {ctx[fd][e] : e \in b.evs} IN
    /\ rpc[r] = "proc"
    /\ b \in batch[r]
    /\ curEvents[fd] \cap b.evs # {}
    /\ b.evs \subseteq curEvents[fd]
    /\ fdst[fd] # "closed"
    /\ batch' = [batch EXCEPT ![r] = @ \ {b}]
    /\ pending' = pending - Cardinality(b.evs)
    /\ runq' = runq \cup woken
    /\ wokenBy' = [w \in Waiters |-> IF w \in woken THEN "data" ELSE wokenBy[w]]
    /\ UNCHANGED <<fdst, pc, gen, aborted, kernel, curEvents, ctx, timers, tseq, cbq,
                   cancelled, result, waited, rpc>>

\* Mutant: the EPOLL_CTL_MOD of the remaining events is taken as not
\* re-examining readiness, so the fd leaves the ready list.
ProcessTriggerNoRelist(r, b) ==
    LET fd == b.fd
        left == curEvents[fd] \ b.evs
        woken == {ctx[fd][e] : e \in b.evs}
    IN
    /\ rpc[r] = "proc"
    /\ b \in batch[r]
    /\ curEvents[fd] \cap b.evs # {}
    /\ b.evs \subseteq curEvents[fd]
    /\ fdst[fd] # "closed"
    /\ batch' = [batch EXCEPT ![r] = @ \ {b}]
    /\ curEvents' = [curEvents EXCEPT ![fd] = left]
    /\ rlist' = rlist \ {fd}
    /\ ctx' = [ctx EXCEPT ![fd] = [e \in Events |-> IF e \in b.evs THEN None ELSE @[e]]]
    /\ pending' = pending - Cardinality(b.evs)
    /\ runq' = runq \cup woken
    /\ wokenBy' = [w \in Waiters |-> IF w \in woken THEN "data" ELSE wokenBy[w]]
    /\ UNCHANGED <<fdst, pc, gen, aborted, ready, arrivals, timers, tseq, cbq,
                   cancelled, result, waited, rpc>>

ProcessTrigger(r, b) ==
    LET fd == b.fd
        left == curEvents[fd] \ b.evs
        woken == {ctx[fd][e] : e \in b.evs}
    IN
    /\ rpc[r] = "proc"
    /\ b \in batch[r]
    /\ curEvents[fd] \cap b.evs # {}
    /\ b.evs \subseteq curEvents[fd]
    /\ fdst[fd] # "closed"
    /\ batch' = [batch EXCEPT ![r] = @ \ {b}]
    /\ curEvents' = [curEvents EXCEPT ![fd] = left]
    /\ rlist' = RlistAfter(fd, left)
    /\ ctx' = [ctx EXCEPT ![fd] = [e \in Events |-> IF e \in b.evs THEN None ELSE @[e]]]
    /\ pending' = pending - Cardinality(b.evs)
    /\ runq' = runq \cup woken
    /\ wokenBy' = [w \in Waiters |-> IF w \in woken THEN "data" ELSE wokenBy[w]]
    /\ UNCHANGED <<fdst, pc, gen, aborted, ready, arrivals, timers, tseq, cbq,
                   cancelled, result, waited, rpc>>

\* A reported bit that is no longer armed reaches triggerEvent, whose
\* MS_ASSERT(curEvents & event) (iomanager.cpp:83) fails: the process dies.
ProcessAbort(r, b) ==
    /\ rpc[r] = "proc"
    /\ b \in batch[r]
    /\ curEvents[b.fd] \cap b.evs # {}
    /\ ~(b.evs \subseteq curEvents[b.fd])
    /\ fdst[b.fd] # "closed"
    /\ aborted' = TRUE
    /\ UNCHANGED <<fdst, pc, gen, kernel, curEvents, ctx, pending, timers, tseq, cbq,
                   runq, cancelled, result, wokenBy, waited, rpc, batch>>

\* The fd was closed since epoll_wait: the epoll_ctl MOD/DEL before the
\* trigger fails with EBADF and the event is skipped (iomanager.cpp:385-395).
ProcessCtlFail(r, b) ==
    /\ rpc[r] = "proc"
    /\ b \in batch[r]
    /\ curEvents[b.fd] \cap b.evs # {}
    /\ fdst[b.fd] = "closed"
    /\ batch' = [batch EXCEPT ![r] = @ \ {b}]
    /\ UNCHANGED <<fdst, pc, gen, aborted, kernel, curEvents, ctx, pending,
                   timers, tseq, cbq, runq, cancelled, result, wokenBy, waited, rpc>>

\* iomanager.cpp:407-411: the batch is done and the idle fiber swaps out;
\* the run loop swaps it back in and the idle loop waits again.
FinishBatch(r) ==
    /\ rpc[r] = "proc"
    /\ batch[r] = {}
    /\ rpc' = [rpc EXCEPT ![r] = "wait"]
    /\ UNCHANGED <<fdst, pc, gen, aborted, kernel, curEvents, ctx, pending, timers,
                   tseq, cbq, runq, cancelled, result, wokenBy, waited, batch>>

(***************************************************************************)
(* The condition timer's callback, run as a callback unit: OnTimer and    *)
(* the hook's lambda lock the weak timer_info (timer.cpp:112-117,         *)
(* hook.cpp:125-128); if the call is still live and not yet cancelled it  *)
(* sets cancelled = ETIMEDOUT (hook.cpp:129) ...                          *)
(***************************************************************************)
\* Mutant: the callback does not tell the call it was armed for from a
\* later call of the same fiber (one timer_info shared by all calls).
TimerCbLockNoGen(c) ==
    /\ c \in cbq
    /\ c.ph = "lock"
    /\ IF pc[c.w] # "done" /\ ~cancelled[c.w]
       THEN /\ cancelled' = [cancelled EXCEPT ![c.w] = TRUE]
            /\ cbq' = (cbq \ {c}) \cup {[c EXCEPT !.ph = "cancel"]}
       ELSE /\ cbq' = cbq \ {c}
            /\ UNCHANGED cancelled
    /\ UNCHANGED <<fdst, pc, gen, aborted, kernel, curEvents, ctx, pending, timers,
                   tseq, runq, result, wokenBy, waited, rpc, batch>>

TimerCbLock(c) ==
    LET live == gen[c.w] = c.g /\ pc[c.w] # "done" IN
    /\ c \in cbq
    /\ c.ph = "lock"
    /\ IF live /\ ~cancelled[c.w]
       THEN /\ cancelled' = [cancelled EXCEPT ![c.w] = TRUE]
            /\ cbq' = (cbq \ {c}) \cup {[c EXCEPT !.ph = "cancel"]}
       ELSE /\ cbq' = cbq \ {c}
            /\ UNCHANGED cancelled
    /\ UNCHANGED <<fdst, pc, gen, aborted, kernel, curEvents, ctx, pending, timers,
                   tseq, runq, result, wokenBy, waited, rpc, batch>>

(***************************************************************************)
(* ... then calls IOManager::cancelEvent(fd, event) (hook.cpp:130,        *)
(* iomanager.cpp:228-259): if the event is still armed it is removed from *)
(* the interest set and triggered, waking the stored fiber; otherwise,    *)
(* or when epoll_ctl fails because the fd was closed, cancelEvent returns *)
(* false and the flag stays set.                                          *)
(***************************************************************************)
\* Mutant: cancelEvent does not decrement m_pendingEventCount.
TimerCbCancelNoDec(c) ==
    LET fd == FdOf[c.w]  e == EvOf[c.w]  h == ctx[fd][e] IN
    /\ c \in cbq
    /\ c.ph = "cancel"
    /\ cbq' = cbq \ {c}
    /\ IF e \in curEvents[fd] /\ fdst[fd] # "closed"
       THEN /\ curEvents' = [curEvents EXCEPT ![fd] = @ \ {e}]
            /\ rlist' = RlistAfter(fd, curEvents[fd] \ {e})
            /\ ctx' = [ctx EXCEPT ![fd][e] = None]
            /\ runq' = runq \cup {h}
            /\ wokenBy' = [wokenBy EXCEPT ![h] = "cancel"]
       ELSE UNCHANGED <<curEvents, rlist, ctx, runq, wokenBy>>
    /\ UNCHANGED <<fdst, pc, gen, aborted, ready, arrivals, pending, timers, tseq,
                   cancelled, result, waited, rpc, batch>>

TimerCbCancel(c) ==
    LET fd == FdOf[c.w]  e == EvOf[c.w]  h == ctx[fd][e] IN
    /\ c \in cbq
    /\ c.ph = "cancel"
    /\ cbq' = cbq \ {c}
    /\ IF e \in curEvents[fd] /\ fdst[fd] # "closed"
       THEN /\ curEvents' = [curEvents EXCEPT ![fd] = @ \ {e}]
            /\ rlist' = RlistAfter(fd, curEvents[fd] \ {e})
            /\ ctx' = [ctx EXCEPT ![fd][e] = None]
            /\ pending' = pending - 1
            /\ runq' = runq \cup {h}
            /\ wokenBy' = [wokenBy EXCEPT ![h] = "cancel"]
       ELSE UNCHANGED <<curEvents, rlist, ctx, pending, runq, wokenBy>>
    /\ UNCHANGED <<fdst, pc, gen, aborted, ready, arrivals, timers, tseq, cancelled,
                   result, waited, rpc, batch>>

(***************************************************************************)
(* close(fd) on a hooked thread, by a fiber other than the waiters        *)
(* (hook.cpp:349-362).  First IOManager::cancelAll (iomanager.cpp:262-    *)
(* 299): under the fd mutex, if any event is armed, EPOLL_CTL_DEL and     *)
(* triggerEvent for each armed event, scheduling its fiber, with          *)
(* m_pendingEventCount decremented for each; then FdManager::del, which   *)
(* IoWait does not see.  timer_info::cancelled is left alone.             *)
(***************************************************************************)
\* Mutant: cancelAll does not decrement m_pendingEventCount.
CloseCancelAllNoDec(fd) ==
    LET woken == {ctx[fd][e] : e \in curEvents[fd]} IN
    /\ fd \in Closing
    /\ fdst[fd] = "open"
    /\ fdst' = [fdst EXCEPT ![fd] = "cancelled"]
    /\ curEvents' = [curEvents EXCEPT ![fd] = {}]
    /\ rlist' = rlist \ {fd}
    /\ ctx' = [ctx EXCEPT ![fd] = [e \in Events |-> None]]
    /\ runq' = runq \cup woken
    /\ wokenBy' = [w \in Waiters |-> IF w \in woken THEN "cancel" ELSE wokenBy[w]]
    /\ UNCHANGED <<pc, gen, aborted, ready, arrivals, pending, timers, tseq,
                   cbq, cancelled, result, waited, rpc, batch>>

\* Mutant: the armed events are deleted as delEvent does, without
\* triggerEvent, so their fibers are not scheduled.
CloseDelAll(fd) ==
    /\ fd \in Closing
    /\ fdst[fd] = "open"
    /\ fdst' = [fdst EXCEPT ![fd] = "cancelled"]
    /\ curEvents' = [curEvents EXCEPT ![fd] = {}]
    /\ rlist' = rlist \ {fd}
    /\ ctx' = [ctx EXCEPT ![fd] = [e \in Events |-> None]]
    /\ pending' = pending - Cardinality(curEvents[fd])
    /\ UNCHANGED <<pc, gen, aborted, ready, arrivals, timers, tseq, cbq, runq,
                   cancelled, result, wokenBy, waited, rpc, batch>>

CloseCancelAll(fd) ==
    LET woken == {ctx[fd][e] : e \in curEvents[fd]} IN
    /\ fd \in Closing
    /\ fdst[fd] = "open"
    /\ fdst' = [fdst EXCEPT ![fd] = "cancelled"]
    /\ curEvents' = [curEvents EXCEPT ![fd] = {}]
    /\ rlist' = rlist \ {fd}
    /\ ctx' = [ctx EXCEPT ![fd] = [e \in Events |-> None]]
    /\ pending' = pending - Cardinality(curEvents[fd])
    /\ runq' = runq \cup woken
    /\ wokenBy' = [w \in Waiters |-> IF w \in woken THEN "cancel" ELSE wokenBy[w]]
    /\ UNCHANGED <<pc, gen, aborted, ready, arrivals, timers, tseq, cbq,
                   cancelled, result, waited, rpc, batch>>

(***************************************************************************)
(* ... then close_f (hook.cpp:362).  The kernel drops the fd from the     *)
(* epoll interest set and its ready list; an FdContext event armed since  *)
(* cancelAll stays in curEvents and in m_pendingEventCount.               *)
(***************************************************************************)
CloseNative(fd) ==
    /\ fdst[fd] = "cancelled"
    /\ fdst' = [fdst EXCEPT ![fd] = "closed"]
    /\ rlist' = rlist \ {fd}
    /\ UNCHANGED <<pc, gen, aborted, ready, arrivals, curEvents, ctx, pending,
                   timers, tseq, cbq, runq, cancelled, result, wokenBy, waited,
                   rpc, batch>>

\* After an MS_ASSERT failure nothing runs any more.
Crashed ==
    /\ aborted
    /\ UNCHANGED vars

Waiter(w) ==
    Try(w) \/ AddTimer(w) \/ AddEvent(w) \/ Yield(w) \/ Resume(w)
    \/ AddEventFail(w) \/ CancelTimer(w) \/ Check(w) \/ NextCall(w)

Reactor(r) ==
    EpollWait(r) \/ FinishBatch(r)
    \/ \E b \in batch[r] :
          ProcessSkip(r, b) \/ ProcessTrigger(r, b) \/ ProcessAbort(r, b)
          \/ ProcessCtlFail(r, b)

Closer(fd) == CloseCancelAll(fd) \/ CloseNative(fd)

TimerCb(c) == TimerCbLock(c) \/ TimerCbCancel(c)

Next ==
    \/ /\ ~aborted
       /\ \/ \E w \in Waiters : Waiter(w)
          \/ \E r \in Reactors : Reactor(r)
          \/ \E c \in cbq : TimerCb(c)
          \/ \E fd \in Closing : Closer(fd)
          \/ \E fd \in Fds, e \in Events : Arrive(fd, e)
          \/ Tick
    \/ Crashed

(***************************************************************************)
(* Every waiting fiber, reactor thread and callback unit that can run     *)
(* eventually does (the scheduler's workers are OS threads), time         *)
(* advances, and a close() that has run cancelAll reaches close_f.        *)
(* Whether a close starts at all is up to the application, and the peer  *)
(* is under no obligation to make an fd ready.                            *)
(***************************************************************************)
Fairness ==
    /\ \A w \in Waiters : WF_vars(Waiter(w))
    /\ \A r \in Reactors : WF_vars(Reactor(r))
    /\ WF_vars(\E c \in cbq : TimerCb(c))
    /\ \A fd \in Closing : WF_vars(CloseNative(fd))
    /\ WF_vars(Tick)

Spec == Init /\ [][Next]_vars /\ Fairness

-----------------------------------------------------------------------------
PcValues == {"try", "addTimer", "addEvent", "yield", "held", "cancelTimer",
             "check", "done"}
TimerRec == [w : Waiters, g : 1..MaxCalls, s : Nat, left : Nat]

TypeOK ==
    /\ pc \in [Waiters -> PcValues]
    /\ gen \in [Waiters -> 1..MaxCalls]
    /\ ready \in [Fds -> [Events -> BOOLEAN]]
    /\ curEvents \in [Fds -> SUBSET Events]
    /\ ctx \in [Fds -> [Events -> Waiters \cup {None}]]
    /\ pending \in Nat
    /\ rlist \subseteq Fds
    /\ timers \subseteq TimerRec
    /\ runq \subseteq Waiters
    /\ cancelled \in [Waiters -> BOOLEAN]
    /\ result \in [Waiters -> {"none", "data", "timeout", "error"}]
    /\ fdst \in [Fds -> {"open", "cancelled", "closed"}]
    /\ wokenBy \in [Waiters -> {"none", "data", "cancel"}]
    /\ waited \in [Waiters -> 0..WaitCap]
    /\ rpc \in [Reactors -> {"wait", "proc"}]

(***************************************************************************)
(* The event table stays consistent across addEvent, the reactor's        *)
(* trigger and the timer's cancelEvent: m_pendingEventCount equals the    *)
(* number of armed (fd, event) pairs (IOManager::stopping relies on it),  *)
(* an event is armed exactly when its EventContext holds a fiber, and a   *)
(* fiber arming its event never finds it armed already (the MS_ASSERT of  *)
(* addEvent).                                                             *)
(***************************************************************************)
EventTableOK ==
    /\ pending = Cardinality({p \in Fds \X Events : p[2] \in curEvents[p[1]]})
    /\ \A fd \in Fds, e \in Events : (e \in curEvents[fd]) = (ctx[fd][e] # None)
    /\ \A w \in Waiters : pc[w] = "addEvent" => EvOf[w] \notin curEvents[FdOf[w]]

(***************************************************************************)
(* Exactly-once wake-up: a fiber parked in do_io is either still armed in *)
(* the event table or scheduled to resume, never both and never neither,  *)
(* whichever of the reactor and the timeout callback gets to it; and a    *)
(* fiber not parked is neither armed nor scheduled.  Both would be a      *)
(* double resume; neither a fiber lost for ever.                          *)
(***************************************************************************)
WaiterOwnedOnce ==
    \A w \in Waiters :
        IF pc[w] \in {"yield", "held"}
        THEN Armed(w) # (w \in runq)
        ELSE ~Armed(w) /\ w \notin runq

(***************************************************************************)
(* A do_io call reports ETIMEDOUT only once its timeout has elapsed since *)
(* the call began: a condition timer left over from an earlier call of    *)
(* the same fiber never ends a later one (the weak timer_info of          *)
(* hook.cpp:120,125-128).                                                 *)
(***************************************************************************)
TimeoutOnlyAfterDeadline ==
    \A w \in Waiters : result[w] = "timeout" => waited[w] >= Timeout[w]

(***************************************************************************)
(* The process never dies on an MS_ASSERT in the reactor: an event that   *)
(* epoll_wait returned is triggered only if it is still armed.            *)
(***************************************************************************)
NoAbort == ~aborted

(***************************************************************************)
(* The spec (section 5) says the cancellation flag distinguishes "woken   *)
(* by data" from "woken by timeout": a call the reactor resumed because   *)
(* its fd became ready does not end with ETIMEDOUT.                       *)
(***************************************************************************)
NoTimeoutAfterDataWake ==
    \A w \in Waiters : result[w] = "timeout" => wokenBy[w] # "data"

(***************************************************************************)
(* Every do_io call on an fd with a timeout returns, with data or with    *)
(* ETIMEDOUT.                                                             *)
(***************************************************************************)
WaitEnds == \A w \in Waiters : pc[w] = "try" ~> pc[w] = "done"


(***************************************************************************)
(* The edge-triggered reactor loses no readiness: an armed event whose fd *)
(* is ready eventually resumes its fiber, through the ready list         *)
(* re-examined by every epoll_ctl ADD/MOD and drained by epoll_wait, even *)
(* when a reported event was skipped or another event of the fd fired,   *)
(* unless the fd is closed first; no close is assumed to happen.         *)
(***************************************************************************)
ReadyIsDelivered ==
    \A w \in Waiters :
        (Armed(w) /\ ready[FdOf[w]][EvOf[w]])
            ~> (pc[w] \notin {"yield", "held"} \/ fdst[FdOf[w]] = "closed")

(***************************************************************************)
(* The spec (section 4.6) says close() cancels every armed event of the   *)
(* fd, unblocking whatever is parked on it with an error, before the      *)
(* native close: no fiber stays parked in the event table of a closed fd  *)
(* (where epoll can never report it and cancelEvent can no longer reach   *)
(* it, so its timeout cannot end the wait either).                        *)
(***************************************************************************)
NoWaiterOnClosedFd ==
    \A w \in Waiters : fdst[FdOf[w]] = "closed" => ~Armed(w)

=============================================================================
