---------------------------- MODULE TimerManager ----------------------------
(***************************************************************************)
(* The timer manager of timer.cpp: a set of timers ordered by deadline,   *)
(* and the operations any thread may call on it under its read/write     *)
(* lock (addTimer, Timer::cancel, Timer::refresh, Timer::reset) and the   *)
(* reactor's listExpiredCb with clock-rollover detection.  Each operation *)
(* holds the write lock throughout, so it is one step.  The callbacks     *)
(* listExpiredCb hands out run later, as scheduler callback units.  The   *)
(* wall clock moves forward and may be stepped back.  Clock values are    *)
(* uint64 in the code; they are kept modulo Modulus here.                 *)
(***************************************************************************)
EXTENDS Naturals

CONSTANTS
    Timers,      \* timer objects an application creates
    Intervals,   \* the m_ms values it uses
    Hour,        \* the 60*60*1000 of detectClockRollover
    Base,        \* the clock when the manager is constructed
    MaxClock,    \* bound on the clock
    MaxBack,     \* bound on backward steps of the clock
    Modulus      \* 2^64, scaled

ASSUME /\ Intervals \subseteq Nat /\ Hour \in Nat /\ Base \in Nat
       /\ MaxClock \in Nat /\ Base <= MaxClock /\ MaxBack \in Nat
       /\ Modulus \in Nat /\ MaxClock < Modulus

MaxInterval == CHOOSE m \in Intervals : \A k \in Intervals : k <= m

\* uint64_t subtraction.
Sub64(a, b) == (a + Modulus - b) % Modulus

VARIABLES
    now,        \* GetCurrentMS()
    backs,      \* backward clock steps so far
    prev,       \* m_previousTime
    created,    \* timers handed out by addTimer
    inSet,      \* m_timers
    next,       \* m_next
    ms,         \* m_ms
    recurring,  \* m_recurring
    hasCb,      \* m_cb is non-null
    queued,     \* queued[t]: callbacks of t handed out and not yet run
    cancelOk,   \* how many times cancel() returned true (history)
    ranAfterCancel \* a callback of t ran after cancel() returned true (history)

vars == <<now, backs, prev, created, inSet, next, ms, recurring, hasCb, queued,
          cancelOk, ranAfterCancel>>
clock == <<now, backs>>
history == <<cancelOk, ranAfterCancel>>

\* TimerManager::TimerManager: m_previousTime = GetCurrentMS().
Init ==
    /\ now = Base
    /\ backs = 0
    /\ prev = Base
    /\ created = {}
    /\ inSet = {}
    /\ next = [t \in Timers |-> 0]
    /\ ms = [t \in Timers |-> 0]
    /\ recurring = [t \in Timers |-> FALSE]
    /\ hasCb = [t \in Timers |-> FALSE]
    /\ queued = [t \in Timers |-> 0]
    /\ cancelOk = [t \in Timers |-> 0]
    /\ ranAfterCancel = [t \in Timers |-> FALSE]

(***************************************************************************)
(* TimerManager::addTimer(ms, cb, recurring) (timer.cpp:62-69, 104-110,   *)
(* 201-212): a new Timer with m_next = now + ms is inserted.  The front   *)
(* notification changes no timer state.                                   *)
(***************************************************************************)
AddTimer(t, m, r) ==
    /\ t \notin created
    /\ created' = created \cup {t}
    /\ inSet' = inSet \cup {t}
    /\ next' = [next EXCEPT ![t] = (now + m) % Modulus]
    /\ ms' = [ms EXCEPT ![t] = m]
    /\ recurring' = [recurring EXCEPT ![t] = r]
    /\ hasCb' = [hasCb EXCEPT ![t] = TRUE]
    /\ UNCHANGED <<clock, prev, queued, history>>

(***************************************************************************)
(* Timer::cancel (timer.cpp:7-16): with a callback, clear it and erase    *)
(* the timer from the set; return true.  Otherwise return false.          *)
(***************************************************************************)
Cancel(t) ==
    /\ t \in created
    /\ IF hasCb[t]
       THEN /\ hasCb' = [hasCb EXCEPT ![t] = FALSE]
            /\ inSet' = inSet \ {t}
            /\ cancelOk' = [cancelOk EXCEPT ![t] = @ + 1]
       ELSE UNCHANGED <<hasCb, inSet, cancelOk>>
    /\ UNCHANGED <<clock, prev, created, next, ms, recurring, queued,
                   ranAfterCancel>>

\* Mutant: refresh() re-anchors at the old deadline instead of now.
RefreshFromDeadline(t) ==
    /\ t \in created
    /\ hasCb[t]
    /\ t \in inSet
    /\ next' = [next EXCEPT ![t] = (next[t] + ms[t]) % Modulus]
    /\ UNCHANGED <<clock, prev, created, inSet, ms, recurring, hasCb, queued,
                   history>>

\* Timer::refresh (timer.cpp:19-35): a live timer in the set is re-inserted
\* with m_next = now + m_ms.
Refresh(t) ==
    /\ t \in created
    /\ hasCb[t]
    /\ t \in inSet
    /\ next' = [next EXCEPT ![t] = (now + ms[t]) % Modulus]
    /\ UNCHANGED <<clock, prev, created, inSet, ms, recurring, hasCb, queued,
                   history>>

(***************************************************************************)
(* Timer::reset(ms, from_now) (timer.cpp:38-61): an unchanged interval    *)
(* without from_now returns at once; otherwise a live timer in the set    *)
(* gets the new interval, anchored at now or at its old start            *)
(* m_next - m_ms, and is re-inserted through addTimer(val, lock).         *)
(***************************************************************************)
ResetTo(t, m, fromNow) ==
    LET start == IF fromNow THEN now ELSE Sub64(next[t], ms[t]) IN
    /\ t \in created
    /\ ~(m = ms[t] /\ ~fromNow)
    /\ hasCb[t]
    /\ t \in inSet
    /\ ms' = [ms EXCEPT ![t] = m]
    /\ next' = [next EXCEPT ![t] = (start + m) % Modulus]
    /\ UNCHANGED <<clock, prev, created, inSet, recurring, hasCb, queued,
                   history>>
(***************************************************************************)
(* TimerManager::detectClockRollover (timer.cpp:190-198): the clock went  *)
(* back, and by more than an hour, in uint64 arithmetic.                  *)
(***************************************************************************)
DetectRollover(n) == n < prev /\ n < Sub64(prev, Hour)

(***************************************************************************)
(* TimerManager::listExpiredCb (timer.cpp:145-181), called by the reactor *)
(* after epoll_wait.  With timers present, m_previousTime is updated; on  *)
(* a rollover every timer is taken, otherwise those with m_next <= now    *)
(* (lower_bound on (now, addr) then the equal-deadline scan).  Their      *)
(* callbacks are copied out; a recurring timer is re-inserted with        *)
(* m_next = now + m_ms, the others lose their callback.                   *)
(***************************************************************************)
\* Mutant: a fired one-shot timer keeps its m_cb.
ListExpiredKeepCb ==
    LET rollover == DetectRollover(now)
        due == IF rollover THEN inSet ELSE {t \in inSet : next[t] <= now}
    IN
    /\ inSet # {}
    /\ prev' = now
    /\ rollover \/ due # {}
    /\ queued' = [t \in Timers |-> IF t \in due THEN queued[t] + 1 ELSE queued[t]]
    /\ next' = [t \in Timers |->
                  IF t \in due /\ recurring[t] THEN (now + ms[t]) % Modulus ELSE next[t]]
    /\ inSet' = inSet \ {t \in due : ~recurring[t]}
    /\ UNCHANGED <<clock, created, ms, recurring, hasCb, cancelOk, ranAfterCancel>>

ListExpired ==
    LET rollover == DetectRollover(now)
        due == IF rollover THEN inSet ELSE {t \in inSet : next[t] <= now}
    IN
    /\ inSet # {}
    /\ prev' = now
    /\ IF ~rollover /\ due = {}
       THEN UNCHANGED <<inSet, next, hasCb, queued>>
       ELSE
       /\ queued' = [t \in Timers |-> IF t \in due THEN queued[t] + 1 ELSE queued[t]]
       /\ next' = [t \in Timers |->
                     IF t \in due /\ recurring[t] THEN (now + ms[t]) % Modulus ELSE next[t]]
       /\ inSet' = inSet \ {t \in due : ~recurring[t]}
       /\ hasCb' = [t \in Timers |->
                      IF t \in due /\ ~recurring[t] THEN FALSE ELSE hasCb[t]]
    /\ UNCHANGED <<clock, created, ms, recurring, cancelOk, ranAfterCancel>>

\* A worker runs one handed-out callback.
RunCb(t) ==
    /\ queued[t] > 0
    /\ queued' = [queued EXCEPT ![t] = @ - 1]
    /\ ranAfterCancel' = [ranAfterCancel EXCEPT ![t] = @ \/ cancelOk[t] > 0]
    /\ UNCHANGED <<clock, prev, created, inSet, next, ms, recurring, hasCb,
                   cancelOk>>

\* The wall clock advances, or is stepped back by an administrator or NTP
\* (never below Base: the clock is far past its first hour).
Advance ==
    /\ now < MaxClock
    /\ now' = now + 1
    /\ UNCHANGED <<backs, prev, created, inSet, next, ms, recurring, hasCb,
                   queued, history>>

StepBack(n) ==
    /\ backs < MaxBack
    /\ n < now
    /\ now' = n
    /\ backs' = backs + 1
    /\ UNCHANGED <<prev, created, inSet, next, ms, recurring, hasCb, queued,
                   history>>

Next ==
    \/ \E t \in Timers, m \in Intervals, r \in BOOLEAN : AddTimer(t, m, r)
    \/ \E t \in Timers : Cancel(t) \/ Refresh(t) \/ RunCb(t)
    \/ \E t \in Timers, m \in Intervals, f \in BOOLEAN : ResetTo(t, m, f)
    \/ ListExpired
    \/ Advance
    \/ \E n \in Base..MaxClock : StepBack(n)

(***************************************************************************)
(* IOManager::idle calls listExpiredCb on every turn of its loop, and     *)
(* epoll_wait returns at the latest after MAX_TIMEOUT (3 s), so the call  *)
(* is weakly fair.  Nothing obliges the clock to move or the callbacks to *)
(* run.                                                                    *)
(***************************************************************************)
Spec == Init /\ [][Next]_vars /\ WF_vars(ListExpired)

-----------------------------------------------------------------------------
TypeOK ==
    /\ now \in 0..MaxClock /\ prev \in 0..MaxClock
    /\ created \subseteq Timers /\ inSet \subseteq Timers
    /\ next \in [Timers -> 0..(MaxClock + MaxInterval)]
    /\ ms \in [Timers -> Intervals \cup {0}]
    /\ recurring \in [Timers -> BOOLEAN] /\ hasCb \in [Timers -> BOOLEAN]
    /\ queued \in [Timers -> Nat] /\ cancelOk \in [Timers -> Nat]

(***************************************************************************)
(* A timer is in m_timers exactly while it has a callback, whatever mix  *)
(* of cancel, refresh, reset and expiry it went through.  cancel() relies *)
(* on this: it erases m_timers.find(this) whenever m_cb is set, and       *)
(* erasing end() is undefined behaviour.                                  *)
(***************************************************************************)
SetMatchesCb ==
    /\ inSet \subseteq created
    /\ \A t \in created : (t \in inSet) = hasCb[t]

(***************************************************************************)
(* The spec (section 5) calls Timer::cancel() synchronous: once it has    *)
(* returned true, the timer's callback does not run.                      *)
(***************************************************************************)
CancelFinal == \A t \in Timers : ~ranAfterCancel[t]

=============================================================================
