----------------------------- MODULE Scheduler -----------------------------
(***************************************************************************)
(* The fiber scheduler of src/src/scheduler.cpp: a FIFO of runnable units *)
(* (m_fibers), a pool of worker threads each running Scheduler::run, and  *)
(* the thread that constructs and later stops the scheduler.              *)
(*                                                                         *)
(* A unit is a fiber id with an affinity (a thread or AnyThread).  A callback   *)
(* unit is modelled as a fiber created in INIT, which is what run() turns *)
(* it into (cb_fiber->reset(func) or new Fiber(func)).  The user code a   *)
(* fiber runs is abstracted to what it can do to the scheduler: yield to  *)
(* READY, switchTo another thread, schedule a new unit, or return/throw.  *)
(* MaxYields bounds how often one fiber yields: every fiber body is       *)
(* finite code.                                                            *)
(*                                                                         *)
(* With UseCaller the constructing thread (Root) is also a worker, but    *)
(* its run loop (m_rootFiber) only starts inside stop().                  *)
(***************************************************************************)
EXTENDS Integers, Sequences, FiniteSets, SequencesExt

CONSTANTS
  Threads,     \* spawned worker threads (m_threads)
  Root,        \* the caller thread, a worker when UseCaller
  UseCaller,   \* use_caller argument of the constructor
  Fibers,      \* fiber ids a run may create
  AnyThread,         \* thread_id = -1: any thread may run the unit
  NoFiber,     \* empty FiberAndFunc
  MaxYields,   \* bound on the yields of one fiber body
  Pins         \* affinities the application passes to schedule/switchTo

ASSUME Root \notin Threads /\ UseCaller \in BOOLEAN /\ MaxYields \in Nat
ASSUME AnyThread \in Pins

\* The threads that run Scheduler::run.
Workers == IF UseCaller THEN Threads \cup {Root} ELSE Threads

\* Fiber::FiberState, plus NONE for an id no unit has used yet.
FiberStates == {"NONE", "INIT", "HOLD", "EXEC", "TERM", "READY", "EXCEPT"}

VARIABLES
  queue,      \* m_fibers: sequence of [f |-> fiber, t |-> affinity]
  fstate,     \* m_state of every fiber
  yields,     \* yields made so far by each fiber body (bound only)
  pc,         \* where each worker is in Scheduler::run
  cur,        \* ft.fiber / cb_fiber being run by each worker
  idleSt,     \* m_state of each worker's idle fiber
  active,     \* m_activeThreadCount
  stopping,   \* m_stopping
  autoStop,   \* m_autoStop
  mainPc      \* the constructing thread: "running", "joining", "done"

vars == <<queue, fstate, yields, pc, cur, idleSt, active, stopping,
          autoStop, mainPc>>

PcValues == {"dormant", "pick", "noWork", "run", "settle", "requeue",
             "exited"}

Unit == [f : Fibers, t : Workers \cup {AnyThread}]


(***************************************************************************)
(* Scheduler::stopping(): stop requested, queue empty, nothing active.   *)
(***************************************************************************)
Stopping ==
  autoStop /\ stopping /\ queue = <<>> /\ active = 0

(***************************************************************************)
(* scheduleNoLock: append the unit (it is always non-empty here).         *)
(***************************************************************************)
scheduleNoLock(f, t) == queue' = Append(queue, [f |-> f, t |-> t])

(***************************************************************************)
(* The test in the scan of run() that lets worker w take unit u.          *)
(***************************************************************************)
EligibleNoExecCheck(u, w) == u.t \in {AnyThread, w}

Eligible(u, w) ==
  /\ u.t \in {AnyThread, w}
  /\ fstate[u.f] # "EXEC"

\* Index of the first unit w may take, 0 if none.
FirstEligible(w) == SelectInSeq(queue, LAMBDA u : Eligible(u, w))

-----------------------------------------------------------------------------
(***************************************************************************)
(* Scheduler::start() has run: m_stopping is false, spawned threads are  *)
(* in their run loops, the root loop waits for stop().                    *)
(***************************************************************************)
Init ==
  /\ queue = <<>>
  /\ fstate = [f \in Fibers |-> "NONE"]
  /\ yields = [f \in Fibers |-> 0]
  /\ pc = [w \in Workers |-> IF w = Root THEN "dormant" ELSE "pick"]
  /\ cur = [w \in Workers |-> NoFiber]
  /\ idleSt = [w \in Workers |-> "INIT"]
  /\ active = 0
  /\ stopping = FALSE
  /\ autoStop = FALSE
  /\ mainPc = "running"

\* Mutant: the scan forgets ++m_activeThreadCount.
PickNoActiveInc(w) ==
  LET i == FirstEligible(w) IN
  /\ pc[w] = "pick"
  /\ i # 0
  /\ LET f == queue[i].f IN
       /\ queue' = RemoveAt(queue, i)
       /\ fstate' = [fstate EXCEPT ![f] = "EXEC"]
       /\ cur' = [cur EXCEPT ![w] = f]
       /\ pc' = [pc EXCEPT ![w] = "run"]
  /\ UNCHANGED <<active, yields, idleSt, stopping, autoStop, mainPc>>

(***************************************************************************)
(* The locked scan of run() followed by swapIn of the unit taken: the     *)
(* first unit whose affinity allows w and whose fiber is not EXEC is       *)
(* erased, m_activeThreadCount is incremented and the fiber becomes EXEC. *)
(***************************************************************************)
Pick(w) ==
  LET i == FirstEligible(w) IN
  /\ pc[w] = "pick"
  /\ i # 0
  /\ LET f == queue[i].f IN
       /\ queue' = RemoveAt(queue, i)
       /\ active' = active + 1
       /\ fstate' = [fstate EXCEPT ![f] = "EXEC"]
       /\ cur' = [cur EXCEPT ![w] = f]
       /\ pc' = [pc EXCEPT ![w] = "run"]
  /\ UNCHANGED <<yields, idleSt, stopping, autoStop, mainPc>>

\* The same scan finding nothing for w.
PickNone(w) ==
  /\ pc[w] = "pick"
  /\ FirstEligible(w) = 0
  /\ pc' = [pc EXCEPT ![w] = "noWork"]
  /\ UNCHANGED <<queue, fstate, yields, cur, idleSt, active, stopping,
                 autoStop, mainPc>>

(***************************************************************************)
(* No unit: leave the loop if the idle fiber has terminated, otherwise    *)
(* swap into Scheduler::idle, which returns (TERM) once stopping() holds  *)
(* and otherwise yields back to the loop.                                 *)
(***************************************************************************)
NoWork(w) ==
  /\ pc[w] = "noWork"
  /\ IF idleSt[w] = "TERM"
       THEN /\ pc' = [pc EXCEPT ![w] = "exited"]
            /\ UNCHANGED idleSt
       ELSE /\ idleSt' = [idleSt EXCEPT ![w] =
                            IF Stopping THEN "TERM" ELSE "HOLD"]
            /\ pc' = [pc EXCEPT ![w] = "pick"]
  /\ UNCHANGED <<queue, fstate, yields, cur, active, stopping, autoStop,
                 mainPc>>

-----------------------------------------------------------------------------
(* What the fiber body running on w can do before it swaps out.           *)

\* Fiber::YieldToReady: state READY, swapOut.
YieldToReady(w) ==
  LET f == cur[w] IN
  /\ pc[w] = "run"
  /\ yields[f] < MaxYields
  /\ fstate' = [fstate EXCEPT ![f] = "READY"]
  /\ yields' = [yields EXCEPT ![f] = @ + 1]
  /\ pc' = [pc EXCEPT ![w] = "settle"]
  /\ UNCHANGED <<queue, cur, idleSt, active, stopping, autoStop, mainPc>>

(***************************************************************************)
(* Scheduler::switchTo(t) to another thread: schedule(Fiber::GetThis(),t) *)
(* then YieldToHold, which leaves the state EXEC.  The fiber is queued    *)
(* while it still runs on w.  (switchTo to AnyThread or to w returns at once.)  *)
(***************************************************************************)
SwitchTo(w, t) ==
  LET f == cur[w] IN
  /\ pc[w] = "run"
  /\ t \in Pins \ {w, AnyThread}
  /\ yields[f] < MaxYields
  /\ scheduleNoLock(f, t)
  /\ yields' = [yields EXCEPT ![f] = @ + 1]
  /\ pc' = [pc EXCEPT ![w] = "settle"]
  /\ UNCHANGED <<fstate, cur, idleSt, active, stopping, autoStop, mainPc>>

\* Scheduler::schedule(cb, t) of a new unit from inside a fiber.
Spawn(w, g, t) ==
  /\ pc[w] = "run"
  /\ fstate[g] = "NONE"
  /\ scheduleNoLock(g, t)
  /\ fstate' = [fstate EXCEPT ![g] = "INIT"]
  /\ UNCHANGED <<yields, pc, cur, idleSt, active, stopping, autoStop, mainPc>>

\* Fiber::MainFunc: the callback returns (TERM) or throws (EXCEPT).
Finish(w) ==
  /\ pc[w] = "run"
  /\ \E s \in {"TERM", "EXCEPT"} : fstate' = [fstate EXCEPT ![cur[w]] = s]
  /\ pc' = [pc EXCEPT ![w] = "settle"]
  /\ UNCHANGED <<queue, yields, cur, idleSt, active, stopping, autoStop,
                 mainPc>>

-----------------------------------------------------------------------------
\* Back in run() after swapIn returned: --m_activeThreadCount.
Settle(w) ==
  /\ pc[w] = "settle"
  /\ active' = active - 1
  /\ pc' = [pc EXCEPT ![w] = "requeue"]
  /\ UNCHANGED <<queue, fstate, yields, cur, idleSt, stopping, autoStop,
                 mainPc>>

\* Mutant: every fiber that did not finish is scheduled again.
RequeueHoldAsReady(w) ==
  LET f == cur[w] IN
  /\ pc[w] = "requeue"
  /\ IF fstate[f] \notin {"TERM", "EXCEPT"}
       THEN /\ scheduleNoLock(f, AnyThread)
            /\ UNCHANGED fstate
       ELSE UNCHANGED <<fstate, queue>>
  /\ cur' = [cur EXCEPT ![w] = NoFiber]
  /\ pc' = [pc EXCEPT ![w] = "pick"]
  /\ UNCHANGED <<yields, idleSt, active, stopping, autoStop, mainPc>>


\* Mutant: the READY branch is missing, a yielded fiber is marked HOLD.
RequeueReadyAsHold(w) ==
  LET f == cur[w] IN
  /\ pc[w] = "requeue"
  /\ fstate' = [fstate EXCEPT ![f] = IF @ \in {"TERM", "EXCEPT"} THEN @ ELSE "HOLD"]
  /\ cur' = [cur EXCEPT ![w] = NoFiber]
  /\ pc' = [pc EXCEPT ![w] = "pick"]
  /\ UNCHANGED <<queue, yields, idleSt, active, stopping, autoStop, mainPc>>
(***************************************************************************)
(* A READY fiber is scheduled again (affinity AnyThread); one that is    *)
(* neither READY nor finished is marked HOLD; ft / cb_fiber is released. *)
(***************************************************************************)
Requeue(w) ==
  LET f == cur[w] IN
  /\ pc[w] = "requeue"
  /\ IF fstate[f] = "READY"
       THEN /\ scheduleNoLock(f, AnyThread)
            /\ UNCHANGED fstate
       ELSE /\ fstate' = [fstate EXCEPT ![f] =
                            IF @ \in {"TERM", "EXCEPT"} THEN @ ELSE "HOLD"]
            /\ UNCHANGED queue
  /\ cur' = [cur EXCEPT ![w] = NoFiber]
  /\ pc' = [pc EXCEPT ![w] = "pick"]
  /\ UNCHANGED <<yields, idleSt, active, stopping, autoStop, mainPc>>

-----------------------------------------------------------------------------
(* The constructing thread.                                                *)

\* sc.schedule(cb, t) before stop().
MainSchedule(g, t) ==
  /\ mainPc = "running"
  /\ fstate[g] = "NONE"
  /\ scheduleNoLock(g, t)
  /\ fstate' = [fstate EXCEPT ![g] = "INIT"]
  /\ UNCHANGED <<yields, pc, cur, idleSt, active, stopping, autoStop, mainPc>>

\* Mutant: stop() that never sets m_autoStop.
StopNoAutoStop ==
  /\ mainPc = "running"
  /\ stopping' = TRUE
  /\ pc' = IF UseCaller THEN [pc EXCEPT ![Root] = "pick"] ELSE pc
  /\ mainPc' = "joining"
  /\ UNCHANGED <<queue, fstate, yields, cur, idleSt, active, autoStop>>

(***************************************************************************)
(* Scheduler::stop(): set m_autoStop and m_stopping, tickle, and if there *)
(* is a root fiber and stopping() is still false, run the root loop on    *)
(* this thread (m_rootFiber->call()); then join the spawned threads.      *)
(***************************************************************************)
Stop ==
  /\ mainPc = "running"
  /\ autoStop' = TRUE
  /\ stopping' = TRUE
  /\ LET stopNow == queue = <<>> /\ active = 0 IN
       pc' = IF UseCaller /\ ~stopNow THEN [pc EXCEPT ![Root] = "pick"]
                                      ELSE pc
  /\ mainPc' = "joining"
  /\ UNCHANGED <<queue, fstate, yields, cur, idleSt, active>>

\* m_rootFiber->call() has come back and every thread is joined.
Join ==
  /\ mainPc = "joining"
  /\ \A w \in Workers : pc[w] \in {"dormant", "exited"}
  /\ mainPc' = "done"
  /\ UNCHANGED <<queue, fstate, yields, pc, cur, idleSt, active, stopping,
                 autoStop>>

\* stop() has returned: the program is over.
Done ==
  /\ mainPc = "done"
  /\ UNCHANGED vars

-----------------------------------------------------------------------------
WorkerStep(w) ==
  \/ Pick(w) \/ PickNone(w) \/ NoWork(w)
  \/ YieldToReady(w) \/ Finish(w) \/ Settle(w) \/ Requeue(w)
  \/ \E t \in Pins : SwitchTo(w, t)
  \/ \E g \in Fibers, t \in Pins : Spawn(w, g, t)

Next ==
  \/ \E w \in Workers : WorkerStep(w)
  \/ \E g \in Fibers, t \in Pins : MainSchedule(g, t)
  \/ Stop \/ Join \/ Done

(***************************************************************************)
(* OS threads are scheduled fairly, so every worker keeps stepping; the  *)
(* main thread eventually calls stop(); a running fiber eventually swaps  *)
(* out (its body is finite).  Spawning new work is never forced.          *)
(***************************************************************************)
Fairness ==
  /\ \A w \in Workers :
       WF_vars(Pick(w) \/ PickNone(w) \/ NoWork(w) \/ Settle(w) \/ Requeue(w)
               \/ Finish(w))
  /\ WF_vars(Stop)
  /\ WF_vars(Join)

Spec == Init /\ [][Next]_vars /\ Fairness

-----------------------------------------------------------------------------
TypeOK ==
  /\ queue \in Seq(Unit)
  /\ fstate \in [Fibers -> FiberStates]
  /\ yields \in [Fibers -> 0..MaxYields]
  /\ pc \in [Workers -> PcValues]
  /\ cur \in [Workers -> Fibers \cup {NoFiber}]
  /\ idleSt \in [Workers -> {"INIT", "HOLD", "TERM"}]
  /\ active \in 0..Cardinality(Workers)
  /\ stopping \in BOOLEAN /\ autoStop \in BOOLEAN
  /\ mainPc \in {"running", "joining", "done"}

(***************************************************************************)
(* A fiber is owned by at most one worker: no two workers hold the same   *)
(* fiber between taking it from m_fibers and releasing ft.  This is what  *)
(* the "fiber->getState() == EXEC" skip in run() must ensure when a fiber *)
(* is scheduled (switchTo) before it has swapped out of its old thread.   *)
(***************************************************************************)
ExclusiveExec ==
  \A w1, w2 \in Workers :
    w1 # w2 /\ cur[w1] # NoFiber => cur[w1] # cur[w2]

\* Places that hold fiber f as something to run.
Owners(f) ==
  Cardinality({i \in 1..Len(queue) : queue[i].f = f})
    + Cardinality({w \in Workers : cur[w] = f})

(***************************************************************************)
(* Every unit is consumed exactly once: a fiber is in m_fibers or held by *)
(* a worker at most once, except in the switchTo window where it is       *)
(* queued while its old worker has not yet marked it HOLD; and no         *)
(* finished fiber is ever queued.                                          *)
(***************************************************************************)
SingleOwner ==
  \A f \in Fibers :
    /\ \/ Owners(f) <= 1
       \/ /\ Owners(f) = 2
          /\ fstate[f] = "EXEC"
          /\ \E w \in Workers : cur[w] = f /\ pc[w] \in {"settle", "requeue"}
    /\ \A i \in 1..Len(queue) : fstate[queue[i].f] \notin {"TERM", "EXCEPT"}

(***************************************************************************)
(* stop() returns: every worker leaves its run loop and is joined.        *)
(***************************************************************************)
StopReturns == <>(mainPc = "done")

(***************************************************************************)
(* Every scheduled unit runs to completion: stop() never leaves a queued  *)
(* unit behind.                                                            *)
(***************************************************************************)
AllUnitsFinish ==
  \A f \in Fibers : fstate[f] = "INIT" ~> fstate[f] \in {"TERM", "EXCEPT"}

(***************************************************************************)
(* In a run where no unit is ever pinned to a thread (every schedule and  *)
(* switchTo passes thread -1), stop() returns and every scheduled unit    *)
(* runs to completion.  Pinned units can hang stop() (sched_stop_hang).   *)
(***************************************************************************)
NeverPinned == [](\A i \in 1..Len(queue) : queue[i].t = AnyThread)

UnpinnedStopReturns == NeverPinned => StopReturns

UnpinnedUnitsFinish == NeverPinned => AllUnitsFinish

=============================================================================
