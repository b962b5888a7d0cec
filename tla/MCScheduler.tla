---------------------------- MODULE MCScheduler ----------------------------
(* Instantiation of Scheduler for TLC.                                    *)
EXTENDS Scheduler

CONSTANTS t1, t2, t3, f1, f2, f3

\* One spawned thread beside the caller thread (IOManager(2) in the tests).
MCThreadsWithCaller == {t1}
\* Two spawned threads and no caller thread (Scheduler(n, false)).
MCThreadsNoCaller == {t1, t2}
MCFibers3 == {f1, f2, f3}
MCFibers2 == {f1, f2}
\* Units pinned to a thread, and units for any thread.
MCPinsAll == MCThreadsWithCaller \cup {t2, AnyThread}
MCPinsNone == {AnyThread}
=============================================================================
