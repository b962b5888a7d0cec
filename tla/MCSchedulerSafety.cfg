\* use_caller scheduler: one spawned worker and the caller thread.
CONSTANTS
  t1 = t1
  t2 = t2
  t3 = t3
  f1 = f1
  f2 = f2
  f3 = f3
  Root = t2
  Threads <- MCThreadsWithCaller
  Fibers <- MCFibers3
  UseCaller = TRUE
  AnyThread = AnyThread
  NoFiber = NoFiber
  MaxYields = 1
  Pins <- MCPinsAll
SPECIFICATION Spec
INVARIANT TypeOK
INVARIANT ExclusiveExec
INVARIANT SingleOwner
PROPERTY UnpinnedStopReturns
PROPERTY UnpinnedUnitsFinish
