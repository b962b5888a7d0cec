\* use_caller scheduler: stop() while a yielding fiber is between --m_activeThreadCount and its requeue.
CONSTANTS
  t1 = t1
  t2 = t2
  t3 = t3
  f1 = f1
  f2 = f2
  f3 = f3
  Root = t2
  Threads <- MCThreadsWithCaller
  Fibers <- MCFibers2
  UseCaller = TRUE
  AnyThread = AnyThread
  NoFiber = NoFiber
  MaxYields = 1
  Pins <- MCPinsAll
SPECIFICATION Spec
PROPERTY StopReturns
