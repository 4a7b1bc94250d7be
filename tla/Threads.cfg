CONSTANTS
  Main = Main
  Idle = Idle
  t1 = t1
  t2 = t2
  s1 = s1
  l1 = l1
  c1 = c1
  NULL = NULL
  IdleStarted = idle_started
  Thread <- MCThread
  Sema = {s1}
  Lock = {l1}
  Cond = {c1}
  CondLock <- MCCondLock
  InitValue <- MCInitValue
  TIME_SLICE = 2
  MaxValue = 2
SPECIFICATION FairSpec
INVARIANTS TypeOK ElemExclusive NoThreadForgotten MutualExclusion NoLostWakeup NoLostSignal
PROPERTIES ImplementsMonitor ReadyThreadRuns
