CONSTANTS
  Main = Main
  NULL = NULL
  Proc = {Main, p1, p2}
  Code = {0}
SPECIFICATION FairSpec
INVARIANTS RefCount NoUseAfterFree NoLeak WaitGetsExitCode ExecInfoAlive
PROPERTIES ExecReturns WaitReturns
