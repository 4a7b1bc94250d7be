SPECIFICATION Spec
CONSTANTS
  main = main
  other = other
  NULL = NULL
  NONE = NONE
  Writer = {main, other}
  Main = main
  Text <- MCText
  KeyEvent <- MCKeyEvent
  Budgets <- MCBudgets
  Line = 120
  INTQ_BUFSIZE = 3
  COL_CNT = 2
  ROW_CNT = 2
  Client = {c1, c2}
  Device = {0, 1}
  DiskSize = 2
  Datum = {1, 2}
  Partition <- MCPartition
  Faults <- MCFaults
  MaxRequests = 3
  Thread = {t1, t2, t3}
  MaxSleep = 3
  MaxLate = 2
INVARIANTS
  BytesInOrder
  InterruptsArmed
  NoLostWakeupInQueue
  ReadsLastWrite
  WriteIsStored
  NeverEarly
  OneAlarm
PROPERTIES
  ConsoleProgress
  RequestsEnd
  NoneOverdue
  SleeperWakes
CHECK_DEADLOCK FALSE
