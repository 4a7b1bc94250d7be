CONSTANTS
  Proc = {1, 2}
  Pages <- MCPages
  Layout <- MCLayout
  FrameCnt = 2
  Slot = {1, 2, 3}
  MaxFaults = 3
  NULL = NULL
SPECIFICATION Spec
INVARIANTS PresentIsCurrent TablesAgree SwapExact AssertsHold MappingSaved
