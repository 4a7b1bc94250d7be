SPECIFICATION Spec
CONSTANTS
  Proc = {p1, p2}
  Name = {a, b}
  Fd = {1}
  SectorCnt = 8
  SectorSize = 1
  EntryCnt = 2
  MaxSize = 1
  ReadSize = {1}
  SeekPos = {0}
  Size = {1, NULL}
  Buffer <- MCBuffer
  MaxFiles = 2
  BounceFails = FALSE
  NULL = NULL
INVARIANT OneThreadInFileSystem
CHECK_DEADLOCK FALSE
