SPECIFICATION Spec
CONSTANTS
  NULL = NULL
  e1 = e1
  e2 = e2
  e3 = e3
  e4 = e4
  ListElem = {e1, e2, e3, e4}
  Key <- MCKey
  HashElem <- MCHashElem
  MIN_BUCKETS = 1
  BEST_ELEMS_PER_BUCKET = 1
  ELEM_BITS = 2
  SizeofElem = 1
  SizeofBitmap = 8
  PGSIZE = 16
  SizeofArena = 8
  MinBlock = 2
  SizeWidth = 6
  RamPages = 6
  UserPageLimit = 2
  RequestSize = {0, 2, 3, 6, 12}
  CallocArgs <- MCCallocArgs
  MaxBlocks = 3
  NUM_THREADS = 2
  NUM_LINES = 4
  LINE_LENGTH = 4
  Files <- MCFiles
INVARIANTS
  ListsAreSequences
  HashIsASet
  BlocksDisjoint
  RoutinesRight
  StartupRight
  LinesCompared
CHECK_DEADLOCK FALSE
