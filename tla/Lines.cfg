SPECIFICATION LcsSpec
CONSTANTS
  NUM_THREADS = 2
  NUM_LINES = 4
  LINE_LENGTH = 4
  Files = {}
INVARIANT WithinArrays
CHECK_DEADLOCK FALSE
