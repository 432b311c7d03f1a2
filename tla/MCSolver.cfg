SPECIFICATION Spec
CONSTANTS
  Threads = 2
  Processors = 2
  Fibers = 2
  Rows = 2
  RowSize = 4
  Complexity = 3
  Rounds = 1
  Compress = 0
  MaxPath = 9
  Shortest = 4
  Longest = 6
  MinLength = 4
  MaxLength = 6
  Rooms = {4}
  Levels = 2
  Graphs <- Family
  Garbage = 0
  MaxFailures = 1
CHECK_DEADLOCK FALSE
INVARIANTS OnePhase CoreKept VerifyExact ProofHolds MissesNothing
PROPERTIES Terminates

