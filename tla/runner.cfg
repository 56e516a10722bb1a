SPECIFICATION RunnerFairSpec
CONSTANTS
  Threads = {t1, t2}
  Commands = 2
  MaxSignals = 2
INVARIANTS NoChildIsLeftBehind SnapshotIsInterrupted
PROPERTIES StopEndsCycles
CHECK_DEADLOCK FALSE
