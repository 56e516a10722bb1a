SPECIFICATION RunnerSpec
CONSTANTS
  Threads = {t1, t2}
  Commands = 2
  MaxSignals = 1
INVARIANTS ForwardedToActiveChildren
CHECK_DEADLOCK FALSE
