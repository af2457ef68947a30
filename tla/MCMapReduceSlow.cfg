SPECIFICATION Spec
CONSTANTS
  w1 = w1
  w2 = w2
  w3 = w3
  Worker = {w1, w2}
  NMap = 2
  NReduce = 2
  NRecord = 3
  Slow = TRUE
  MaxCrashes = 0
INVARIANT DoneIsFinished
CHECK_DEADLOCK FALSE
