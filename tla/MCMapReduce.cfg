SPECIFICATION FairSpec
CONSTANTS
  w1 = w1
  w2 = w2
  w3 = w3
  Worker = {w1, w2, w3}
  NMap = 3
  NReduce = 2
  NRecord = 3
  Slow = FALSE
  MaxCrashes = 2
INVARIANTS TypeOK CountsReports ReducesReadAll DoneIsFinished
PROPERTY JobIsDone
CHECK_DEADLOCK FALSE
