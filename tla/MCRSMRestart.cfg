SPECIFICATION RestartedSpec
CONSTANTS
  s1 = s1
  s2 = s2
  s3 = s3
  s4 = s4
  s5 = s5
  c1 = c1
  c2 = c2
  c3 = c3
  c4 = c4
  c5 = c5
  None = None
  Server = {s1, s2, s3, s4, s5}
  Electable = {}
  Caller = {c1, c2, c3, c4, c5}
  MaxTerm = 5
  MaxLog = 3
  MaxSubmits = 1
  Restartable = {}
INVARIANT AnswersOwn
SYMMETRY SpareSymmetry
CHECK_DEADLOCK FALSE
