SPECIFICATION Spec
CONSTANTS
  s1 = s1
  s2 = s2
  s3 = s3
  s4 = s4
  s5 = s5
  c1 = c1
  c2 = c2
  c3 = c3
  c4 = c4
  c5 = c5
  None = None
  Server = {s1, s2, s3}
  Electable = {s1, s2}
  Caller = {c1, c2}
  MaxTerm = 3
  MaxLog = 2
  MaxSubmits = 1
  Restartable = {s1}
INVARIANTS TypeOK AnswersOwn ReplicasAgree
PROPERTY IsSubmission
SYMMETRY CallerSymmetry
CHECK_DEADLOCK FALSE
