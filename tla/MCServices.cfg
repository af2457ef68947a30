SPECIFICATION MCSpec
CONSTANTS
  Deployments = {"kvraft", "rivals", "racing", "series"}
  s1 = s1
  s2 = s2
  A = A
  B = B
  Server = {s1, s2}
  Clerk = {A, B}
  Request <- Attempts
  Rollback = FALSE
  Asked <- Asks
  c1 = c1
  c2 = c2
  p = p
  k1 = k1
  vA = vA
  vB = vB
  Empty = Empty
  Key = {k1}
  Value = {vA, vB, Empty}
  NShards = 2
  Gid = {1, 2, 3}
  Key2Shard <- Keyed
  Controller = {c1, c2}
  Client = {p}
  Actor = {c1, c2, p}
  Script <- Calls
  Misled = FALSE
  MaxLog = 2
  MaxNum = 3
  Wanted = {2, 3}
INVARIANTS TypeOK StoresInStep ServesLatest PostedServes StaleIsSuperseded AnswersTrue CallsInOrder
PROPERTY IsService
CONSTRAINT Within
CHECK_DEADLOCK FALSE
SYMMETRY Symmetry
