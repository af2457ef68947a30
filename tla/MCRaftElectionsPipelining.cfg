SPECIFICATION MCSpec
CONSTANTS
  Scenarios = {"elections", "pipelining"}
  s1 = s1
  s2 = s2
  s3 = s3
  c1 = c1
  Server = {s1, s2, s3}
  None = None
  Command = {c1}
  MaxTerm = 2
  MaxIndex = 2
  MaxInFlight = 2
  Lossy = TRUE
  MaxRPCs = 4
  Electable = {s2, s3}
  Restartable = {s1, s2, s3}
  Applying = {}
  Compactable = {}
INVARIANTS TypeOK ElectionSafety DiskIsCurrent ElectionInv MatchIndexSound IndexesInRange
PROPERTIES VoteOncePerTerm CommitMonotonic
SYMMETRY FollowerSymmetry
CHECK_DEADLOCK FALSE
