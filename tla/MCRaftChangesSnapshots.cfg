SPECIFICATION MCSpec
CONSTANTS
  Scenarios = {"leader changes", "snapshots"}
  s1 = s1
  s2 = s2
  s3 = s3
  c1 = c1
  Server = {s1, s2, s3}
  None = None
  Command = {c1}
  MaxTerm = 4
  MaxIndex = 2
  MaxInFlight = 1
  Lossy = TRUE
  MaxRPCs = 2
  Electable = {s2, s3}
  Restartable = {s1, s2}
  Applying = {s2}
  Compactable = {1}
INVARIANTS IndexesInRange LogMatching StateMachineSafety LeaderCompleteness ServiceInStep
PROPERTY LeaderAppendOnly
CHECK_DEADLOCK FALSE
