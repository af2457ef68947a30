SPECIFICATION BehindSpec
CONSTANTS
  s1 = s1
  s2 = s2
  s3 = s3
  c1 = c1
  Server = {s1, s2, s3}
  None = None
  Command = {c1}
  MaxTerm = 3
  MaxIndex = 2
  MaxInFlight = 1
  Lossy = FALSE
  MaxRPCs = 1
  Electable = {}
  Restartable = {}
  Applying = {s1, s2, s3}
  Compactable = {}
PROPERTY CatchUp
CHECK_DEADLOCK FALSE
