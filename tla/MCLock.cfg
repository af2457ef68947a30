SPECIFICATION FairSpec
CONSTANTS
  c1 = c1
  c2 = c2
  none = none
  x = x
  Client = {c1, c2}
  Key = {lk, x}
  lockname = lk
  Value = {c1, c2, none}
  Empty = none
  MaxAcquires = 2
  MaxVersion = 2
INVARIANTS TypeOK MutualExclusion ReleaseFrees LockInv PutsOnce
PROPERTIES IsService AcquireReturns
CHECK_DEADLOCK FALSE
