SPECIFICATION FormFairSpec
CONSTANTS
  r1 = r1
  r2 = r2
  s1 = s1
  Rows <- MCRows
  Simulated <- MCSimulated
  MaxTries = 2
  WatchRetries = 2
  MountRetries = 1
  Forms <- MCForms
INVARIANTS FormTypeOK GreenMeansServed CountIsOfSubmission OneAtATime DeletedOnce
PROPERTY PendingEnds
CHECK_DEADLOCK FALSE
