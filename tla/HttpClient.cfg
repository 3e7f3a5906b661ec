SPECIFICATION HttpFairSpec
CONSTANTS
  c1 = c1  c2 = c2
  Calls = {c1, c2}
  MaxRetries = 1
INVARIANTS HttpTypeOK AnsweredWasApplied AppliedOncePerAttempt
PROPERTIES EveryCallEnds ImplementsRemoteCall
CHECK_DEADLOCK FALSE
