\* A chain with an approval, retries and restarts that come in time.
CONSTANTS
  s1 = s1
  s2 = s2
  s3 = s3
  r1 = r1
  r2 = r2
  r3 = r3
  Nobody = Nobody
  Steps <- ThreeSteps
  Deps <- ChainDeps
  Approvals = {s2}
  Deadlined = {s2}
  Conditional = {s3}
  OnError <- AllFail
  Compensable = {s1, s2}
  MaxAttempts <- LastTwice
  Runs <- TwoRuns
  MaxCrashes = 2
  UserCancels = FALSE
  Overdue = FALSE
  EarlyDecision = FALSE
SPECIFICATION FairSpec
PROPERTIES
  ImplementsContract
CHECK_DEADLOCK FALSE
