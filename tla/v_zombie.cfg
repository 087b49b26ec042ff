\* A crash while two steps run.
CONSTANTS
  s1 = s1
  s2 = s2
  s3 = s3
  r1 = r1
  r2 = r2
  r3 = r3
  Nobody = Nobody
  Steps <- ForkSteps
  Deps <- ForkDeps
  Approvals = {}
  Deadlined = {}
  Conditional = {}
  OnError <- ForkFail
  Compensable = {}
  MaxAttempts <- ForkOnce
  Runs <- OneRun
  MaxCrashes = 1
  UserCancels = FALSE
  Overdue = FALSE
  EarlyDecision = FALSE
SPECIFICATION FairSpec
PROPERTIES
  Terminates
CHECK_DEADLOCK FALSE
