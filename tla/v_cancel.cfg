\* A user cancels while steps run.
CONSTANTS
  s1 = s1
  s2 = s2
  s3 = s3
  r1 = r1
  r2 = r2
  r3 = r3
  Nobody = Nobody
  Steps <- ForkSteps
  Deps <- ForkDeps
  Approvals = {}
  Deadlined = {}
  Conditional = {}
  OnError <- ForkFail
  Compensable = {}
  MaxAttempts <- ForkOnce
  Runs <- OneRun
  MaxCrashes = 0
  UserCancels = TRUE
  Overdue = FALSE
  EarlyDecision = FALSE
SPECIFICATION Spec
PROPERTIES
  CancelSticks
CHECK_DEADLOCK FALSE
