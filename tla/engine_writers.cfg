\* A chain with approvals, cancels and restarts.
CONSTANTS
  s1 = s1
  s2 = s2
  s3 = s3
  r1 = r1
  r2 = r2
  r3 = r3
  Nobody = Nobody
  Steps <- ThreeSteps
  Deps <- ChainDeps
  Approvals = {s1, s2}
  Deadlined = {s2}
  Conditional = {s3}
  OnError <- AllFail
  Compensable = {s1, s2}
  MaxAttempts <- LastTwice
  Runs <- TwoRuns
  MaxCrashes = 2
  UserCancels = TRUE
  Overdue = TRUE
  EarlyDecision = FALSE
SPECIFICATION Spec
INVARIANTS
  SingleWriter
  RollbackOrder
  RolledBack
CHECK_DEADLOCK FALSE
