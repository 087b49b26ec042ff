\* Two steps side by side and a join, with approvals, policies, a cancel and two crashes.
CONSTANTS
  s1 = s1
  s2 = s2
  s3 = s3
  r1 = r1
  r2 = r2
  r3 = r3
  Nobody = Nobody
  Steps <- ThreeSteps
  Deps <- JoinDeps
  Approvals = {s1, s2}
  Deadlined = {s1}
  Conditional = {s2}
  OnError <- MixedErrors
  Compensable = {s2}
  MaxAttempts <- LastTwice
  Runs <- ThreeRuns
  MaxCrashes = 2
  UserCancels = TRUE
  Overdue = TRUE
  EarlyDecision = TRUE
SPECIFICATION Spec
INVARIANTS
  TypeOK
  DependencyOrder
  CompletedIsTotal
  Consistent
PROPERTIES
  ApprovalGate
CHECK_DEADLOCK FALSE
