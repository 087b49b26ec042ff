\* One instance and one schedule, of an agent or of a process, in every initial state of its row.
CONSTANTS
  s1 = s1
  i1 = i1
  daily = daily
  sunday = sunday
  None = None
  Schedules <- OneSchedule
  Instances <- OneInstance
  Runs <- TwoRuns
  Crons = {daily, sunday}
  Refused = {sunday}
  MaxEdits = 1
  MaxFaults = 1
SPECIFICATION FairSpec
INVARIANTS
  TypeOK
  HoldsItsLock
PROPERTIES
  LocksFreed
  RunsDecided
  JobsFollow
CHECK_DEADLOCK FALSE
