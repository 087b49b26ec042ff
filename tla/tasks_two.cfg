\* Two workers, one slot, two plain tasks and one that outlives its slot, or its POST.
CONSTANTS
  t1 = t1
  t2 = t2
  t3 = t3
  w1 = w1
  w2 = w2
  Nobody = Nobody
  Tasks <- ThreeTasks
  Async = {t2}
  Hasty = {t2}
  Long = {t2}
  Workers <- TwoWorkers
  workerOf <- Split
  MaxParallel = 1
  MaxLosses = 1
SPECIFICATION Spec
INVARIANTS
  TypeOK
  SlotBound
  ProcessHasSlot
  NoSlotLeft
  Decided
PROPERTIES
  CancelledNotFailed
SYMMETRY SameWorker
CHECK_DEADLOCK FALSE
