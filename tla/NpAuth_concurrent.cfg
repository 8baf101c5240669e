SPECIFICATION Spec
CONSTANTS
  t1 = t1
  t2 = t2
  Threads = {t1, t2}
  Limit = 1
  Offset = 1
  IntMax = 3
  Ids <- MCIds
  MaxSlots = 2
SYMMETRY ThreadSymmetry
INVARIANTS
  TypeOK
  ActiveCountExact
  NoSlotLeak
  LimitWithoutOverlap
  ServedAtMostOnce
  TokenBehindSuccess
  FailureReported
PROPERTY DecidedIsFinal
