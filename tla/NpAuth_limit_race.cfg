SPECIFICATION Spec
CONSTANTS
  t1 = t1
  t2 = t2
  Threads = {t1, t2}
  Limit = 1
  Offset = 1
  IntMax = 4
  Ids <- MCIds
  MaxSlots = 3
SYMMETRY ThreadSymmetry
INVARIANT LimitRespected
