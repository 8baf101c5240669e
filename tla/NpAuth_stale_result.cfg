SPECIFICATION Spec
CONSTANTS
  t1 = t1
  Threads = {t1}
  Limit = 1
  Offset = 1
  IntMax = 3
  Ids <- MCIds
  MaxSlots = 2
INVARIANT CompletedResultIsOwn
