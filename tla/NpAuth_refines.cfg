SPECIFICATION Spec
CONSTANTS
  t1 = t1
  Threads = {t1}
  Limit = 2
  Offset = 1
  IntMax = 3
  Ids <- FewIds
  MaxSlots = 2
PROPERTY ServiceSpec
