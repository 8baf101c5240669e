SPECIFICATION Spec
CONSTANTS
  t1 = t1
  t2 = t2
  None = None
  Threads = {t1, t2}
  Interfaces <- MCInterfaces
  Loopback <- MCLoopback
  MaxFds = 2
  MaxCalls = 3
INVARIANTS
  TypeOK
  StoredWhole
  OutcomeMatchesStore
  FdAccounting
PROPERTIES
  AddressSpec
  LeakIsFinal
  RetrievalEnds
  RetrieveReturns
