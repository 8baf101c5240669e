SPECIFICATION Spec
CONSTANTS
  t1 = t1
  t2 = t2
  Threads = {t1, t2}
  f1 = f1
  f2 = f2
  f3 = f3
  f4 = f4
  Fds = {f1, f2, f3, f4}
  ListenFd = f1
  P2PFd = f2
  c1 = c1
  c2 = c2
  Conns = {c1, c2}
  Listener = Listener
  P2P = P2P
  None = None
  NativeErrors = {"EINTR", "ENOTSOCK", "EPROTO"}
  MaxInterrupts = 1
INVARIANTS
  TypeOK
  AcceptedOnce
  GivenComplete
  AnswerMatchesCause
PROPERTIES
  AcceptSpec
  AcceptEnds
SYMMETRY Interchangeable
