SPECIFICATION Spec
CONSTANTS
  t1 = t1
  t2 = t2
  Threads = {t1}
  plain = plain
  fortnite = fortnite
  rockstar = rockstar
  both = both
  Hosts = {plain, fortnite, rockstar, both}
  EzfnHosts = {fortnite, both}
  GtavHosts = {rockstar, both}
  e1 = e1
  e2 = e2
  g1 = g1
  r1 = r1
  r2 = r2
  EzfnServers = {e1, e2}
  GtavServers = {g1}
  Relays = {r1, r2}
  DefaultRelay = r1
  Configs <- MCConfigs
  Empty = Empty
  Garbled = Garbled
  None = None
INVARIANTS
  TypeOK
  TunnelFollowsMode
  ShutdownStopsTunnel
  AnswerUnderUpdates
  AnswerUnderOneConfig
  RedirectKept
PROPERTY ResolveSpec
CHECK_DEADLOCK FALSE
