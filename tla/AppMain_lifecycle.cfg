SPECIFICATION Spec
CONSTANTS
  MaxEvents = 3
  MaxInFlight = 3
INVARIANTS
  TypeOK
  UsedWhileAlive
  ExitReleases
  NoResizeLost
PROPERTIES
  ReleaseOrder
  NoDestroyInFlight
  QuitExits
  QuitEnds
