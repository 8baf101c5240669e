SPECIFICATION Spec
CONSTANTS
  MaxEvents = 1
  MaxInFlight = 2
PROPERTY ChosenThemeDrawn
