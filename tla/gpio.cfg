SPECIFICATION GpioSpec
CONSTANTS
  Actors <- MCActors
  MAX_PIN_NUMBER = 1
  FselPins = 3
  PullPins = 2
  Owner <- MCRaceOwner
  Flags <- MCRaceFlags
  SetupArgs <- MCRaceSetups
  AssignArgs <- MCRaceAssigns
  SetArgs <- MCRaceSets
  MapFails = TRUE
INVARIANT GpioTypeOK
INVARIANT SetupKept
INVARIANT OnlyPastFunctions
INVARIANT LevelAsAsked
PROPERTY NoGlitch
CHECK_DEADLOCK FALSE
