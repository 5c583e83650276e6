SPECIFICATION GpioSpec
CONSTANTS
  Actors <- MCAlone
  MAX_PIN_NUMBER = 1
  FselPins = 3
  PullPins = 2
  Owner <- MCAloneOwner
  Flags <- MCAloneFlags
  SetupArgs <- MCAlonePins
  AssignArgs <- MCAlonePins
  SetArgs <- MCAlonePins
  MapFails = FALSE
PROPERTY ToggleToggles
CHECK_DEADLOCK FALSE
