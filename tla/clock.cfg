SPECIFICATION ClockLiveSpec
CONSTANTS
  LowMod = 3
  HighMod = 4
  Amounts <- MCAmounts
  MapFails = TRUE
  StepsPerCarry = 5
INVARIANT ClockTypeOK
INVARIANT ClockInv
INVARIANT AtMostTwoPasses
PROPERTY ReadsTheClock
PROPERTY DelayNotEarly
PROPERTY DelayEnds
CHECK_DEADLOCK FALSE
