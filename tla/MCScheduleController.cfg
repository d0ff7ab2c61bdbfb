SPECIFICATION FairSpec
CONSTRAINT MCBound
CONSTANTS
  Slots = {1, 2}
  Menu <- MCMenu
  Relays = {0, 1}
  Reserved = {0}
  MinutesPerDay = 3
  Weekdays = {"Mon", "Tue"}
  Suns <- MCSuns
  StoredSwitch = {TRUE, FALSE}
  Commands = {"T2", "T3", "T4", "T5", "T6", "SetClock", "Light", "R"}
  MaxStall = 2
  MaxAge = 1
PROPERTY OncePerDay
PROPERTY PulsesEnd
PROPERTY SwitchedOnEventFires
