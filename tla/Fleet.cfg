CONSTANTS
  Radios = {0, 1}
  Units = {0, 1, 2}
  Plans <- MCPlans
  MaxPort = 16
  MaxCrashes = 2
  MaxFails = 1
  MaxKills = 1
SPECIFICATION Spec
INVARIANTS OneServerPerRadio NoServerLeft
PROPERTIES ComesBack ShutdownEnds
CHECK_DEADLOCK FALSE
