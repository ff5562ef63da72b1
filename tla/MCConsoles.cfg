\* Two sessions for the one slot of one device, and one thing that goes wrong.
SPECIFICATION ConsolesSpec
CONSTANTS
  MaxSessions = 2
  Devices = {d1}
  PerDevice = 1
  Total = 2
  MaxMishaps = 1
CHECK_DEADLOCK FALSE
INVARIANTS
  CapsHold
  RowTellsTheTruth
PROPERTIES
  SlotComesBack
  DueIsServed
