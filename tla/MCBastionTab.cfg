\* One session, nothing fails: does an abandoned tab ever hold its connection?
SPECIFICATION Spec
CONSTANTS
  MaxSessions = 1
  Devices = {d1}
  PerDevice = 1
  Total = 1
  MaxMishaps = 0
CHECK_DEADLOCK FALSE
PROPERTIES
  AbandonedTabFreesItsSlot
