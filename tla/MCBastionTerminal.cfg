\* One session of each mode: a person, a device that prints and drops, an admin, and a failing database.
SPECIFICATION Spec
CONSTANTS
  Lines = {"show", "reload"}
  Allowed = {"show"}
  MaxRecord = 1
  Limits = {"cap"}
  Faults = {"hiccup"}
  MaxWritten = 2
  MaxPrinted = 2
CHECK_DEADLOCK FALSE
INVARIANTS
  TypeOK
  
  EndedRecordIsComplete
  EndReasonIsHonest
