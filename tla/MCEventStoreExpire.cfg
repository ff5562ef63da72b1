\* The timer and one other thread, nothing fails.
SPECIFICATION Spec
CONSTANTS
  Signatures = {s1}
  Callers = {c1, c2}
  NoNotice = NoNotice
  Window = 1
  Ttl = 1
  Keep = 1
  Faults = {}
  MaxTime = 2
  MaxId = 2
  MaxNews = 3
PROPERTIES
  ExpiresOnlySilent
