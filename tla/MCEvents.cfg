\* Two threads report, resolve and sweep one signature while the database drops
\* connections and the process restarts; two calls of the detector.
SPECIFICATION EventsSpec
CONSTANTS
  Signatures = {s1}
  Callers = {c1, c2}
  NoNotice = NoNotice
  Window = 2
  Ttl = 1
  Keep = 2
  Faults = {"lostAck", "dbError", "crash"}
  MaxTime = 3
  MaxId = 3
  MaxNews = 2
\* SyslogDetector: two calls at a time, batches lost, overtaken and repeated, errors and a restart.
  Calls = {c1, c2}
  Silence = 2
  LookBack = 1
  LineFaults = {"drop", "reorder", "retry", "dbError", "crash"}
  MaxLines = 2
  LastLine = 2
  MaxLineTime = 3
  MaxMishaps = 2
SYMMETRY Interchangeable
INVARIANTS
  TypesOK
  OneOpenPerSignature
  LatestForIsAuthoritative
  EvaluatedOnce
  EventFollowsDevice
PROPERTIES
  HistoryIsKept
