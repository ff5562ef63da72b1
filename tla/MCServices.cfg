\* The store with two threads and two signatures and nothing that fails: who
\* announces what.  The other parts by their sections.
SPECIFICATION McSpec
CONSTANTS
  Signatures = {s1, s2}
  Callers = {c1, c2}
  NoNotice = NoNotice
  Window = 1
  Ttl = 1
  Keep = 1
  Faults = {}
  MaxTime = 2
  MaxId = 2
  MaxNews = 2
\* Housekeeping: one schedule.
  Schedules = {"s1"}
  Intervals = {1, 2}
  Policies <- McPolicies
  Broken = {1}
  Day = 2
  MaxAge = 1
  MaxHouseFaults = 1
  MaxHouseEdits = 2
\* SwitchSession
  Sessions = {"sw", "fw"}
  PlatformOf <- McPlatformOf
  Permits = 1
  Retries = 2
  Resends = 2
  MaxRuns <- McMaxRuns
  MaxMishaps = 1
\* Exporter
  Ids = {"d1"}
  MaxDeviceEdits = 3
\* Access: a person whose roles come and go at Keycloak, and a token.
  Visitors = {"b1"}
  Tokens = {"t1"}
  Claims = {{}, {"other", "viewer", "admin"}}
  Granted = {"operator"}
  SessionTtl = 1
  MaxLogins = 2
  PerMinute = 2
  MaxAccessTime = 2
  MaxSids = 2
  MaxRestarts = 1
\* Configuration: two databases, and two devices in the file of an older version.
  Savers = {"a1", "a2"}
  Dsns = {"db1", "db2"}
  NoDsn = "no"
  EnvDsn = "no"
  Legacy = 2
  MaxSaves = 2
  MaxMishandled = 2
\* DnsCache: two addresses that can be looked up and one that cannot, in a cache for one.
  Addresses = {"a1", "a2", "a3"}
  Lookupable = {"a1", "a2"}
  Pages = {"p1", "p2"}
  Workers = {"w1", "w2"}
  Positive = 2
  Negative = 1
  MaxEntries = 1
  Share = 1
  MaxLookups = 2
\* Traffic
  Inventory = {"d1"}
  Platform <- McPlatform
  Flows <- McFlows
  Answers <- McAnswers
  Arithmetic <- McArithmetic
  Requests = {"r1"}
  Searches = {"Te2"}
  Minutes = 2
  Ranges = {}
  Widest = 2
  Limit = 1
  Ceiling = 1
  MaxClock = 3
  MaxRows = 2
  MaxUnread = 1
\* EventBus: two emitters, two workers, a webhook, a browser, and one save.
  Emitters = {e1, e2}
  Wirers = {"a1"}
  Hooks = {"h1"}
  Browsers = {"b1"}
  Severities = {1}
  QueueSize = 1
  Attempts = 2
  MaxEnvelopes = 2
  MaxWorkers = 2
  MaxBusEdits = 1
SYMMETRY Interchangeable
CHECK_DEADLOCK FALSE
INVARIANTS
  TypesOK
  HooksBalance
  AnswersItsCommand
  NoLoopIsLost
  SetupStaysClosed
  EndedStaysOut
  InFlightIsLookedUp
  
  HeardInOrder
PROPERTIES
  KeepsStay
  RefinesEpisodes
