\* One device id with one request and one admin; the other parts' constants are in the module.
SPECIFICATION ProgressSpec
CONSTANTS
  Requests = {11}
  Admins = {"a1"}
  MaxSaves = 2
\* DeviceHealth: two bays, one of which is sound; one fault of the monitoring and one change.
  Bays = {"b1", "b2"}
  Sound = {"b1"}
  Polls = 2
  PerPoll = 1
  MaxErrors = 1
  MaxChanges = 1
  MaxFaults = 1
\* Topology: two switches, a request that refreshes and an admin of the baseline.
  Order <- McOrder
  Networks <- McNetworks
  Refreshers = {"r1"}
  Wirers = {"a1"}
  MaxMoves = 1
  MaxWireEdits = 1
  MaxCrawlFaults = 1
\* RuleEvents: one operator's rule beside the default one, the tail and the timers.
  Detectors = {"tail"}
  RuleOperators = {"o1"}
  Names = {"n1"}
  MaxRules = 2
  RuleTTL = 1
  MaxRuleEdits = 1
  MaxLines = 1
\* SettingsCache: one row with two values of each column.
  Judges = {"detector"}
  SettingsOperators = {"o1"}
  Severities = {"warning", "critical"}
  Thresholds = {"p1", "p2"}
  Default <- McDefault
  SettingsTTL = 1
  MaxEdits = 2
CHECK_DEADLOCK FALSE
INVARIANTS
  TypesOK
  OneAtATime
  
  
PROPERTIES
  ReplacedPollersExit
  
  RunsEnd
  
  CacheCatchesUp
  
  EditsAreSeen
