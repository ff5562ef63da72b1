------------------------------- MODULE Monitoring -------------------------------
(***************************************************************************)
(* The poller beside three more parts that watch the fleet: the topology   *)
(* and its baseline, the syslog rules with the events they raise, and the  *)
(* settings the detectors judge by.  They share no state: `part` chooses   *)
(* the one that moves, and the others rest in their initial states.        *)
(***************************************************************************)
EXTENDS Poller

CONSTANTS
  Order, Networks, Refreshers, Wirers, MaxMoves, MaxWireEdits, MaxCrawlFaults,         \* Topology
  Detectors, RuleOperators, Names, MaxRules, RuleTTL, MaxRuleEdits, MaxLines,        \* RuleEvents
  Judges, SettingsOperators, Severities, Thresholds, Default, SettingsTTL, MaxEdits \* SettingsCache

VARIABLES
  network, moves, wireEdits, crawlFaults, graph, baseline, crawl, accepting,
  rules, ruleEdits, lines, ruleCache, reader, operator, open, due,
  keeper, override, cache, age, caller, seen, edits

Topo == INSTANCE Topology WITH
  Requests <- Refreshers, Admins <- Wirers, MaxEdits <- MaxWireEdits, MaxFaults <- MaxCrawlFaults,
  edits <- wireEdits, faults <- crawlFaults, cache <- graph

Rules == INSTANCE RuleEvents WITH
  Operators <- RuleOperators, TTL <- RuleTTL, MaxEdits <- MaxRuleEdits, edits <- ruleEdits, cache <- ruleCache

Settings == INSTANCE SettingsCache WITH
  Readers <- Judges, Operators <- SettingsOperators, TTL <- SettingsTTL, row <- override

ASSUME PartsAssumption == Topo!TopologyAssumption /\ Rules!RuleAssumption /\ Settings!SettingsAssumption

-----------------------------------------------------------------------------
topoVars == <<network, moves, wireEdits, crawlFaults, graph, baseline, crawl, accepting>>
ruleVars == <<rules, ruleEdits, lines, ruleCache, reader, operator, open, due>>
settingsVars == <<keeper, override, cache, age, caller, seen, edits>>
watchVars == <<topoVars, ruleVars, settingsVars>>

MonitoringInit == PollerInit /\ Topo!Init /\ Rules!Init /\ Settings!Init

PollerStep == PollerNext /\ UNCHANGED watchVars
TopologyStep == In("topology") /\ Topo!Next /\ UNCHANGED <<pollerVars, ruleVars, settingsVars>>
RulesStep == In("rules") /\ Rules!Next /\ UNCHANGED <<pollerVars, topoVars, settingsVars>>
SettingsStep == In("settings") /\ Settings!Next /\ UNCHANGED <<pollerVars, topoVars, ruleVars>>

MonitoringNext == PollerStep \/ TopologyStep \/ RulesStep \/ SettingsStep
MonitoringSpec == MonitoringInit /\ [][MonitoringNext]_<<pollerVars, watchVars>>

-----------------------------------------------------------------------------
\* The variables of the part that moves have the values its module says.
TypesOK ==
  /\ In("fleet") => TypeOK
  /\ In("health") => Health!TypeOK
  /\ In("topology") => Topo!TypeOK
  /\ In("rules") => Rules!TypeOK
  /\ In("settings") => Settings!TypeOK

\* Topology: each host is drawn once, and the edges of one port agree.
MapIsSound == In("topology") => Topo!DrawnOnce /\ Topo!EdgesOfAPortAgree
=============================================================================
