-------------------------------- MODULE MCProgress --------------------------------
(***************************************************************************)
(* What has to come about in the end, in seven parts of the system.  They  *)
(* share no state, so `part` chooses the one that moves; the others rest   *)
(* in their initial states.                                                *)
(***************************************************************************)
EXTENDS Monitoring, TLC

VARIABLES
  queue, worker, work, emitting, raced, put, dropped, subscribers, wiring, crossed, dispatcher, notifier,
    made, webhooks, browsers, heard, busEdits,
  permits, call, chan, mode, owed, inbox, buf, runs, answers, impatient, mishaps

\* One emitter, a webhook and a browser, and one save of the settings.
Bus == INSTANCE EventBus WITH
  Emitters <- {"e1"}, Admins <- {"a1"}, Hooks <- {"h1"}, Browsers <- {"b1"}, Severities <- {1}, QueueSize <- 1,
  Attempts <- 2, MaxEnvelopes <- 2, MaxWorkers <- 1, MaxEdits <- 1, edits <- busEdits

\* A Dell switch and a firewall, one login at a time.
Ssh == INSTANCE SwitchSession WITH
  Sessions <- {"sw", "fw"}, PlatformOf <- [sw |-> "os9", fw |-> "opnsense"],
  Permits <- 1, Retries <- 2, Resends <- 2, MaxRuns <- [sw |-> 1, fw |-> 1], MaxMishaps <- 0

\* Two switches, one cable, a host bonded to two ports of the first that shows
\* itself by LLDP and by a second address, and a hub with silent hosts.
Switches == {"s1", "s2"}
Neighbour(local, name, chassis, portId) ==
  [local |-> local, name |-> name, chassis |-> chassis, portId |-> portId, parent |-> ""]
On(mac, port) == [mac |-> mac, port |-> port]
Cabled ==
  [cables |-> {{<<"s1", "p1">>, <<"s2", "q1">>}},
   lldp |-> [s1 |-> {Neighbour("p1", "q1", "s2", ""), Neighbour("p2", "eth0", "h1", "h1a"),
                     Neighbour("p3", "eth1", "h1", "h1b")},
             s2 |-> {Neighbour("q1", "p1", "s1", "")}],
   mac |-> [s1 |-> {On("h1v", "Po 2"), On("h1a", "Po 2"), On("vm", "Po 2"), On("h2", "p1")},
            s2 |-> {On("h2", "q2"), On("h3", "q2"), On("h3v", "q2")}],
   arp |-> [s1 |-> {<<"h1a", "ip1">>, <<"h1v", "ip1">>, <<"h3", "ip3">>, <<"h3v", "ip3">>}, s2 |-> {}],
   lags |-> [s1 |-> [p \in {"p2", "p3"} |-> "Po 2"], s2 |-> <<>>],
   status |-> [e \in {<<"s1", "p1">>, <<"s1", "p2">>, <<"s1", "p3">>, <<"s2", "q1">>, <<"s2", "q2">>} |->
                 IF e = <<"s1", "p3">> THEN "Down" ELSE "Up"]]
\* The cable is pulled.
Pulled ==
  [Cabled EXCEPT !.cables = {}, !.lldp["s1"] = {r \in @ : r.local # "p1"}, !.lldp["s2"] = {},
                 !.mac["s1"] = {r \in @ : r.port # "p1"}]

McOrder == <<"s1", "s2">>
McNetworks == <<Cabled, Pulled>>

\* The one row of the settings: two values of each column.
McDefault == [severity |-> "warning", params |-> "p1"]

ASSUME Ssh!SessionAssumption /\ Bus!BusAssumption

-----------------------------------------------------------------------------
busVars == <<queue, worker, work, emitting, raced, put, dropped, subscribers, wiring, crossed, dispatcher, notifier,
             made, webhooks, browsers, heard, busEdits>>
sshVars == <<permits, call, chan, mode, owed, inbox, buf, runs, answers, impatient, mishaps>>
talkVars == <<busVars, sshVars>>

ProgressInit ==
  /\ part \in {"fleet", "bus", "ssh", "health", "topology", "rules", "settings"}
  /\ MonitoringInit /\ Bus!Init /\ Ssh!Init
  /\ In("bus") \/ browsers = [b1 |-> [min |-> 1, resolved |-> TRUE]]
  /\ IF In("health") THEN focus # "errors" ELSE platform = "os9" /\ focus = "bays"
  /\ In("settings") \/ keeper = "kinds"

WatchStep == MonitoringNext /\ UNCHANGED talkVars
BusStep == In("bus") /\ Bus!Next /\ UNCHANGED <<pollerVars, watchVars, sshVars>>
SshStep == In("ssh") /\ Ssh!Next /\ UNCHANGED <<pollerVars, watchVars, busVars>>

ProgressNext == WatchStep \/ BusStep \/ SshStep

\* What each module assumes of its part, while that part is the one that moves.
ProgressFairness ==
  /\ \A u \in Users : WF_vars(In("fleet") /\ User(u))
  /\ \A p \in Pollers : SF_vars(In("fleet") /\ Acquire(p)) /\ WF_vars(In("fleet") /\ CheckThread(p))
  /\ \A a \in Admins : WF_vars(In("fleet") /\ admin[a].todo # <<>> /\ Admin(a))
  /\ WF_busVars(In("bus") /\ Bus!Worker(1))
  /\ \A s \in {"sw", "fw"} : WF_sshVars(In("ssh") /\ Ssh!Client(s))
  /\ WF_healthVars(In("health") /\ Health!Poll) /\ WF_healthVars(In("health") /\ Health!PollOptics)
  /\ WF_healthVars(In("health") /\ Health!CheckStep)
  /\ WF_topoVars(In("topology") /\ Topo!StartCrawl(Topo!Loop))
  /\ \A c \in Topo!Crawlers : WF_topoVars(In("topology") /\ Topo!CrawlStep(c))
  /\ WF_ruleVars(In("rules") /\ Rules!Tick) /\ WF_ruleVars(In("rules") /\ Rules!ReaderStep(Rules!Timers))
  /\ WF_ruleVars(In("rules") /\ Rules!OperatorStep("o1"))
  /\ WF_settingsVars(In("settings") /\ Settings!Tick)
  /\ \A c \in {"detector", "o1"} : WF_settingsVars(In("settings") /\ Settings!Look(c))
  /\ WF_settingsVars(In("settings") /\ Settings!Read("detector"))
  /\ WF_settingsVars(In("settings") /\ (Settings!Write("o1") \/ Settings!Invalidate("o1")))

ProgressSpec == ProgressInit /\ [][ProgressNext]_<<pollerVars, watchVars, talkVars>> /\ ProgressFairness

-----------------------------------------------------------------------------
(* The properties of the parts; each is explained where it is defined.     *)

\* EventBus: every envelope on the queue is handed to the subscribers and done with.
EveryEnvelopeIsHandled == Bus!EveryEnvelopeIsHandled

\* SwitchSession: run() ends.
RunsEnd == Ssh!RunsEnd

\* DeviceHealth: a fault that stays gets an event.
FaultsAreTold == Health!FaultsAreTold

\* Topology: the cache comes to show the wiring there is.
CacheCatchesUp == In("topology") => Topo!CacheCatchesUp

\* RuleEvents: what a rule opened is closed once its lines stop.
TimedEventsEnd == Rules!TimedEventsEnd

\* SettingsCache: an edit comes to be seen, and stays seen.
EditsAreSeen == Settings!EditsAreSeen
=============================================================================
