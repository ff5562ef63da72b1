-------------------------------- MODULE Services --------------------------------
(***************************************************************************)
(* Eight parts of the system side by side.  Their models share no state,   *)
(* so `part` chooses the one that moves and the others rest in their       *)
(* initial states; a behaviour of the whole is one of each part.  The      *)
(* constants are those of the parts, named apart where two parts use the   *)
(* same name.                                                              *)
(***************************************************************************)
EXTENDS Naturals, Sequences

CONSTANTS
  Schedules, Intervals, Policies, Broken, Day, MaxAge, MaxHouseFaults, MaxHouseEdits,        \* Housekeeping
  Sessions, PlatformOf, Permits, Retries, Resends, MaxRuns, MaxMishaps,                      \* SwitchSession
  Ids, MaxDeviceEdits,                                                                       \* Exporter
  Visitors, Tokens, Claims, Granted, SessionTtl, MaxLogins, PerMinute,                       \* Access
    MaxAccessTime, MaxSids, MaxRestarts,
  Savers, Dsns, NoDsn, EnvDsn, Legacy, MaxSaves, MaxMishandled,                              \* Configuration
  Addresses, Lookupable, Pages, Workers, Positive, Negative, MaxEntries, Share, MaxLookups,  \* DnsCache
  Inventory, Platform, Flows, Answers, Arithmetic, Requests, Searches, Minutes, Ranges,         \* Traffic
    Widest, Limit, Ceiling, MaxClock, MaxRows, MaxUnread,
  Emitters, Wirers, Hooks, Browsers, Severities, QueueSize, Attempts,                        \* EventBus
    MaxEnvelopes, MaxWorkers, MaxBusEdits

VARIABLES
  part,
  connected, known, schedule, loop, person, ages, pruner, failed, houseEdits,
  permits, call, chan, mode, owed, inbox, buf, runs, answers, impatient, mishaps,
  deviceEdits, registry, main, loaded, threads, pending, loops, series,
  accessClock, flow, retries, cookie, sso, sids, told, revoked, attempts, token, failures,
  file, tmp, proc, job, rows, answered, reopened, crowded, versions, mishandled,
  names, inflight, lookups, running, asking,
  clock, flows, answer, table, cache, refresher, page, unread,
  queue, worker, delivery, emitting, raced, put, dropped, subscribers, wiring, crossed, dispatcher, notifier,
    made, webhooks, browsers, heard, busEdits

House == INSTANCE Housekeeping WITH
  MaxFaults <- MaxHouseFaults, MaxEdits <- MaxHouseEdits,
  up <- connected, faults <- failed, edits <- houseEdits

Ssh == INSTANCE SwitchSession

Exporting == INSTANCE Exporter WITH MaxEdits <- MaxDeviceEdits, edits <- deviceEdits

Auth == INSTANCE Access WITH
  Browsers <- Visitors, Ttl <- SessionTtl, MaxRetries <- MaxLogins, MaxTime <- MaxAccessTime,
  MaxFailures <- MaxRestarts, now <- accessClock

Config == INSTANCE Configuration WITH Admins <- Savers, MaxFaults <- MaxMishandled, faults <- mishandled

Dns == INSTANCE DnsCache WITH MaxQueue <- MaxLookups, queue <- lookups

Panels == INSTANCE Traffic WITH
  Devices <- Inventory, MaxTime <- MaxClock, MaxFaults <- MaxUnread, faults <- unread

Bus == INSTANCE EventBus WITH
  Admins <- Wirers, MaxEdits <- MaxBusEdits, work <- delivery, edits <- busEdits

ASSUME ServicesAssumption ==
  /\ House!HouseAssumption /\ Ssh!SessionAssumption /\ Exporting!ExporterAssumption /\ Auth!AccessAssumption
  /\ Config!ConfigurationAssumption /\ Dns!DnsAssumption /\ Panels!TrafficAssumption /\ Bus!BusAssumption

-----------------------------------------------------------------------------
houseVars == <<connected, known, schedule, loop, person, ages, pruner, failed, houseEdits>>
sshVars == <<permits, call, chan, mode, owed, inbox, buf, runs, answers, impatient, mishaps>>
exporterVars == <<deviceEdits, registry, main, loaded, threads, pending, loops, series>>
authVars == <<accessClock, flow, retries, cookie, sso, sids, told, revoked, attempts, token, failures>>
configVars == <<file, tmp, proc, job, rows, answered, reopened, crowded, versions, mishandled>>
dnsVars == <<names, inflight, lookups, running, asking>>
trafficVars == <<clock, flows, answer, table, cache, refresher, page, unread>>
busVars == <<queue, worker, delivery, emitting, raced, put, dropped, subscribers, wiring, crossed, dispatcher,
             notifier, made, webhooks, browsers, heard, busEdits>>
servicesVars == <<part, houseVars, sshVars, exporterVars, authVars, configVars, dnsVars, trafficVars, busVars>>

In(p) == part = p

ServicesInit ==
  /\ House!Init /\ Ssh!Init /\ Exporting!Init /\ Auth!Init /\ Config!Init /\ Dns!Init
  /\ Panels!Init /\ Bus!Init

HouseStep == In("house") /\ House!Next
  /\ UNCHANGED <<part, sshVars, exporterVars, authVars, configVars, dnsVars, trafficVars, busVars>>
SshStep == In("ssh") /\ Ssh!Next
  /\ UNCHANGED <<part, houseVars, exporterVars, authVars, configVars, dnsVars, trafficVars, busVars>>
ExporterStep == In("exporter") /\ Exporting!Next
  /\ UNCHANGED <<part, houseVars, sshVars, authVars, configVars, dnsVars, trafficVars, busVars>>
AccessStep == In("access") /\ Auth!Next
  /\ UNCHANGED <<part, houseVars, sshVars, exporterVars, configVars, dnsVars, trafficVars, busVars>>
ConfigurationStep == In("configuration") /\ Config!Next
  /\ UNCHANGED <<part, houseVars, sshVars, exporterVars, authVars, dnsVars, trafficVars, busVars>>
DnsStep == In("dns") /\ Dns!Next
  /\ UNCHANGED <<part, houseVars, sshVars, exporterVars, authVars, configVars, trafficVars, busVars>>
TrafficStep == In("traffic") /\ Panels!Next
  /\ UNCHANGED <<part, houseVars, sshVars, exporterVars, authVars, configVars, dnsVars, busVars>>
BusStep == In("bus") /\ Bus!Next
  /\ UNCHANGED <<part, houseVars, sshVars, exporterVars, authVars, configVars, dnsVars, trafficVars>>

ServicesNext ==
  \/ HouseStep \/ SshStep \/ ExporterStep \/ AccessStep \/ ConfigurationStep \/ DnsStep \/ TrafficStep \/ BusStep

ServicesSpec == ServicesInit /\ [][ServicesNext]_servicesVars

-----------------------------------------------------------------------------
(* The properties of the parts; each is explained where it is defined.     *)

\* The variables of the part that moves have the values its module says.
TypesOK ==
  /\ In("house") => House!TypeOK
  /\ In("ssh") => Ssh!TypeOK
  /\ In("exporter") => Exporting!TypeOK
  /\ In("access") => Auth!TypeOK
  /\ In("configuration") => Config!TypeOK
  /\ In("dns") => Dns!TypeOK
  /\ In("traffic") => Panels!TypeOK
  /\ In("bus") => Bus!TypeOK

\* Housekeeping: a row that is to stay leaves only by somebody's hand.
KeepsStay == House!KeepsStay

\* SwitchSession: what run() returns is the answer of its own command.
AnswersItsCommand == In("ssh") => Ssh!AnswersItsCommand

\* Exporter: every loop that polls is one that main() can stop.
NoLoopIsLost == In("exporter") => Exporting!NoLoopIsLost

\* Configuration: the setup page stays closed once somebody configured the system.
SetupStaysClosed == In("configuration") => Config!SetupStaysClosed

\* Access: a session that Keycloak ended stays ended.
EndedStaysOut == In("access") => Auth!EndedStaysOut

\* DnsCache: an address noted as being looked up is being looked up.
InFlightIsLookedUp == In("dns") => Dns!InFlightIsLookedUp

\* Traffic: the panels of one page agree.
PanelsAgree == In("traffic") => Panels!PanelsAgree

\* EventBus: a receiver hears of envelopes in the order they were put on the queue.
HeardInOrder == In("bus") => Bus!HeardInOrder
=================================================================================
