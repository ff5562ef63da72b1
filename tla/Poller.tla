--------------------------------- MODULE Poller ---------------------------------
(***************************************************************************)
(* The threads that poll the devices, and what becomes of one device's     *)
(* readings.  The models share no state: `part` chooses the one that       *)
(* moves, and the other rests in its initial state.                        *)
(***************************************************************************)
EXTENDS DeviceFleet

CONSTANTS
  Bays, Sound, Polls, PerPoll, MaxErrors, MaxChanges, MaxFaults  \* DeviceHealth

VARIABLES
  part,
  platform, focus, truth, changes, faults, deviceStatus, pass, snap, memory, event

Health == INSTANCE DeviceHealth WITH status <- deviceStatus

ASSUME ReadingsAssumption == Health!HealthAssumption

-----------------------------------------------------------------------------
healthVars == <<platform, focus, truth, changes, faults, deviceStatus, pass, snap, memory, event>>
pollerVars == <<part, vars, healthVars>>

In(p) == part = p

PollerInit == Init /\ Health!Init

FleetStep == In("fleet") /\ Next /\ UNCHANGED <<part, healthVars>>
HealthStep == In("health") /\ Health!Next /\ UNCHANGED <<part, vars>>

PollerNext == FleetStep \/ HealthStep
PollerSpec == PollerInit /\ [][PollerNext]_pollerVars

-----------------------------------------------------------------------------
\* DeviceHealth: a bay that never failed has no event.
NoFalseAlarm == In("health") => Health!NoFalseAlarm
=================================================================================
