--------------------------------- MODULE Events ---------------------------------
(***************************************************************************)
(* The event store, and the syslog detector, whose model keeps the event   *)
(* it needs itself.  They share no state, so `part` chooses the one that   *)
(* moves; the other rests in its initial state.                            *)
(***************************************************************************)
EXTENDS EventStore

CONSTANTS
  Calls, Silence, LookBack, LineFaults, MaxLines, LastLine, MaxLineTime, MaxMishaps  \* SyslogDetector

VARIABLES
  part,
  lines, batched, net, lineClock, heard, polled, cursor, call, open, runs, mishaps, muddled

Syslog == INSTANCE SyslogDetector WITH Faults <- LineFaults, MaxTime <- MaxLineTime, now <- lineClock

ASSUME LinesAssumption == Syslog!DetectorAssumption

-----------------------------------------------------------------------------
lineVars == <<lines, batched, net, lineClock, heard, polled, cursor, call, open, runs, mishaps, muddled>>
eventsVars == <<part, vars, lineVars>>

In(p) == part = p

EventsInit == part \in {"store", "syslog"} /\ Init /\ Syslog!Init

StoreStep == In("store") /\ Next /\ UNCHANGED <<part, lineVars>>
SyslogStep == In("syslog") /\ Syslog!Next /\ UNCHANGED <<part, vars>>

EventsNext == StoreStep \/ SyslogStep
EventsSpec == EventsInit /\ [][EventsNext]_eventsVars

-----------------------------------------------------------------------------
(* The properties of the parts; each is explained where it is defined.     *)

\* The variables of the part that moves have the values its module says.
TypesOK ==
  /\ In("store") => TypeOK
  /\ In("syslog") => Syslog!TypeOK

\* SyslogDetector: each line is evaluated once.
EvaluatedOnce == In("syslog") => Syslog!EvaluatedOnce

\* SyslogDetector: the event follows the device.
EventFollowsDevice == In("syslog") => Syslog!EventFollowsDevice
=================================================================================
