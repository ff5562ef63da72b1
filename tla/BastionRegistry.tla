---------------------------- MODULE BastionRegistry ----------------------------
(***************************************************************************)
(* The console sessions of webui/bastion.py from the outside: who may open *)
(* one, how it is dialled, who ends it, and what becomes of its SSH        *)
(* connection, its row in bastion_sessions and its place in the registry.  *)
(* BastionTerminal looks into one session.                                 *)
(*                                                                         *)
(* A session is worked on by the WebSocket's handler, by its reader thread *)
(* once it is attached, and by an admin who ends it.  Each may be inside   *)
(* _finish, which takes no lock: it tests _closed, sets it, and then ends *)
(* the row and hangs up, in steps that others may come between.            *)
(***************************************************************************)
EXTENDS Naturals, FiniteSets

CONSTANTS
  MaxSessions,  \* sessions that may be opened, one after the other
  Devices,
  PerDevice,  \* BASTION_MAX_SESSIONS_PER_DEVICE
  Total,      \* BASTION_MAX_SESSIONS
  MaxMishaps  \* failing writes, saved settings and restarts, together

ASSUME RegistryAssumption ==
  MaxSessions \in Nat /\ PerDevice \in Nat /\ Total \in Nat /\ MaxMishaps \in Nat

Sessions == 1..MaxSessions

VARIABLES
  registry,  \* BASTION._sessions
  dev,       \* per session, its device
  ws,        \* per session, where its WebSocket handler is
  reading,   \* the sessions whose reader thread is running
  up,        \* the sessions whose SSH connection is there
  closed,    \* the sessions whose _closed is set
  row,       \* per session, its row: "none", "open" or "ended"
  fin,       \* per session and thread, where its _finish is
  old,       \* sessions of a manager that has been replaced
  spoilt,    \* history: a write failed, or it was ended before it was connected
  mishaps    \* how much has gone wrong

vars == <<registry, dev, ws, reading, up, closed, row, fin, old, spoilt, mishaps>>

Threads == {"ws", "reader", "admin"}

TypeOK ==
  /\ registry \subseteq Sessions /\ closed \subseteq Sessions
  /\ old \subseteq Sessions /\ spoilt \subseteq Sessions
  /\ mishaps \in 0..MaxMishaps
  /\ dev \in [Sessions -> Devices]
  /\ ws \in [Sessions -> {"absent", "insert", "dial", "login", "serve", "gone"}]
  /\ reading \subseteq Sessions /\ up \subseteq Sessions
  /\ row \in [Sessions -> {"none", "open", "ended"}]
  /\ fin \in [Sessions -> [Threads -> {"no", "mark", "close"}]]

Init ==
  /\ registry = {} /\ closed = {} /\ old = {} /\ spoilt = {} /\ reading = {} /\ up = {}
  /\ mishaps = 0
  /\ dev \in [Sessions -> Devices]
  /\ ws = [s \in Sessions |-> "absent"]
  /\ row = [s \in Sessions |-> "none"]
  /\ fin = [s \in Sessions |-> [t \in Threads |-> "no"]]

Mishap == mishaps < MaxMishaps /\ mishaps' = mishaps + 1

-----------------------------------------------------------------------------
(* BastionManager                                                          *)

\* Seeded fault: only a session that is attached counts as live.
LiveOnceAttached == {s \in registry \ closed : s \in reading}

\* _reap_locked: sessions that have ended do not count.
Live == registry \ closed

\* Under the lock: the caps are tested and the session takes its slot.
Open(s) ==
  /\ ws[s] = "absent" /\ \A r \in 1..s - 1 : ws[r] # "absent"
  /\ Cardinality(Live) < Total
  /\ Cardinality({r \in Live : dev[r] = dev[s]}) < PerDevice
  /\ registry' = Live \cup {s}
  /\ ws' = [ws EXCEPT ![s] = "insert"]
  /\ UNCHANGED <<dev, reading, up, closed, row, fin, old, spoilt, mishaps>>

\* The list of live sessions is asked for, or an open is refused.
Reap ==
  /\ registry' = Live
  /\ UNCHANGED <<dev, ws, reading, up, closed, row, fin, old, spoilt, mishaps>>

\* The exception of a failed open takes the session out of the registry.
Unlist(s) ==
  /\ ws' = [ws EXCEPT ![s] = "gone"]
  /\ registry' = registry \ {s}

-----------------------------------------------------------------------------
(* BastionSession.open, on the handler's thread.                           *)

Insert(s) ==
  /\ ws[s] = "insert"
  /\ \/ /\ row' = [row EXCEPT ![s] = "open"]
        /\ ws' = [ws EXCEPT ![s] = "dial"]
        /\ UNCHANGED <<registry, mishaps>>
     \/ Mishap /\ Unlist(s) /\ UNCHANGED row
  /\ UNCHANGED <<dev, reading, up, closed, fin, old, spoilt>>

Dial(s) ==
  /\ ws[s] = "dial"
  /\ ws' = [ws EXCEPT ![s] = "login"]
  /\ up' = up \cup {s}
  /\ UNCHANGED <<registry, dev, reading, closed, row, fin, old, spoilt, mishaps>>

\* finish() logs a failure and goes on.
RowEnds(s) ==
  \/ row' = [row EXCEPT ![s] = IF @ = "open" THEN "ended" ELSE @] /\ UNCHANGED <<spoilt, mishaps>>
  \/ Mishap /\ UNCHANGED row /\ spoilt' = spoilt \cup {s}

\* Seeded fault: the row of a session that could not be opened is left as it is.
OpenFailsQuietly(s) ==
  /\ ws[s] \in {"dial", "login"}
  /\ Unlist(s)
  /\ up' = up \ {s}
  /\ UNCHANGED <<dev, reading, closed, row, fin, old, spoilt, mishaps>>

\* No connection, or no usable prompt: hung up, and the row says why.
OpenFails(s) ==
  /\ ws[s] \in {"dial", "login"}
  /\ Unlist(s)
  /\ up' = up \ {s}
  /\ RowEnds(s)
  /\ UNCHANGED <<dev, reading, closed, fin, old>>

\* The log in is over: the recording starts, and the reader.  Its last read only
\* waits for a prompt and does not insist on one, so the connection may have
\* gone.  If the first note cannot be written, open fails where it stands, with
\* the connection up.
Attach(s) ==
  /\ ws[s] = "login"
  /\ \/ /\ ws' = [ws EXCEPT ![s] = "serve"]
        /\ reading' = reading \cup {s}
        /\ UNCHANGED <<registry, spoilt, mishaps>>
     \/ /\ Mishap
        /\ Unlist(s)
        /\ spoilt' = spoilt \cup {s}
        /\ UNCHANGED reading
  /\ UNCHANGED <<dev, up, closed, row, fin, old>>

DeviceDrops(s) ==
  /\ s \in up
  /\ up' = up \ {s}
  /\ UNCHANGED <<registry, dev, ws, reading, closed, row, fin, old, spoilt, mishaps>>

-----------------------------------------------------------------------------
(* Who ends a session.                                                     *)

\* _finish has returned: the handler and kill release the slot, the handler and
\* the reader end.
Leave(s, t) ==
  /\ fin' = [fin EXCEPT ![s][t] = "no"]
  /\ registry' = IF t = "reader" THEN registry ELSE registry \ {s}
  /\ ws' = IF t = "ws" THEN [ws EXCEPT ![s] = "gone"] ELSE ws
  /\ reading' = IF t = "reader" THEN reading \ {s} ELSE reading
  /\ UNCHANGED <<dev, closed, old>>

\* A thread enters _finish: whoever finds _closed set returns at once.
Enter(s, t) ==
  /\ fin[s][t] = "no"
  /\ UNCHANGED up
  /\ IF s \in closed
     THEN Leave(s, t) /\ UNCHANGED <<row, spoilt, mishaps>>
     ELSE /\ fin' = [fin EXCEPT ![s][t] = "mark"]
          /\ UNCHANGED <<registry, dev, ws, reading, closed, row, old, spoilt, mishaps>>

\* The handler: the browser left, or a message came and the session had ended.
HandlerLeaves(s) ==
  /\ ws[s] = "serve"
  /\ Enter(s, "ws")

\* The reader: the connection has gone.
ReaderHears(s) ==
  /\ s \in reading \ (closed \cup up)
  /\ Enter(s, "reader")

\* The reader: a limit has passed, and the device is silent for a moment.
Expires(s) ==
  /\ s \in reading \ closed
  /\ Enter(s, "reader")

\* The reader: somebody else has ended the session.
ReaderReturns(s) ==
  /\ s \in reading \cap closed /\ fin[s]["reader"] = "no"
  /\ reading' = reading \ {s}
  /\ UNCHANGED <<registry, dev, ws, up, closed, row, fin, old, spoilt, mishaps>>

\* The reader: the note that recording stops cannot be written.
ReaderDies(s) ==
  /\ Mishap /\ s \in reading /\ fin[s]["reader"] = "no"
  /\ reading' = reading \ {s}
  /\ spoilt' = spoilt \cup {s}
  /\ UNCHANGED <<registry, dev, ws, up, closed, row, fin, old>>

\* kill: an admin ends a session that is in the registry.
Kill(s) ==
  /\ s \in registry
  /\ Enter(s, "admin")

-----------------------------------------------------------------------------
(* _finish                                                                 *)

\* Before the connection is there, there is nothing to hang up.
Early(s) == ws[s] \in {"insert", "dial"}

FinishMark(s, t) ==
  /\ fin[s][t] = "mark"
  /\ fin' = [fin EXCEPT ![s][t] = "close"]
  /\ closed' = closed \cup {s}
  /\ spoilt' = IF Early(s) THEN spoilt \cup {s} ELSE spoilt
  /\ UNCHANGED <<registry, dev, ws, reading, up, row, old, mishaps>>

\* Seeded fault: the session is over and nobody hangs up.
FinishCloseForgetful(s, t) ==
  /\ fin[s][t] = "close"
  /\ RowEnds(s)
  /\ Leave(s, t)
  /\ UNCHANGED up

\* The row is ended, and what there is of a connection is hung up.
FinishClose(s, t) ==
  /\ fin[s][t] = "close"
  /\ RowEnds(s)
  /\ up' = IF Early(s) THEN up ELSE up \ {s}
  /\ Leave(s, t)

Finish(s, t) == FinishMark(s, t) \/ FinishClose(s, t)

-----------------------------------------------------------------------------
(* Configuration and restart.                                              *)

OpenRows == {s \in Sessions : row[s] = "open"}

\* close_orphans: every open row is ended, or the failure is logged.
OrphansEnd ==
  \/ row' = [s \in Sessions |-> IF s \in OpenRows THEN "ended" ELSE row[s]] /\ UNCHANGED spoilt
  \/ UNCHANGED row /\ spoilt' = spoilt \cup OpenRows

\* Settings are saved: _load_database puts a new manager in place and ends the
\* open rows, while the sessions of the old one go on.
Reload ==
  /\ Mishap
  /\ registry' = {}
  /\ old' = {s \in Sessions : ws[s] # "absent"}
  /\ OrphansEnd
  /\ UNCHANGED <<dev, ws, reading, up, closed, fin>>

\* The process restarts: nothing of its sessions is left but the rows.
Restart ==
  /\ Mishap
  /\ registry' = {}
  /\ OrphansEnd
  /\ ws' = [s \in Sessions |-> IF ws[s] = "absent" THEN "absent" ELSE "gone"]
  /\ reading' = {} /\ up' = {}
  /\ fin' = [s \in Sessions |-> [t \in Threads |-> "no"]]
  /\ UNCHANGED <<dev, closed, old>>

-----------------------------------------------------------------------------

\* What each of a session's threads does.
Handler(s) ==
  \/ Insert(s) \/ Dial(s) \/ OpenFails(s) \/ Attach(s)
  \/ Finish(s, "ws")

Reader(s) ==
  \/ Expires(s) \/ ReaderReturns(s)
  \/ Finish(s, "reader")

Next ==
  \/ \E s \in Sessions :
       \/ Open(s) \/ Handler(s) \/ HandlerLeaves(s)
       \/ Reader(s) \/ ReaderHears(s) \/ ReaderDies(s) \/ DeviceDrops(s)
       \/ Kill(s) \/ Finish(s, "admin")
  \/ Reap
  \/ Reload
  \/ Restart

\* Every thread that has started goes on.  A limit passes some day and the
\* device falls silent some day, so the reader of an idle session gets to
\* Expires; people and devices need not do anything.
Fairness ==
  \A s \in Sessions :
    WF_vars(Handler(s)) /\ WF_vars(Reader(s)) /\ WF_vars(Finish(s, "admin"))

Spec == Init /\ [][Next]_vars /\ Fairness

-----------------------------------------------------------------------------
(* Properties.                                                             *)

\* "The per-device cap is not a policy preference, it is the vty limit": the
\* sessions one manager has opened and nobody has ended never hold more
\* connections than the caps allow, neither while they are dialled nor while
\* others are being ended.
Connected == up \ (closed \cup old \cup spoilt)

CapsHold ==
  /\ Connected \subseteq registry
  /\ Cardinality(Connected) <= Total
  /\ \A d \in Devices : Cardinality({s \in Connected : dev[s] = d}) <= PerDevice

\* The recordings' list is right: a session is shown as ended only when it has
\* ended or never got a connection, and as live only until its handler has
\* gone (settings saved meanwhile, and failed writes, excepted).
RowTellsTheTruth ==
  \A s \in Sessions \ (old \cup spoilt) :
    /\ row[s] = "ended" => s \in closed \/ s \notin up
    /\ ws[s] = "gone" /\ (\A t \in Threads : fin[s][t] = "no") => row[s] # "open"

\* A connection is hung up some day, even if the person has only abandoned the
\* tab, and its slot in the registry no longer counts: unless a write failed,
\* or an admin ended the session before it was connected.
SlotComesBack ==
  \A s \in Sessions :
    s \in up ~> s \notin up \cup Live \/ s \in spoilt

\* "An abandoned tab must not hold an SSH slot": as long as the tab's handler
\* is there, its connection is hung up some day.
AbandonedTabFreesItsSlot == \A s \in Sessions : s \in up ~> s \notin up \/ ws[s] = "gone"
=============================================================================
