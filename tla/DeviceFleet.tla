------------------------------ MODULE DeviceFleet ------------------------------
(***************************************************************************)
(* One device id of the registry, and the threads that use it: requests    *)
(* and pollers run commands on the one pooled SSH session under the        *)
(* device's lock, while an admin creates, updates and deletes the device   *)
(* and a save of the settings reloads the registry.  A version stands for  *)
(* the address and the credentials one save gave the device.               *)
(*                                                                         *)
(* Closing a session changes nothing here: whoever still holds it connects *)
(* again when it runs the next command (SwitchSession).                    *)
(***************************************************************************)
EXTENDS Naturals, Sequences

CONSTANTS
  Requests,  \* request threads that run a command or refresh the status: numbers of no poller
  Admins,    \* request threads that change the registry
  MaxSaves   \* bound: changes of the registry

\* Requests have numbers of their own: none is a poller's, and none is "nobody".
ASSUME FleetAssumption == MaxSaves \in Nat /\ Requests \cap (0..MaxSaves) = {}

VARIABLES
  saves,     \* changes so far: the versions, the locks and the pollers are numbered by them
  row,       \* the row of devices: a version, or 0
  device,    \* DEVICES_BY_ID
  lock,      \* _session_locks: a lock, or 0
  holder,    \* per lock: the thread that holds it, or 0
  pooled,    \* _sessions: a session, or 0
  session,   \* per session made: the version it connects to
  thread,    \* StatusPoller._threads: a poller, or 0
  status,    \* StatusPoller._status has an entry
  user,      \* per request and poller: what it is doing
  admin      \* per admin: what is left of its change

registry == <<row, device, lock>>
vars == <<saves, registry, holder, pooled, session, thread, status, user, admin>>

Versions == 1..MaxSaves
Pollers == 1..MaxSaves
Users == Requests \cup Pollers
Free == 0
Idle == [at |-> "idle", dev |-> 0, lock |-> 0, session |-> 0]
Steps == {"idle", "check", "begin", "wait", "session", "run", "exited"}

Init ==
  /\ saves = 0 /\ row = 0 /\ device = 0 /\ lock = 0
  /\ holder = [l \in Versions |-> Free]
  /\ pooled = 0 /\ session = <<>>
  /\ thread = 0 /\ status = FALSE
  /\ user = [u \in Users |-> Idle]
  /\ admin = [a \in Admins |-> [todo |-> <<>>, no |-> 0, dev |-> 0]]

-----------------------------------------------------------------------------
(* A request, and a poller's loop: both take the device they know, its     *)
(* lock, its session, and run.                                             *)

UnchangedByUsers == UNCHANGED <<saves, registry, thread, admin>>
Becomes(u, state) == user' = [user EXCEPT ![u] = state]

Resolve(r) ==
  /\ user[r].at = "idle" /\ device # 0
  /\ Becomes(r, [Idle EXCEPT !.at = "begin", !.dev = device])
  /\ UNCHANGED <<holder, pooled, session, status>> /\ UnchangedByUsers

\* The loop of _run goes on while this very thread is the registered one:
\* stop and start of a device put its id back at once.
RegisteredById(p) == thread # 0
Registered(p) == thread = p

CheckThread(p) ==
  /\ user[p].at = "check"
  /\ Becomes(p, [user[p] EXCEPT !.at = IF Registered(p) THEN "begin" ELSE "exited"])
  /\ UNCHANGED <<holder, pooled, session, status>> /\ UnchangedByUsers

Return(u) == IF u \in Pollers THEN [user[u] EXCEPT !.at = "check", !.lock = 0, !.session = 0] ELSE Idle

\* A poll makes a status where there is none; then both look the lock up, and
\* a device that is gone by now has none.
Begin(u) ==
  /\ user[u].at = "begin"
  /\ status' = (status \/ u \in Pollers)
  /\ Becomes(u, IF lock = 0 THEN Return(u) ELSE [user[u] EXCEPT !.at = "wait", !.lock = lock])
  /\ UNCHANGED <<holder, pooled, session>> /\ UnchangedByUsers

AcquireUnlocked(u) ==
  /\ user[u].at = "wait"
  /\ Becomes(u, [user[u] EXCEPT !.at = "session"])
  /\ UNCHANGED <<holder, pooled, session, status>> /\ UnchangedByUsers

Acquire(u) ==
  /\ user[u].at = "wait" /\ holder[user[u].lock] = Free
  /\ holder' = [holder EXCEPT ![user[u].lock] = u]
  /\ Becomes(u, [user[u] EXCEPT !.at = "session"])
  /\ UNCHANGED <<pooled, session, status>> /\ UnchangedByUsers

GetSession(u) ==
  /\ user[u].at = "session"
  /\ IF pooled = 0
     THEN session' = Append(session, user[u].dev) /\ pooled' = Len(session')
     ELSE UNCHANGED <<pooled, session>>
  /\ Becomes(u, [user[u] EXCEPT !.at = "run", !.session = pooled'])
  /\ UNCHANGED <<holder, status>> /\ UnchangedByUsers

\* The command is answered, or fails: the lock is released either way.
Finish(u) ==
  /\ user[u].at = "run"
  /\ holder' = [holder EXCEPT ![user[u].lock] = Free]
  /\ Becomes(u, Return(u))
  /\ UNCHANGED <<pooled, session, status>> /\ UnchangedByUsers

-----------------------------------------------------------------------------
(* The changes.  What is under _registry_lock is one step; what follows it *)
(* is not, nor is any of the reload.                                       *)

Remains(a, todo, dev) == admin' = [admin EXCEPT ![a] = [todo |-> todo, no |-> saves', dev |-> dev]]
Done(a) == admin' = [admin EXCEPT ![a].todo = Tail(@)]
At(a, step) == admin[a].todo # <<>> /\ Head(admin[a].todo) = step
MayChange(a) == admin[a].todo = <<>> /\ saves < MaxSaves /\ saves' = saves + 1

Create(a) ==
  /\ row = 0 /\ device = 0 /\ MayChange(a)
  /\ row' = saves' /\ device' = saves' /\ lock' = saves'
  /\ Remains(a, <<"start">>, saves')
  /\ UNCHANGED <<holder, pooled, session, thread, status, user>>

AfterUpdate == <<"stop", "start">>

Update(a) ==
  /\ row # 0 /\ device # 0 /\ MayChange(a)
  /\ row' = saves' /\ device' = saves' /\ pooled' = 0
  /\ Remains(a, AfterUpdate, saves')
  /\ UNCHANGED <<lock, holder, session, thread, status, user>>

Delete(a) ==
  /\ row # 0 /\ device # 0 /\ MayChange(a)
  /\ row' = 0 /\ device' = 0 /\ lock' = 0 /\ pooled' = 0
  /\ Remains(a, <<"stop">>, saves')
  /\ UNCHANGED <<holder, session, thread, status, user>>

\* The end of _load_database, for whoever saves the settings.
Reload(a) ==
  /\ MayChange(a)
  /\ Remains(a, (IF lock # 0 THEN <<"stop", "drop">> ELSE <<>>) \o <<"read", "load", "start">>, 0)
  /\ UNCHANGED <<registry, holder, pooled, session, thread, status, user>>

DropSession(a) ==
  /\ At(a, "drop") /\ Done(a)
  /\ pooled' = 0 /\ lock' = 0
  /\ UNCHANGED <<saves, row, device, holder, session, thread, status, user>>

ReadDevices(a) ==
  /\ At(a, "read")
  /\ admin' = [admin EXCEPT ![a].todo = Tail(@), ![a].dev = row]
  /\ UNCHANGED <<saves, registry, holder, pooled, session, thread, status, user>>

LoadDevices(a) ==
  /\ At(a, "load") /\ Done(a)
  /\ device' = admin[a].dev
  /\ lock' = IF admin[a].dev = 0 THEN lock ELSE admin[a].no
  /\ UNCHANGED <<saves, row, holder, pooled, session, thread, status, user>>

StopPolling(a) ==
  /\ At(a, "stop") /\ Done(a)
  /\ thread' = 0 /\ status' = FALSE
  /\ UNCHANGED <<saves, registry, holder, pooled, session, user>>

\* StatusPoller.start: nothing when the id has a thread.
StartPolling(a) ==
  /\ At(a, "start") /\ Done(a)
  /\ LET no == admin[a].no
         dev == admin[a].dev
     IN IF thread # 0 \/ dev = 0 THEN UNCHANGED <<thread, status, user>>
        ELSE /\ thread' = no /\ status' = TRUE
             /\ Becomes(no, [Idle EXCEPT !.at = "check", !.dev = dev])
  /\ UNCHANGED <<saves, registry, holder, pooled, session>>

-----------------------------------------------------------------------------

User(u) == Begin(u) \/ Acquire(u) \/ GetSession(u) \/ Finish(u)
Request(r) == Resolve(r) \/ User(r)
Poller(p) == CheckThread(p) \/ User(p)
Admin(a) ==
  \/ Create(a) \/ Update(a) \/ Delete(a) \/ Reload(a)
  \/ DropSession(a) \/ ReadDevices(a) \/ LoadDevices(a) \/ StopPolling(a) \/ StartPolling(a)

\* Everyone waits for the world.
Rest ==
  /\ \A p \in Pollers : user[p].at \in {"idle", "exited"}
  /\ \A r \in Requests : user[r].at = "idle"
  /\ \A a \in Admins : admin[a].todo = <<>>
  /\ UNCHANGED vars

Next ==
  \/ \E r \in Requests : Request(r)
  \/ \E p \in Pollers : Poller(p)
  \/ \E a \in Admins : Admin(a)
  \/ Rest

\* Threads run, every command ends or times out, and a lock that is free again
\* and again is taken.
Fairness ==
  /\ \A u \in Users : WF_vars(User(u))
  /\ \A p \in Pollers : SF_vars(Acquire(p))
  /\ \A p \in Pollers : WF_vars(CheckThread(p))
  /\ \A a \in Admins : WF_vars(admin[a].todo # <<>> /\ Admin(a))

Spec == Init /\ [][Next]_vars /\ Fairness
-----------------------------------------------------------------------------
(* Properties.                                                             *)

Quiet == \A a \in Admins : admin[a].todo = <<>>

TypeOK ==
  /\ {row, device, lock, thread} \subseteq 0..saves
  /\ pooled \in 0..Len(session)
  /\ session \in Seq(Versions)
  /\ \A u \in Users : user[u].at \in Steps

\* "A lock per device serializes command execution on that device's single
\* shared session": while the device keeps the lock it was first given, two
\* threads never run on one session at once.
FirstLockOnly == \A u \in Users : user[u].lock \in {0, 1}
Running(u) == user[u].at = "run"
OneAtATime ==
  FirstLockOnly =>
    \A u, v \in Users : Running(u) /\ Running(v) /\ user[u].session = user[v].session => u = v

\* The thread of a device that was changed, reloaded or deleted ends, however
\* quickly its id is registered again ("instead of exiting", StatusPoller._run).
ReplacedPollersExit ==
  \A p \in Pollers : user[p].at # "idle" /\ thread # p ~> user[p].at = "exited"
=============================================================================
