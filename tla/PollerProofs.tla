----------------------------- MODULE PollerProofs -----------------------------
(***************************************************************************)
(* Proofs about the poller and what watches beside it: the registry of     *)
(* devices and the poll threads on their pooled sessions (DeviceFleet),    *)
(* what is made of a device's readings (DeviceHealth), the map of the      *)
(* fleet (Topology), the syslog rules (RuleEvents) and the settings the    *)
(* detectors judge by (SettingsCache).  They share no state; each has its  *)
(* own invariant and its own section, and the last section puts them side  *)
(* by side again (Monitoring).                                             *)
(*                                                                         *)
(* DeviceFleet, for any number of requests and admins and any              *)
(* number of changes of the registry: the variables keep their types, and  *)
(* while a device has the lock it was first given, two threads never run   *)
(* on one session at once.                                                 *)
(*                                                                         *)
(* OneAtATime is not inductive: it says nothing of who holds the lock.     *)
(* Held does: whoever is between taking the lock and giving it back is its *)
(* holder, whichever of the device's locks that is.  Two who run under the *)
(* same lock are then the same thread, and FirstLockOnly makes it the      *)
(* same lock.  That nobody else gives the lock back is what keeps Held;    *)
(* that a thread which starts to poll under a used number would lose its   *)
(* lock does not matter to it.                                             *)
(***************************************************************************)
EXTENDS Monitoring, SequenceTheorems, FiniteSetTheorems, TLAPS

Changes == {"start", "stop", "drop", "read", "load"}
Doing == [at : Steps, dev : 0..MaxSaves, lock : 0..MaxSaves, session : Nat]
Todo == [todo : Seq(Changes), no : 0..MaxSaves, dev : 0..MaxSaves]

FleetTypes ==
  /\ saves \in 0..MaxSaves
  /\ user \in [Users -> Doing]
  /\ holder \in [Versions -> Users \cup {Free}]
  /\ admin \in [Admins -> Todo]

Numbered ==
  /\ row \in 0..saves /\ device \in 0..saves /\ lock \in 0..saves /\ thread \in 0..saves
  /\ \A a \in Admins : admin[a].no \in 0..saves /\ admin[a].dev \in 0..saves

SessionsTyped ==
  /\ session \in Seq(Versions)
  /\ pooled \in 0..Len(session)
  /\ \A u \in Users : user[u].at # "idle" => user[u].dev \in Versions

Waits(u) == user[u].at = "wait" => user[u].lock \in Versions
Holds(u) == user[u].at \in {"session", "run"} => user[u].lock \in Versions /\ holder[user[u].lock] = u
Held == \A u \in Users : Waits(u) /\ Holds(u)

FInv == FleetTypes /\ Numbered /\ SessionsTyped /\ Held

-----------------------------------------------------------------------------
\* The invariant says what the type invariant of DeviceFleet says.
LEMMA TypesImplied == FInv => TypeOK
BY DEF FInv, FleetTypes, Numbered, SessionsTyped, TypeOK, Doing

\* Two threads that run under the same lock are one thread.
LEMMA OneImplied == FInv => OneAtATime
<1> SUFFICES ASSUME FInv, FirstLockOnly, NEW u \in Users, NEW v \in Users, Running(u), Running(v)
             PROVE  u = v
  BY DEF OneAtATime
<1>1. user[u].lock \in Versions /\ holder[user[u].lock] = u
  BY DEF FInv, Held, Holds, Running
<1>2. user[v].lock \in Versions /\ holder[user[v].lock] = v
  BY DEF FInv, Held, Holds, Running
<1>3. user[u].lock \in {0, 1} /\ user[v].lock \in {0, 1}
  BY DEF FirstLockOnly
<1>4. user[u].lock = 1 /\ user[v].lock = 1
  BY <1>1, <1>2, <1>3, FleetAssumption DEF Versions
<1> QED BY <1>1, <1>2, <1>4

\* Users are not "nobody", and pollers are users.
LEMMA UsersAreSomeone == Free \notin Users /\ Versions \subseteq Users /\ Pollers \subseteq Users
BY FleetAssumption DEF Users, Pollers, Versions, Free

LEMMA InitHolds == Init => FInv
<1> SUFFICES ASSUME Init PROVE FInv
  OBVIOUS
<1> USE DEF Init, registry
<1>1. Idle \in Doing
  BY FleetAssumption DEF Idle, Doing, Steps
<1>2. FleetTypes
  BY <1>1, FleetAssumption DEF FleetTypes, Todo
<1>3. Numbered
  BY DEF Numbered
<1>4. SessionsTyped
  BY DEF SessionsTyped, Idle
<1>5. Held
  BY DEF Held, Waits, Holds, Idle
<1> QED BY <1>2, <1>3, <1>4, <1>5 DEF FInv

-----------------------------------------------------------------------------
\* A user that neither waits nor holds a lock may take any such state: what
\* the others hold is not touched.
LEMMA MovesOff ==
  ASSUME FInv, NEW u \in Users, NEW state \in Doing,
         Becomes(u, state), holder' = holder,
         state.at \notin {"session", "run"},
         state.at = "wait" => state.lock \in Versions
  PROVE  Held' /\ user' \in [Users -> Doing]
<1>1. user' \in [Users -> Doing] /\ user'[u] = state /\ \A v \in Users \ {u} : user'[v] = user[v]
  BY DEF FInv, FleetTypes, Becomes
<1>2. \A v \in Users : Waits(v)' /\ Holds(v)'
  BY <1>1 DEF FInv, Held, Waits, Holds
<1> QED BY <1>1, <1>2 DEF Held

\* Where neither users nor holders change, who holds what stays.
LEMMA HeldKept == ASSUME Held, user' = user, holder' = holder PROVE Held'
BY DEF Held, Waits, Holds

\* Nothing of the registry moves in a user's step.
LEMMA UsersKeepNumbers ==
  ASSUME FInv, UnchangedByUsers
  PROVE  Numbered' /\ saves' \in 0..MaxSaves /\ admin' \in [Admins -> Todo]
BY DEF FInv, FleetTypes, Numbered, UnchangedByUsers, registry

\* What a user goes back to after its command.
LEMMA ReturnTyped ==
  ASSUME FInv, NEW u \in Users
  PROVE  /\ Return(u) \in Doing
         /\ Return(u).at \in {"idle", "check"}
         /\ Return(u).at = "check" => Return(u).dev = user[u].dev
<1>1. user[u] \in Doing
  BY DEF FInv, FleetTypes
<1>2. CASE u \in Pollers
  <2>1. Return(u) = [at |-> "check", dev |-> user[u].dev, lock |-> 0, session |-> 0]
    BY <1>1, <1>2 DEF Return, Doing
  <2> QED BY <2>1, <1>1, FleetAssumption DEF Doing, Steps
<1>3. CASE u \notin Pollers
  <2>1. Return(u) = [at |-> "idle", dev |-> 0, lock |-> 0, session |-> 0]
    BY <1>3 DEF Return, Idle
  <2> QED BY <2>1, FleetAssumption DEF Doing, Steps
<1> QED BY <1>2, <1>3

\* A user that is set to work on a device has no lock and no session yet.
LEMMA IdleBecomes ==
  ASSUME NEW at, NEW dev
  PROVE  [Idle EXCEPT !.at = at, !.dev = dev] = [at |-> at, dev |-> dev, lock |-> 0, session |-> 0]
<1> DEFINE busy == [Idle EXCEPT !.at = at]
<1>1. busy = [at |-> at, dev |-> 0, lock |-> 0, session |-> 0]
  BY DEF Idle
<1>2. [Idle EXCEPT !.at = at, !.dev = dev] = [busy EXCEPT !.dev = dev]
  OBVIOUS
<1> HIDE DEF busy
<1>3. [busy EXCEPT !.dev = dev] = [at |-> at, dev |-> dev, lock |-> 0, session |-> 0]
  BY <1>1
<1> QED BY <1>2, <1>3

LEMMA ResolveStep == ASSUME FInv, NEW r \in Requests, Resolve(r) PROVE FInv'
<1> DEFINE state == [at |-> "begin", dev |-> device, lock |-> 0, session |-> 0]
<1>0. r \in Users
  BY DEF Users
<1>1. Becomes(r, state) /\ device \in 1..MaxSaves /\ holder' = holder /\ UnchangedByUsers
      /\ pooled' = pooled /\ session' = session
  <2>1. [Idle EXCEPT !.at = "begin", !.dev = device] = state
    BY IdleBecomes
  <2>2. device \in 1..MaxSaves
    BY FleetAssumption DEF Resolve, FInv, FleetTypes, Numbered
  <2> HIDE DEF state
  <2> QED BY <2>1, <2>2 DEF Resolve
<1>2. state \in Doing
  BY <1>1, FleetAssumption DEF Doing, Steps
<1> HIDE DEF state
<1>3. state.at = "begin" /\ state.dev \in Versions
  BY <1>1 DEF state, Versions
<1>4. Held' /\ user' \in [Users -> Doing]
  BY <1>0, <1>1, <1>2, <1>3, MovesOff
<1>5. SessionsTyped'
  BY <1>0, <1>1, <1>3 DEF FInv, FleetTypes, SessionsTyped, Becomes
<1> QED BY <1>1, <1>4, <1>5, UsersKeepNumbers DEF FInv, FleetTypes

LEMMA CheckThreadStep == ASSUME FInv, NEW p \in Pollers, CheckThread(p) PROVE FInv'
<1> DEFINE state == [user[p] EXCEPT !.at = IF Registered(p) THEN "begin" ELSE "exited"]
<1>0. p \in Users /\ user[p] \in Doing
  BY UsersAreSomeone DEF FInv, FleetTypes
<1>1. Becomes(p, state) /\ user[p].at = "check" /\ holder' = holder /\ UnchangedByUsers
      /\ pooled' = pooled /\ session' = session
  BY DEF CheckThread
<1>2. state \in Doing /\ state.at \in {"begin", "exited"} /\ state.dev = user[p].dev
  BY <1>0 DEF Doing, Steps
<1>3. state.dev \in Versions
  BY <1>0, <1>1, <1>2 DEF FInv, SessionsTyped
<1> HIDE DEF state
<1>4. Held' /\ user' \in [Users -> Doing]
  BY <1>0, <1>1, <1>2, MovesOff
<1>5. SessionsTyped'
  BY <1>0, <1>1, <1>3 DEF FInv, FleetTypes, SessionsTyped, Becomes
<1> QED BY <1>1, <1>4, <1>5, UsersKeepNumbers DEF FInv, FleetTypes

LEMMA BeginStep == ASSUME FInv, NEW u \in Users, Begin(u) PROVE FInv'
<1> DEFINE waiting == [user[u] EXCEPT !.at = "wait", !.lock = lock]
           state == IF lock = 0 THEN Return(u) ELSE waiting
<1>0. user[u] \in Doing /\ lock \in 0..MaxSaves
  BY FleetAssumption DEF FInv, FleetTypes, Numbered
<1>1. Becomes(u, state) /\ user[u].at = "begin" /\ holder' = holder /\ UnchangedByUsers
      /\ pooled' = pooled /\ session' = session
  BY DEF Begin
<1>2. waiting \in Doing /\ waiting.at = "wait" /\ waiting.lock = lock /\ waiting.dev = user[u].dev
  BY <1>0 DEF Doing, Steps
<1> HIDE DEF waiting
<1>3. /\ state \in Doing
      /\ state.at \in {"wait", "idle", "check"}
      /\ state.at = "wait" => state.lock \in Versions
      /\ state.at # "idle" => state.dev = user[u].dev
  <2>1. CASE lock = 0
    BY <2>1, ReturnTyped
  <2>2. CASE lock # 0
    BY <2>2, <1>0, <1>2, FleetAssumption DEF Versions
  <2> QED BY <2>1, <2>2
<1>4. user[u].dev \in Versions
  BY <1>1 DEF FInv, SessionsTyped
<1> HIDE DEF state
<1>5. Held' /\ user' \in [Users -> Doing]
  BY <1>1, <1>3, MovesOff
<1>6. SessionsTyped'
  BY <1>1, <1>3, <1>4 DEF FInv, FleetTypes, SessionsTyped, Becomes
<1> QED BY <1>1, <1>5, <1>6, UsersKeepNumbers DEF FInv, FleetTypes

\* The lock was free, so nobody else held it.
LEMMA AcquireStep == ASSUME FInv, NEW u \in Users, Acquire(u) PROVE FInv'
<1> DEFINE state == [user[u] EXCEPT !.at = "session"]
           mine == user[u].lock
<1>0. user[u] \in Doing
  BY DEF FInv, FleetTypes
<1>1. Becomes(u, state) /\ user[u].at = "wait" /\ holder[mine] = Free /\ UnchangedByUsers
      /\ holder' = [holder EXCEPT ![mine] = u] /\ pooled' = pooled /\ session' = session
  BY DEF Acquire
<1>2. state \in Doing /\ state.at = "session" /\ state.lock = mine /\ state.dev = user[u].dev
  BY <1>0 DEF Doing, Steps
<1>3. mine \in Versions
  BY <1>1 DEF FInv, Held, Waits
<1> HIDE DEF state
<1>4. user'[u] = state /\ (\A v \in Users \ {u} : user'[v] = user[v]) /\ user' \in [Users -> Doing]
  BY <1>1, <1>2 DEF FInv, FleetTypes, Becomes
<1>5. holder' \in [Versions -> Users \cup {Free}] /\ holder'[mine] = u
      /\ \A l \in Versions \ {mine} : holder'[l] = holder[l]
  BY <1>1, <1>3 DEF FInv, FleetTypes
<1>6. Held'
  <2> SUFFICES ASSUME NEW v \in Users PROVE Waits(v)' /\ Holds(v)'
    BY DEF Held
  <2>1. CASE v = u
    BY <2>1, <1>2, <1>3, <1>4, <1>5 DEF Waits, Holds
  <2>2. CASE v # u
    <3>1. Waits(v) /\ Holds(v) /\ user'[v] = user[v]
      BY <2>2, <1>4 DEF FInv, Held
    <3>2. user[v].at \in {"session", "run"} => user[v].lock \in Versions \ {mine}
      BY <3>1, <1>1, UsersAreSomeone DEF Holds
    <3> QED BY <3>1, <3>2, <1>5 DEF Waits, Holds
  <2> QED BY <2>1, <2>2
<1>7. SessionsTyped'
  BY <1>1, <1>2, <1>4 DEF FInv, SessionsTyped
<1> QED BY <1>1, <1>4, <1>5, <1>6, <1>7, UsersKeepNumbers DEF FInv, FleetTypes

LEMMA GetSessionStep == ASSUME FInv, NEW u \in Users, GetSession(u) PROVE FInv'
<1> DEFINE state == [user[u] EXCEPT !.at = "run", !.session = pooled']
<1>0. user[u] \in Doing /\ user[u].dev \in Versions
  BY DEF FInv, FleetTypes, SessionsTyped, GetSession
<1>1. Becomes(u, state) /\ user[u].at = "session" /\ holder' = holder /\ UnchangedByUsers
  BY DEF GetSession
<1>2. session' \in Seq(Versions) /\ pooled' \in 0..Len(session')
  <2>1. CASE pooled = 0
    <3>1. session' = Append(session, user[u].dev) /\ pooled' = Len(session')
      BY <2>1 DEF GetSession
    <3>2. session' \in Seq(Versions)
      BY <3>1, <1>0 DEF FInv, SessionsTyped
    <3> QED BY <3>1, <3>2
  <2>2. CASE pooled # 0
    BY <2>2 DEF GetSession, FInv, SessionsTyped
  <2> QED BY <2>1, <2>2
<1>3. pooled' \in Nat
  BY <1>2
<1>4. state \in Doing /\ state.at = "run" /\ state.lock = user[u].lock /\ state.dev = user[u].dev
  BY <1>0, <1>3 DEF Doing, Steps
<1> HIDE DEF state
<1>5. user'[u] = state /\ (\A v \in Users \ {u} : user'[v] = user[v]) /\ user' \in [Users -> Doing]
  BY <1>1, <1>4 DEF FInv, FleetTypes, Becomes
<1>6. Held'
  BY <1>1, <1>4, <1>5 DEF FInv, Held, Waits, Holds
<1>7. SessionsTyped'
  BY <1>0, <1>2, <1>4, <1>5 DEF FInv, SessionsTyped
<1> QED BY <1>1, <1>5, <1>6, <1>7, UsersKeepNumbers DEF FInv, FleetTypes

\* The lock that is given back is one nobody else holds.
LEMMA FinishStep == ASSUME FInv, NEW u \in Users, Finish(u) PROVE FInv'
<1> DEFINE mine == user[u].lock
<1>1. Becomes(u, Return(u)) /\ user[u].at = "run" /\ UnchangedByUsers
      /\ holder' = [holder EXCEPT ![mine] = Free] /\ pooled' = pooled /\ session' = session
  BY DEF Finish
<1>2. mine \in Versions /\ holder[mine] = u
  BY <1>1 DEF FInv, Held, Holds
<1>3. user'[u] = Return(u) /\ (\A v \in Users \ {u} : user'[v] = user[v]) /\ user' \in [Users -> Doing]
  BY <1>1, ReturnTyped DEF FInv, FleetTypes, Becomes
<1>4. holder' \in [Versions -> Users \cup {Free}] /\ \A l \in Versions \ {mine} : holder'[l] = holder[l]
  BY <1>1, <1>2 DEF FInv, FleetTypes
<1>5. Held'
  <2> SUFFICES ASSUME NEW v \in Users PROVE Waits(v)' /\ Holds(v)'
    BY DEF Held
  <2>1. CASE v = u
    BY <2>1, <1>3, ReturnTyped DEF Waits, Holds
  <2>2. CASE v # u
    <3>1. Waits(v) /\ Holds(v) /\ user'[v] = user[v]
      BY <2>2, <1>3 DEF FInv, Held
    <3>2. user[v].at \in {"session", "run"} => user[v].lock \in Versions \ {mine}
      BY <3>1, <2>2, <1>2 DEF Holds
    <3> QED BY <3>1, <3>2, <1>4 DEF Waits, Holds
  <2> QED BY <2>1, <2>2
<1>6. SessionsTyped'
  BY <1>1, <1>3, ReturnTyped DEF FInv, SessionsTyped
<1> QED BY <1>1, <1>3, <1>4, <1>5, <1>6, UsersKeepNumbers DEF FInv, FleetTypes

-----------------------------------------------------------------------------
\* A change of the registry takes the next number.
LEMMA ChangeNumbered ==
  ASSUME FInv, NEW a \in Admins, MayChange(a),
         NEW todo \in Seq(Changes), NEW dev \in 0..saves', Remains(a, todo, dev)
  PROVE  /\ saves' \in 1..MaxSaves /\ saves' = saves + 1
         /\ admin' \in [Admins -> Todo]
         /\ \A b \in Admins : admin'[b].no \in 0..saves' /\ admin'[b].dev \in 0..saves'
<1>1. saves' \in 1..MaxSaves /\ saves' = saves + 1
  BY FleetAssumption DEF FInv, FleetTypes, MayChange
<1>2. [todo |-> todo, no |-> saves', dev |-> dev] \in Todo
  BY <1>1, FleetAssumption DEF Todo
<1>3. admin' = [admin EXCEPT ![a] = [todo |-> todo, no |-> saves', dev |-> dev]]
  BY DEF Remains
<1>4. admin' \in [Admins -> Todo]
  BY <1>2, <1>3 DEF FInv, FleetTypes
<1>5. ASSUME NEW b \in Admins PROVE admin'[b].no \in 0..saves' /\ admin'[b].dev \in 0..saves'
  <2>1. CASE b = a
    <3>1. admin'[b] = [todo |-> todo, no |-> saves', dev |-> dev]
      BY <1>3, <2>1 DEF FInv, FleetTypes
    <3> QED BY <3>1, <1>1
  <2>2. CASE b # a
    <3>1. admin'[b] = admin[b]
      BY <1>3, <2>2 DEF FInv, FleetTypes
    <3> QED BY <3>1, <1>1, FleetAssumption DEF FInv, FleetTypes, Numbered
  <2> QED BY <2>1, <2>2
<1> QED BY <1>1, <1>4, <1>5

\* What is left of a change, when its own number stays.
LEMMA LeftTyped ==
  ASSUME FInv, NEW a \in Admins, saves' = saves, NEW left \in Todo,
         left.no = admin[a].no, left.dev \in 0..saves, admin' = [admin EXCEPT ![a] = left]
  PROVE  /\ admin' \in [Admins -> Todo]
         /\ \A b \in Admins : admin'[b].no \in 0..saves' /\ admin'[b].dev \in 0..saves'
<1>1. admin' \in [Admins -> Todo] /\ admin'[a] = left /\ \A b \in Admins \ {a} : admin'[b] = admin[b]
  BY DEF FInv, FleetTypes
<1> QED BY <1>1 DEF FInv, Numbered

\* It loses its first step.
LEMMA DoneTyped ==
  ASSUME FInv, NEW a \in Admins, admin[a].todo # <<>>, saves' = saves, Done(a)
  PROVE  /\ admin' \in [Admins -> Todo]
         /\ \A b \in Admins : admin'[b].no \in 0..saves' /\ admin'[b].dev \in 0..saves'
<1> DEFINE left == [admin[a] EXCEPT !.todo = Tail(@)]
<1>1. admin[a] \in Todo
  BY DEF FInv, FleetTypes
<1>2. Tail(admin[a].todo) \in Seq(Changes)
  BY <1>1 DEF Todo
<1>3. left \in Todo /\ left.no = admin[a].no /\ left.dev = admin[a].dev
  BY <1>1, <1>2 DEF Todo
<1>4. admin' = [admin EXCEPT ![a] = left]
  BY DEF Done
<1>5. left.dev \in 0..saves
  BY <1>3 DEF FInv, Numbered
<1> HIDE DEF left
<1> QED BY <1>3, <1>4, <1>5, LeftTyped

\* The same, once the row is read.
LEMMA ReadTyped ==
  ASSUME FInv, NEW a \in Admins, ReadDevices(a)
  PROVE  /\ admin' \in [Admins -> Todo]
         /\ \A b \in Admins : admin'[b].no \in 0..saves' /\ admin'[b].dev \in 0..saves'
<1> DEFINE left == [admin[a] EXCEPT !.todo = Tail(@), !.dev = row]
<1>1. admin[a] \in Todo /\ admin[a].todo # <<>>
  BY DEF FInv, FleetTypes, ReadDevices, At
<1>2. Tail(admin[a].todo) \in Seq(Changes) /\ row \in 0..MaxSaves
  BY <1>1, FleetAssumption DEF Todo, FInv, FleetTypes, Numbered
<1>3. left \in Todo /\ left.no = admin[a].no /\ left.dev = row
  BY <1>1, <1>2 DEF Todo
<1>4. admin' = [admin EXCEPT ![a] = left] /\ saves' = saves
  <2>1. admin' = [admin EXCEPT ![a].todo = Tail(@), ![a].dev = row] /\ saves' = saves
    BY DEF ReadDevices
  <2>2. [admin EXCEPT ![a].todo = Tail(@), ![a].dev = row] = [admin EXCEPT ![a] = left]
    BY <1>1 DEF FInv, FleetTypes, Todo
  <2> HIDE DEF left
  <2> QED BY <2>1, <2>2
<1>5. left.dev \in 0..saves
  BY <1>3 DEF FInv, Numbered
<1> HIDE DEF left
<1> QED BY <1>3, <1>4, <1>5, LeftTyped

LEMMA AdminStep == ASSUME FInv, NEW a \in Admins, Admin(a) PROVE FInv'
<1> USE DEF registry
<1>0. saves \in 0..MaxSaves
  BY DEF FInv, FleetTypes
<1>1. CASE Create(a)
  <2>1. <<"start">> \in Seq(Changes) /\ saves' \in 0..saves'
    BY <1>0, <1>1, FleetAssumption DEF Changes, Create, MayChange
  <2>2. /\ saves' \in 1..MaxSaves /\ saves' = saves + 1 /\ admin' \in [Admins -> Todo]
        /\ \A b \in Admins : admin'[b].no \in 0..saves' /\ admin'[b].dev \in 0..saves'
    BY <1>1, <2>1, ChangeNumbered DEF Create
  <2>3. row' \in 0..saves' /\ device' \in 0..saves' /\ lock' \in 0..saves' /\ thread' \in 0..saves'
    BY <1>1, <2>2, <1>0, FleetAssumption DEF Create, FInv, Numbered
  <2>4. Held' /\ SessionsTyped'
    BY <1>1, HeldKept DEF Create, FInv, SessionsTyped
  <2> QED BY <1>1, <2>2, <2>3, <2>4, FleetAssumption DEF FInv, FleetTypes, Numbered, Create
<1>2. CASE Update(a)
  <2>1. AfterUpdate \in Seq(Changes) /\ saves' \in 0..saves'
    BY <1>0, <1>2, FleetAssumption DEF Changes, Update, AfterUpdate, MayChange
  <2>2. /\ saves' \in 1..MaxSaves /\ saves' = saves + 1 /\ admin' \in [Admins -> Todo]
        /\ \A b \in Admins : admin'[b].no \in 0..saves' /\ admin'[b].dev \in 0..saves'
    BY <1>2, <2>1, ChangeNumbered DEF Update
  <2>3. row' \in 0..saves' /\ device' \in 0..saves' /\ lock' \in 0..saves' /\ thread' \in 0..saves'
    BY <1>2, <2>2, <1>0, FleetAssumption DEF Update, FInv, Numbered
  <2>4. Held'
    BY <1>2, HeldKept DEF Update, FInv
  <2>5. SessionsTyped'
    BY <1>2, LenProperties DEF Update, FInv, SessionsTyped
  <2> QED BY <1>2, <2>2, <2>3, <2>4, <2>5, FleetAssumption DEF FInv, FleetTypes, Numbered, Update
<1>3. CASE Delete(a)
  <2>1. <<"stop">> \in Seq(Changes) /\ 0 \in 0..saves' /\ saves' \in 0..saves'
    BY <1>0, <1>3, FleetAssumption DEF Changes, Delete, MayChange
  <2>2. /\ saves' \in 1..MaxSaves /\ saves' = saves + 1 /\ admin' \in [Admins -> Todo]
        /\ \A b \in Admins : admin'[b].no \in 0..saves' /\ admin'[b].dev \in 0..saves'
    BY <1>3, <2>1, ChangeNumbered DEF Delete
  <2>3. row' \in 0..saves' /\ device' \in 0..saves' /\ lock' \in 0..saves' /\ thread' \in 0..saves'
    BY <1>3, <2>2, <1>0, FleetAssumption DEF Delete, FInv, Numbered
  <2>4. Held'
    BY <1>3, HeldKept DEF Delete, FInv
  <2>5. SessionsTyped'
    BY <1>3, LenProperties DEF Delete, FInv, SessionsTyped
  <2> QED BY <1>3, <2>2, <2>3, <2>4, <2>5, FleetAssumption DEF FInv, FleetTypes, Numbered, Delete
<1>4. CASE Reload(a)
  <2> DEFINE todo == (IF lock # 0 THEN <<"stop", "drop">> ELSE <<>>) \o <<"read", "load", "start">>
  <2>1. todo \in Seq(Changes) /\ 0 \in 0..saves'
    <3>1. <<"read", "load", "start">> \in Seq(Changes) /\ <<"stop", "drop">> \in Seq(Changes)
          /\ <<>> \in Seq(Changes)
      BY DEF Changes
    <3> QED BY <3>1, <1>0, <1>4, FleetAssumption DEF Reload, MayChange
  <2> HIDE DEF todo
  <2>2. /\ saves' \in 1..MaxSaves /\ saves' = saves + 1 /\ admin' \in [Admins -> Todo]
        /\ \A b \in Admins : admin'[b].no \in 0..saves' /\ admin'[b].dev \in 0..saves'
    BY <1>4, <2>1, ChangeNumbered DEF Reload, todo
  <2>3. row' \in 0..saves' /\ device' \in 0..saves' /\ lock' \in 0..saves' /\ thread' \in 0..saves'
    BY <1>4, <2>2, <1>0, FleetAssumption DEF Reload, FInv, Numbered
  <2>4. Held' /\ SessionsTyped'
    BY <1>4, HeldKept DEF Reload, FInv, SessionsTyped
  <2> QED BY <1>4, <2>2, <2>3, <2>4, FleetAssumption DEF FInv, FleetTypes, Numbered, Reload
<1>5. CASE DropSession(a)
  <2>1. /\ admin' \in [Admins -> Todo]
        /\ \A b \in Admins : admin'[b].no \in 0..saves' /\ admin'[b].dev \in 0..saves'
    BY <1>5, DoneTyped DEF DropSession, At
  <2>2. Held'
    BY <1>5, HeldKept DEF DropSession, FInv
  <2>3. SessionsTyped'
    BY <1>5, LenProperties DEF DropSession, FInv, SessionsTyped
  <2> QED BY <1>5, <1>0, <2>1, <2>2, <2>3 DEF FInv, FleetTypes, Numbered, DropSession
<1>6. CASE ReadDevices(a)
  <2>1. /\ admin' \in [Admins -> Todo]
        /\ \A b \in Admins : admin'[b].no \in 0..saves' /\ admin'[b].dev \in 0..saves'
    BY <1>6, ReadTyped
  <2>2. Held' /\ SessionsTyped'
    BY <1>6, HeldKept DEF ReadDevices, FInv, SessionsTyped
  <2> QED BY <1>6, <2>1, <2>2 DEF FInv, FleetTypes, Numbered, ReadDevices
<1>7. CASE LoadDevices(a)
  <2>1. /\ admin' \in [Admins -> Todo]
        /\ \A b \in Admins : admin'[b].no \in 0..saves' /\ admin'[b].dev \in 0..saves'
    BY <1>7, DoneTyped DEF LoadDevices, At
  <2>2. Held' /\ SessionsTyped'
    BY <1>7, HeldKept DEF LoadDevices, FInv, SessionsTyped
  <2> QED BY <1>7, <2>1, <2>2 DEF FInv, FleetTypes, Numbered, LoadDevices
<1>8. CASE StopPolling(a)
  <2>1. /\ admin' \in [Admins -> Todo]
        /\ \A b \in Admins : admin'[b].no \in 0..saves' /\ admin'[b].dev \in 0..saves'
    BY <1>8, DoneTyped DEF StopPolling, At
  <2>2. Held' /\ SessionsTyped'
    BY <1>8, HeldKept DEF StopPolling, FInv, SessionsTyped
  <2> QED BY <1>8, <1>0, <2>1, <2>2 DEF FInv, FleetTypes, Numbered, StopPolling
<1>9. CASE StartPolling(a)
  <2> DEFINE no == admin[a].no
             dev == admin[a].dev
             state == [at |-> "check", dev |-> dev, lock |-> 0, session |-> 0]
  <2>1. /\ admin' \in [Admins -> Todo]
        /\ \A b \in Admins : admin'[b].no \in 0..saves' /\ admin'[b].dev \in 0..saves'
    BY <1>9, DoneTyped DEF StartPolling, At
  <2>2. no \in 0..saves /\ dev \in 0..saves
    BY DEF FInv, Numbered
  <2>3. CASE thread' = thread /\ user' = user
    <3>1. Held' /\ SessionsTyped'
      BY <1>9, <2>3, HeldKept DEF StartPolling, FInv, SessionsTyped
    <3> QED BY <1>9, <2>1, <2>3, <3>1 DEF FInv, FleetTypes, Numbered, StartPolling
  <2>4. CASE dev # 0 /\ thread' = no /\ Becomes(no, state)
    <3>1. state \in Doing /\ state.at = "check" /\ state.dev \in Versions
      BY <2>2, <2>4, <1>0, FleetAssumption DEF Doing, Steps, Versions
    <3> HIDE DEF state
    <3>2. Held' /\ user' \in [Users -> Doing]
      <4>1. CASE no \in Users
        BY <4>1, <1>9, <2>4, <3>1, MovesOff DEF StartPolling
      <4>2. CASE no \notin Users
        <5>1. user' = user
          BY <4>2, <2>4 DEF Becomes, FInv, FleetTypes
        <5> QED BY <5>1, <1>9, HeldKept DEF StartPolling, FInv, FleetTypes
      <4> QED BY <4>1, <4>2
    <3>3. SessionsTyped'
      BY <1>9, <2>4, <3>1 DEF FInv, FleetTypes, SessionsTyped, Becomes, StartPolling
    <3> QED BY <1>9, <2>1, <2>2, <2>4, <3>2, <3>3 DEF FInv, FleetTypes, Numbered, StartPolling
  <2>5. \/ thread' = thread /\ user' = user
        \/ dev # 0 /\ thread' = no /\ Becomes(no, state)
    <3>1. [Idle EXCEPT !.at = "check", !.dev = dev] = state
      BY IdleBecomes
    <3> HIDE DEF state
    <3> QED BY <1>9, <3>1 DEF StartPolling
  <2> QED BY <2>3, <2>4, <2>5
<1> QED BY <1>1, <1>2, <1>3, <1>4, <1>5, <1>6, <1>7, <1>8, <1>9 DEF Admin

-----------------------------------------------------------------------------
LEMMA StepHolds == FInv /\ [Next]_vars => FInv'
<1> SUFFICES ASSUME FInv, [Next]_vars PROVE FInv'
  OBVIOUS
<1>1. ASSUME NEW u \in Users, User(u) PROVE FInv'
  BY <1>1, BeginStep, AcquireStep, GetSessionStep, FinishStep DEF User
<1>2. ASSUME NEW r \in Requests, Request(r) PROVE FInv'
  <2>1. r \in Users
    BY DEF Users
  <2> QED BY <1>1, <1>2, <2>1, ResolveStep DEF Request
<1>3. ASSUME NEW p \in Pollers, Poller(p) PROVE FInv'
  BY <1>1, <1>3, UsersAreSomeone, CheckThreadStep DEF Poller
<1>4. ASSUME NEW a \in Admins, Admin(a) PROVE FInv'
  BY <1>4, AdminStep
<1>5. CASE UNCHANGED vars
  BY <1>5, HeldKept DEF FInv, FleetTypes, Numbered, SessionsTyped, vars, registry
<1> QED BY <1>2, <1>3, <1>4, <1>5 DEF Next, Rest

LEMMA FleetInvariant == Init /\ [][Next]_vars => []FInv
<1>1. Init => FInv
  BY InitHolds
<1>2. FInv /\ [Next]_vars => FInv'
  BY StepHolds
<1> QED BY <1>1, <1>2, PTL

\* The variables of the fleet keep their types: versions, locks and pollers are
\* numbers that were given out, sessions connect to versions (status_poller.py:246-256).
THEOREM FleetTyped == Spec => []TypeOK
BY FleetInvariant, TypesImplied, PTL DEF Spec

\* "A lock per device serializes command execution on that device's single shared
\* session" (app.py:559-560), for any number of requests, admins and changes.
THEOREM OneThreadAtATime == Spec => []OneAtATime
BY FleetInvariant, OneImplied, PTL DEF Spec

-------------------------------------------------------------------------------
(***************************************************************************)
(* DeviceHealth, for any bays and any counts.  A bay the device reports as *)
(* up whenever it lists it must never be alarmed about; what the status    *)
(* remembers and what the pass under way has in hand are both read, so the *)
(* invariant says of both that the bay is up there or not listed.          *)
(***************************************************************************)
Device == [bays : [Bays -> Health!BayStates], cpu : {"low", "middling", "high"}, errors : 0..MaxErrors, optic : Health!Optics]
BaysRead == [Bays -> Health!BayStates \cup {"unlisted"}]
Reading == [bays : BaysRead, cpu : {"none", "low", "middling", "high"},
            errors : 0..Health!NoCount, optic : Health!Optics \cup {"none"}]
Freshness == {"never", "new", "seen"}
Status == [read : Reading, known : SUBSET Bays, polled : Freshness, optics : Freshness, after : SUBSET Health!Subjects]
Snapshot == [read : Reading, after : SUBSET Health!Subjects, fast : BOOLEAN, slow : BOOLEAN]
Memory == [passes : 0..Polls, errors : 0..Health!NoCount, optic : Health!Optics \cup {"none"}]

HealthTypes ==
  /\ platform \in {"os9", "junos", "opnsense"}
  /\ truth \in Device /\ changes \in 0..MaxChanges /\ faults \in 0..MaxFaults
  /\ deviceStatus \in Status
  /\ pass \in {"idle", "environment", "compute", "errors", "optics"}
  /\ snap \in Snapshot /\ memory \in Memory
  /\ event \in [Health!Subjects -> {"never", "open", "closed"}]

\* A sound bay is read as up or not at all, whatever the read returned.
Well(read, b) == read.bays[b] \in {"up", "unlisted"}
Fine(b) == truth.bays[b] = "up" /\ Well(deviceStatus.read, b) /\ Well(snap.read, b) /\ event[b] = "never"

HealthInv == HealthTypes /\ \A b \in Sound : Fine(b)

-----------------------------------------------------------------------------
LEMMA HealthTypesImplied == HealthInv => Health!TypeOK
BY DEF HealthInv, HealthTypes, Health!TypeOK, Device, Status, Reading, BaysRead, Memory

LEMMA NoFalseAlarmImplied == HealthInv => Health!NoFalseAlarm
BY DEF HealthInv, Fine, Health!NoFalseAlarm

\* What the process starts with.
LEMMA Fresh ==
  ASSUME Health!HealthAssumption
  PROVE  /\ Health!NewStatus \in Status /\ Health!NoSnapshot \in Snapshot /\ Health!Forgotten \in Memory
         /\ \A b \in Bays : Well(Health!NewStatus.read, b) /\ Well(Health!NoSnapshot.read, b)
<1>0. Health!NoCount \in 0..Health!NoCount
  BY DEF Health!HealthAssumption, Health!NoCount
<1>1. Health!Unread \in Reading /\ \A b \in Bays : Health!Unread.bays[b] = "unlisted"
  BY <1>0 DEF Health!Unread, Reading, BaysRead
<1>2. Health!NewStatus \in Status /\ Health!NewStatus.read = Health!Unread
  BY <1>1 DEF Health!NewStatus, Status, Freshness
<1>3. Health!NoSnapshot \in Snapshot /\ Health!NoSnapshot.read = Health!Unread
  BY <1>1 DEF Health!NoSnapshot, Snapshot
<1>4. Health!Forgotten \in Memory
  BY <1>0 DEF Health!Forgotten, Memory, Health!HealthAssumption
<1> QED BY <1>1, <1>2, <1>3, <1>4 DEF Well

LEMMA HealthInit == ASSUME Health!HealthAssumption, Health!Init PROVE HealthInv
<1>1. truth \in Device /\ \A b \in Bays : truth.bays[b] = "up"
  BY DEF Health!Init, Device, Health!BayStates, Health!Optics, Health!HealthAssumption
<1>2. HealthTypes
  BY <1>1, Fresh DEF Health!Init, HealthTypes, Health!HealthAssumption
<1> QED BY <1>1, <1>2, Fresh DEF Health!Init, HealthInv, Fine, Health!Subjects, Health!HealthAssumption

\* The device changes, but never a sound bay.
LEMMA ChangeStep == ASSUME Health!HealthAssumption, HealthInv, Health!Change PROVE HealthInv'
<1>0. truth \in Device /\ Sound \subseteq Bays
  BY DEF HealthInv, HealthTypes, Health!HealthAssumption
<1>1. UNCHANGED <<platform, faults, deviceStatus, pass, snap, memory, event>>
  BY DEF Health!Change
<1>2. changes' \in 0..MaxChanges
  BY DEF Health!Change, Health!HealthAssumption, HealthInv, HealthTypes
<1>3. truth' \in Device /\ \A b \in Sound : truth'.bays[b] = truth.bays[b]
  <2>1. CASE \E b \in Bays \ Sound, s \in Health!BayStates : truth' = [truth EXCEPT !.bays[b] = s]
    <3>1. PICK b \in Bays \ Sound, s \in Health!BayStates : truth' = [truth EXCEPT !.bays[b] = s]
      BY <2>1
    <3>2. truth'.bays = [truth.bays EXCEPT ![b] = s] /\ truth'.cpu = truth.cpu
          /\ truth'.errors = truth.errors /\ truth'.optic = truth.optic
          /\ truth' = [truth EXCEPT !.bays = truth'.bays]
      BY <3>1, <1>0 DEF Device
    <3> QED BY <3>2, <1>0 DEF Device
  <2>2. CASE \E c \in {"low", "middling", "high"} : truth' = [truth EXCEPT !.cpu = c]
    BY <2>2, <1>0 DEF Device
  <2>3. CASE \E n \in {0} \cup (truth.errors..MaxErrors) : truth' = [truth EXCEPT !.errors = n]
    <3>1. PICK n \in {0} \cup (truth.errors..MaxErrors) : truth' = [truth EXCEPT !.errors = n]
      BY <2>3
    <3>2. n \in 0..MaxErrors
      BY <1>0 DEF Device, Health!HealthAssumption
    <3> QED BY <3>1, <3>2, <1>0 DEF Device
  <2>4. CASE \E o \in Health!Optics : truth' = [truth EXCEPT !.optic = o]
    BY <2>4, <1>0 DEF Device
  <2> QED BY <2>1, <2>2, <2>3, <2>4 DEF Health!Change
<1> QED BY <1>1, <1>2, <1>3 DEF HealthInv, HealthTypes, Fine

\* A poll replaces the status; what it read of a sound bay is well.
LEMMA PolledStep ==
  ASSUME Health!HealthAssumption, HealthInv, NEW new \in Status, Health!Polled(new),
         \A b \in Sound : Well(new.read, b), faults' \in 0..MaxFaults
  PROVE  HealthInv'
<1>1. deviceStatus' = new /\ UNCHANGED <<platform, truth, changes, pass, snap, memory, event>>
  BY DEF Health!Polled
<1> QED BY <1>1 DEF HealthInv, HealthTypes, Fine

LEMMA StampedIs ==
  ASSUME NEW read \in Reading, HealthInv
  PROVE  /\ Health!Stamped(read) \in Status
         /\ Health!Stamped(read).read = read
<1>1. deviceStatus \in Status /\ deviceStatus.after \cup (Health!Subjects \ Health!Slow) \in SUBSET Health!Subjects
  BY DEF HealthInv, HealthTypes, Status
<1>2. Health!Stamped(read) = [deviceStatus EXCEPT !.read = read, !.polled = "new", !.after = deviceStatus.after \cup (Health!Subjects \ Health!Slow)]
  BY DEF Health!Stamped
<1> QED BY <1>1, <1>2 DEF Status, Freshness

LEMMA PollStep == ASSUME Health!HealthAssumption, HealthInv, Health!Poll PROVE HealthInv'
<1>0. /\ truth \in Device /\ deviceStatus \in Status /\ deviceStatus.read \in Reading /\ platform \in {"os9", "junos", "opnsense"}
      /\ \A b \in Sound : truth.bays[b] = "up" /\ Well(deviceStatus.read, b)
      /\ Sound \subseteq Bays
  BY DEF HealthInv, HealthTypes, Status, Fine, Health!HealthAssumption
<1> PICK listed \in {Health!Listed} \cup (IF faults < MaxFaults THEN {{}} ELSE {}) :
      /\ faults' = IF listed = Health!Listed THEN faults ELSE faults + 1
      /\ Health!Polled([Health!Stamped([bays |-> Health!Environment(listed), cpu |-> truth.cpu,
                      errors |-> IF platform = "os9" THEN truth.errors ELSE Health!NoCount,
                      optic |-> deviceStatus.read.optic]) EXCEPT !.known = Health!Known(listed)])
  BY DEF Health!Poll
<1> DEFINE read == [bays |-> Health!Environment(listed), cpu |-> truth.cpu,
                    errors |-> IF platform = "os9" THEN truth.errors ELSE Health!NoCount,
                    optic |-> deviceStatus.read.optic]
<1>1. \A known \in SUBSET Bays :
        /\ Health!Fill(listed, known) \in BaysRead
        /\ (listed = Health!Listed \/ known = {}) => \A b \in Sound : Health!Fill(listed, known)[b] \in {"up", "unlisted"}
  <2>1. \A b \in Sound : b \in Health!Listed
    BY <1>0 DEF Health!Listed
  <2>2. \A b \in Bays : truth.bays[b] \in Health!BayStates
    BY <1>0 DEF Device
  <2> QED BY <1>0, <2>1, <2>2 DEF Health!Fill, BaysRead, Health!BayStates
<1>2. Health!Environment(listed) \in BaysRead /\ \A b \in Sound : Health!Environment(listed)[b] \in {"up", "unlisted"}
  <2>1. deviceStatus.known \in SUBSET Bays /\ deviceStatus.read.bays \in BaysRead
    BY <1>0 DEF Status, Reading
  <2>2. listed = Health!Listed \/ listed = {}
    OBVIOUS
  <2>3. CASE platform = "os9"
    <3>1. Health!Environment(listed) = IF listed = {} /\ deviceStatus.known # {} THEN deviceStatus.read.bays
                                       ELSE Health!Fill(listed, deviceStatus.known)
      BY <2>3 DEF Health!Environment, Health!FilledUnlessEmpty
    <3>2. CASE listed = {} /\ deviceStatus.known # {}
      BY <3>1, <3>2, <2>1, <1>0 DEF Well
    <3>3. CASE ~ (listed = {} /\ deviceStatus.known # {})
      BY <3>1, <3>3, <2>1, <2>2, <1>1
    <3> QED BY <3>2, <3>3
  <2>4. CASE platform = "junos"
    BY <2>4, <1>1 DEF Health!Environment
  <2>5. CASE platform = "opnsense"
    BY <2>5, <1>0 DEF Health!Environment, Health!Unread, BaysRead
  <2> QED BY <1>0, <2>3, <2>4, <2>5
<1>3. read \in Reading /\ \A b \in Sound : Well(read, b)
  <2>1. truth.cpu \in {"none", "low", "middling", "high"} /\ deviceStatus.read.optic \in Health!Optics \cup {"none"}
    BY <1>0 DEF Device, Reading
  <2>2. (IF platform = "os9" THEN truth.errors ELSE Health!NoCount) \in 0..Health!NoCount
    BY <1>0 DEF Device, Health!NoCount, Health!HealthAssumption
  <2> QED BY <1>2, <2>1, <2>2 DEF Reading, Well
<1>4. Health!Known(listed) \in SUBSET Bays
  BY <1>0 DEF Health!Known, Status, Health!Listed
<1>5. Health!Stamped(read) \in Status /\ Health!Stamped(read).read = read
  BY <1>3, StampedIs
<1> HIDE DEF read
<1>6. [Health!Stamped(read) EXCEPT !.known = Health!Known(listed)] \in Status
      /\ [Health!Stamped(read) EXCEPT !.known = Health!Known(listed)].read = read
  BY <1>4, <1>5 DEF Status
<1>7. faults' \in 0..MaxFaults
  BY DEF Health!HealthAssumption, HealthInv, HealthTypes
<1>8. Health!Polled([Health!Stamped(read) EXCEPT !.known = Health!Known(listed)])
  BY DEF read
<1> QED BY <1>3, <1>6, <1>7, <1>8, PolledStep

LEMMA PollFailsStep == ASSUME Health!HealthAssumption, HealthInv, Health!PollFails PROVE HealthInv'
<1>1. deviceStatus.read \in Reading /\ \A b \in Sound : Well(deviceStatus.read, b)
  BY DEF HealthInv, HealthTypes, Status, Fine
<1>2. Health!Stamped(deviceStatus.read) \in Status /\ Health!Stamped(deviceStatus.read).read = deviceStatus.read
  BY <1>1, StampedIs
<1>3. faults' \in 0..MaxFaults /\ Health!Polled(Health!Stamped(deviceStatus.read))
  BY DEF Health!PollFails, Health!HealthAssumption, HealthInv, HealthTypes
<1> QED BY <1>1, <1>2, <1>3, PolledStep

LEMMA PollOpticsStep == ASSUME Health!HealthAssumption, HealthInv, Health!PollOptics PROVE HealthInv'
<1>0. deviceStatus \in Status /\ deviceStatus.read \in Reading /\ truth.optic \in Health!Optics /\ \A b \in Sound : Well(deviceStatus.read, b)
  BY DEF HealthInv, HealthTypes, Status, Fine, Device
<1> PICK fails \in (IF faults < MaxFaults THEN BOOLEAN ELSE {FALSE}) :
      /\ faults' = IF fails THEN faults + 1 ELSE faults
      /\ Health!Polled([deviceStatus EXCEPT !.read.optic = IF fails THEN "absent" ELSE truth.optic,
                                      !.optics = "new", !.after = @ \cup Health!Slow])
  BY DEF Health!PollOptics
<1> DEFINE new == [deviceStatus EXCEPT !.read.optic = IF fails THEN "absent" ELSE truth.optic,
                                 !.optics = "new", !.after = @ \cup Health!Slow]
<1>1. PICK optic \in Health!Optics : optic = IF fails THEN "absent" ELSE truth.optic
  BY <1>0 DEF Health!Optics
<1>2. PICK after \in SUBSET Health!Subjects : after = deviceStatus.after \cup Health!Slow
  BY <1>0 DEF Status, Health!Subjects
<1>3. PICK read \in Reading : read = [deviceStatus.read EXCEPT !.optic = optic]
  BY <1>0, <1>1 DEF Reading
<1>4. new = [deviceStatus EXCEPT !.read = read, !.optics = "new", !.after = after]
  BY <1>0, <1>1, <1>2, <1>3 DEF Status
<1>5. new \in Status /\ new.read = read
  BY <1>0, <1>4 DEF Status, Freshness
<1>6. \A b \in Sound : Well(new.read, b)
  BY <1>0, <1>3, <1>5 DEF Well, Reading
<1>7. faults' \in 0..MaxFaults
  <2>1. faults \in 0..MaxFaults /\ MaxFaults \in Nat
    BY DEF Health!HealthAssumption, HealthInv, HealthTypes
  <2>2. faults' = faults \/ (faults < MaxFaults /\ faults' = faults + 1)
    OBVIOUS
  <2> QED BY <2>1, <2>2
<1> HIDE DEF new
<1>8. Health!Polled(new)
  BY DEF new
<1> QED BY <1>5, <1>6, <1>7, <1>8, PolledStep

-----------------------------------------------------------------------------
\* What a check tells: a sound bay is neither raised nor, its event never having
\* been raised, resolved.
LEMMA TellStep ==
  ASSUME Health!HealthAssumption, HealthInv, NEW raised, NEW resolved, Health!Tell(raised, resolved),
         UNCHANGED <<platform, truth, changes, faults>>, memory' \in Memory,
         pass' \in {"idle", "environment", "compute", "errors", "optics"},
         raised \cap Sound = {}
  PROVE  HealthInv'
<1>0. deviceStatus \in Status /\ snap \in Snapshot /\ Sound \subseteq Health!Subjects
      /\ event \in [Health!Subjects -> {"never", "open", "closed"}]
      /\ \A b \in Sound : Fine(b)
  BY DEF HealthInv, HealthTypes, Health!HealthAssumption, Health!Subjects
<1> DEFINE opened == {s \in raised : event[s] # "open"}
           closed == {s \in resolved : event[s] = "open"}
<1>1. /\ event' = [s \in Health!Subjects |-> IF s \in opened THEN "open" ELSE IF s \in closed THEN "closed" ELSE event[s]]
      /\ deviceStatus' = [deviceStatus EXCEPT !.after = @ \ (opened \cup closed)]
      /\ snap' = IF pass' = "idle" THEN Health!NoSnapshot ELSE [snap EXCEPT !.after = @ \ (opened \cup closed)]
  BY DEF Health!Tell
<1>2. event' \in [Health!Subjects -> {"never", "open", "closed"}] /\ \A b \in Sound : event'[b] = "never"
  BY <1>0, <1>1 DEF Fine
<1>3. PICK gone : gone = opened \cup closed
  OBVIOUS
<1>4. deviceStatus' \in Status /\ deviceStatus'.read = deviceStatus.read
  <2>1. deviceStatus.after \ gone \in SUBSET Health!Subjects /\ deviceStatus' = [deviceStatus EXCEPT !.after = deviceStatus.after \ gone]
    BY <1>0, <1>1, <1>3 DEF Status
  <2> QED BY <1>0, <2>1 DEF Status
<1>5. snap' \in Snapshot /\ snap'.read \in {snap.read, Health!NoSnapshot.read}
  <2>1. CASE pass' = "idle"
    BY <2>1, <1>1, Fresh
  <2>2. CASE pass' # "idle"
    <3>1. snap.after \ gone \in SUBSET Health!Subjects /\ snap' = [snap EXCEPT !.after = snap.after \ gone]
      BY <2>2, <1>0, <1>1, <1>3 DEF Snapshot
    <3> QED BY <1>0, <3>1 DEF Snapshot
  <2> QED BY <2>1, <2>2
<1>6. \A b \in Sound : Well(snap'.read, b)
  <2>1. \A b \in Sound : Well(snap.read, b) /\ Well(Health!NoSnapshot.read, b)
    BY <1>0, Fresh DEF Fine, Health!HealthAssumption
  <2> QED BY <1>5, <2>1
<1>7. HealthTypes'
  BY <1>2, <1>4, <1>5 DEF HealthInv, HealthTypes
<1>8. \A b \in Sound : Fine(b)'
  BY <1>0, <1>2, <1>4, <1>6 DEF Fine
<1> QED BY <1>7, <1>8 DEF HealthInv

LEMMA CopyStep == ASSUME Health!HealthAssumption, HealthInv, Health!Copy PROVE HealthInv'
<1>0. deviceStatus \in Status /\ \A b \in Sound : Fine(b)
  BY DEF HealthInv, HealthTypes
<1>1. UNCHANGED <<platform, truth, changes, faults, memory, event>>
      /\ pass' \in {"idle", "environment", "compute", "errors", "optics"}
  BY DEF Health!Copy, Health!Checks
<1>2. snap' \in Snapshot /\ snap'.read = deviceStatus.read
  BY <1>0 DEF Health!Copy, Snapshot, Status
<1>3. PICK p \in Freshness, o \in Freshness : deviceStatus' = [deviceStatus EXCEPT !.polled = p, !.optics = o]
  BY <1>0 DEF Health!Copy, Status, Freshness
<1>4. deviceStatus' \in Status /\ deviceStatus'.read = deviceStatus.read
  BY <1>0, <1>3 DEF Status
<1> QED BY <1>0, <1>1, <1>2, <1>4 DEF HealthInv, HealthTypes, Fine

LEMMA CheckEnvironmentStep == ASSUME Health!HealthAssumption, HealthInv, Health!CheckEnvironment PROVE HealthInv'
<1> DEFINE raised == Health!Raised({b \in Bays : snap.read.bays[b] \in {"down", "gone"}})
           resolved == {b \in Bays : snap.read.bays[b] = "up" /\ Health!StaleSafe(b)}
<1>1. UNCHANGED <<platform, truth, changes, faults, memory>> /\ pass' = "compute" /\ Health!Tell(raised, resolved)
  BY DEF Health!CheckEnvironment, Health!Checks
<1>2. raised \cap Sound = {}
  BY DEF HealthInv, Fine, Well, Health!Raised
<1>3. memory' \in Memory
  BY <1>1 DEF HealthInv, HealthTypes
<1> HIDE DEF raised, resolved
<1> QED BY <1>1, <1>2, <1>3, TellStep

\* The other checks do not speak of bays.
LEMMA NoBayTold ==
  ASSUME Health!HealthAssumption, NEW subjects, subjects \subseteq {"cpu", "errors"} \cup Health!Slow
  PROVE  Health!Raised(subjects) \cap Sound = {} /\ {} \cap Sound = {}
BY DEF Health!HealthAssumption, Health!Raised

LEMMA CheckComputeStep == ASSUME Health!HealthAssumption, HealthInv, Health!CheckCompute PROVE HealthInv'
<1>0. memory \in Memory /\ Polls \in Nat
  BY DEF HealthInv, HealthTypes, Health!HealthAssumption
<1>1. UNCHANGED <<platform, truth, changes, faults>> /\ pass' = "errors"
  BY DEF Health!CheckCompute, Health!Checks
<1>2. Health!Counted \in 0..Polls
  BY <1>0 DEF Health!Counted, Memory
<1>3. CASE snap.read.cpu = "high"
  <2>1. memory' = [memory EXCEPT !.passes = Health!Counted]
        /\ Health!Tell(Health!Raised({s \in {"cpu"} : Health!Counted >= Polls}), {})
    BY <1>3 DEF Health!CheckCompute
  <2>2. memory' \in Memory
    BY <1>0, <1>2, <2>1 DEF Memory
  <2>3. Health!Raised({s \in {"cpu"} : Health!Counted >= Polls}) \cap Sound = {}
    BY NoBayTold
  <2> QED BY <1>1, <2>1, <2>2, <2>3, TellStep
<1>4. CASE snap.read.cpu # "high"
  <2>1. memory' = [memory EXCEPT !.passes = IF snap.read.cpu = "none" THEN memory.passes ELSE 0]
        /\ Health!Tell({}, {s \in {"cpu"} : snap.read.cpu = "low"})
    BY <1>4 DEF Health!CheckCompute
  <2>2. memory' \in Memory
    BY <1>0, <2>1 DEF Memory
  <2>3. {} \cap Sound = {}
    OBVIOUS
  <2> QED BY <1>1, <2>1, <2>2, <2>3, TellStep
<1> QED BY <1>3, <1>4

LEMMA CheckErrorsStep == ASSUME Health!HealthAssumption, HealthInv, Health!CheckErrors PROVE HealthInv'
<1>0. memory \in Memory /\ snap.read.errors \in 0..Health!NoCount
  BY DEF HealthInv, HealthTypes, Snapshot, Reading
<1> DEFINE known == Health!NoCount \notin {snap.read.errors, memory.errors}
           raised == {s \in {"errors"} : known /\ snap.read.errors >= memory.errors + PerPoll}
           resolved == {s \in {"errors"} : known /\ snap.read.errors = memory.errors}
<1>1. UNCHANGED <<platform, truth, changes, faults>> /\ pass' \in {"optics", "idle"}
      /\ memory' = [memory EXCEPT !.errors = IF snap.read.errors = Health!NoCount THEN memory.errors ELSE snap.read.errors]
      /\ Health!Tell(Health!Raised(raised), resolved)
  BY DEF Health!CheckErrors, Health!Checks
<1>2. memory' \in Memory
  BY <1>0, <1>1 DEF Memory
<1>3. raised \subseteq {"errors"}
  OBVIOUS
<1> HIDE DEF raised, resolved
<1>4. Health!Raised(raised) \cap Sound = {}
  BY <1>3, NoBayTold
<1> QED BY <1>1, <1>2, <1>4, TellStep

LEMMA CheckOpticsStep == ASSUME Health!HealthAssumption, HealthInv, Health!CheckOptics PROVE HealthInv'
<1>0. memory \in Memory /\ snap.read.optic \in Health!Optics \cup {"none"}
  BY DEF HealthInv, HealthTypes, Snapshot, Reading
<1>1. PICK raised, resolved :
        Health!Tell(Health!Raised(raised), resolved) /\ raised \subseteq Health!Slow
  BY DEF Health!CheckOptics, Health!Slow
<1>2. UNCHANGED <<platform, truth, changes, faults>> /\ pass' = "idle"
      /\ memory' = [memory EXCEPT !.optic = snap.read.optic]
  BY DEF Health!CheckOptics, Health!Checks
<1>3. memory' \in Memory
  BY <1>0, <1>2 DEF Memory
<1>4. Health!Raised(raised) \cap Sound = {}
  BY <1>1, NoBayTold
<1> QED BY <1>1, <1>2, <1>3, <1>4, TellStep

LEMMA ResolveByHandStep ==
  ASSUME Health!HealthAssumption, HealthInv, NEW s \in Health!Subjects, Health!ResolveByHand(s) PROVE HealthInv'
<1>0. deviceStatus \in Status /\ snap \in Snapshot /\ \A b \in Sound : Fine(b)
  BY DEF HealthInv, HealthTypes
<1>1. event[s] = "open" /\ event' = [event EXCEPT ![s] = "closed"]
      /\ UNCHANGED <<platform, truth, faults, pass, memory>>
  BY DEF Health!ResolveByHand
<1>2. changes' \in 0..MaxChanges
  BY DEF Health!ResolveByHand, Health!HealthAssumption, HealthInv, HealthTypes
<1>3. deviceStatus' \in Status /\ deviceStatus'.read = deviceStatus.read
  <2>1. deviceStatus' = [deviceStatus EXCEPT !.after = deviceStatus.after \ {s}] /\ deviceStatus.after \ {s} \in SUBSET Health!Subjects
    BY <1>0 DEF Health!ResolveByHand, Status
  <2> QED BY <1>0, <2>1 DEF Status
<1>4. snap' \in Snapshot /\ snap'.read = snap.read
  <2>1. snap' = [snap EXCEPT !.after = snap.after \ {s}] /\ snap.after \ {s} \in SUBSET Health!Subjects
    BY <1>0 DEF Health!ResolveByHand, Snapshot
  <2> QED BY <1>0, <2>1 DEF Snapshot
<1>5. \A b \in Sound : event'[b] = "never" /\ event[b] = "never"
  BY <1>0, <1>1 DEF Fine, HealthInv, HealthTypes
<1>6. HealthTypes'
  BY <1>1, <1>2, <1>3, <1>4 DEF HealthInv, HealthTypes
<1> QED BY <1>0, <1>1, <1>3, <1>4, <1>5, <1>6 DEF HealthInv, Fine

LEMMA HealthRestartStep == ASSUME Health!HealthAssumption, HealthInv, Health!Restart PROVE HealthInv'
<1>1. /\ deviceStatus' = Health!NewStatus /\ pass' = "idle" /\ snap' = Health!NoSnapshot /\ memory' = Health!Forgotten
      /\ UNCHANGED <<platform, truth, changes, event>>
  BY DEF Health!Restart
<1>2. faults' \in 0..MaxFaults
  BY DEF Health!Restart, Health!HealthAssumption, HealthInv, HealthTypes
<1>3. HealthTypes'
  BY <1>1, <1>2, Fresh DEF HealthInv, HealthTypes
<1> QED BY <1>1, <1>3, Fresh DEF HealthInv, Fine, Health!HealthAssumption

LEMMA HealthHolds == ASSUME Health!HealthAssumption, HealthInv, [Health!Next]_(Health!healthVars) PROVE HealthInv'
<1>1. CASE UNCHANGED Health!healthVars
  BY <1>1 DEF Health!healthVars, HealthInv, HealthTypes, Fine
<1> QED
  BY <1>1, ChangeStep, PollStep, PollFailsStep, PollOpticsStep, CopyStep, CheckEnvironmentStep, CheckComputeStep,
     CheckErrorsStep, CheckOpticsStep, ResolveByHandStep, HealthRestartStep DEF Health!Next, Health!CheckStep

LEMMA HealthInvariant ==
  ASSUME Health!HealthAssumption PROVE Health!Init /\ [][Health!Next]_(Health!healthVars) => []HealthInv
<1>1. Health!Init => HealthInv
  BY HealthInit
<1>2. HealthInv /\ [Health!Next]_(Health!healthVars) => HealthInv'
  BY HealthHolds
<1> QED BY <1>1, <1>2, PTL

\* A fan tray or a power supply that never fails never has an event, for any device, any
\* number of bays, and whichever reads fail, are garbled or come back empty
\* (status_poller.py's _fill_missing_bays, event_reconcile.py's _environment).
THEOREM SoundBaysStayQuiet == ASSUME Health!HealthAssumption PROVE Health!Spec => []Health!NoFalseAlarm
<1>1. HealthInv => Health!NoFalseAlarm
  BY NoFalseAlarmImplied
<1> QED BY <1>1, HealthInvariant, PTL DEF Health!Spec

\* The device, its readings, their copy and the memory of the reconciler keep their types.
THEOREM HealthTyped == ASSUME Health!HealthAssumption PROVE Health!Spec => []Health!TypeOK
<1>1. HealthInv => Health!TypeOK
  BY HealthTypesImplied
<1> QED BY <1>1, HealthInvariant, PTL DEF Health!Spec

\* Beside the polling threads too: a step of theirs is none of the readings.
LEMMA HealthRuns == PollerSpec => Health!Init /\ [][Health!Next]_(Health!healthVars)
<1>1. PollerInit => Health!Init
  BY DEF PollerInit
<1>2. [PollerNext]_pollerVars => [Health!Next]_(Health!healthVars)
  BY DEF PollerNext, FleetStep, HealthStep, pollerVars, healthVars, Health!healthVars
<1> QED BY <1>1, <1>2, PTL DEF PollerSpec

\* A fan tray or a power supply that never fails never has an event, whatever is read.
THEOREM NoAlarmIsFalse == PollerSpec => []NoFalseAlarm
<1>1. HealthInv => NoFalseAlarm
  BY NoFalseAlarmImplied DEF NoFalseAlarm
<1> QED BY <1>1, HealthRuns, HealthInvariant, ReadingsAssumption, PTL

-------------------------------------------------------------------------------
(***************************************************************************)
(* The graph, for any answers of any devices.  Groups of LLDP rows that    *)
(* resolve to one address are merged into one edge (MergedAreOne); an edge *)
(* of theirs stands for a MAC just when a group of it explains the MAC     *)
(* (LldpStands); of the MACs that no group explains, those that resolve to *)
(* one address share an edge and the others have one each (MacTableStands);*)
(* and none of these stands for a MAC that is explained (MacTableKeepsOut),*)
(* which is where OneHost is needed.                                       *)
(***************************************************************************)

\* What a set has first is in it.
LEMMA FirstIn == ASSUME NEW S, S # {} PROVE Topo!First(S) \in S
BY DEF Topo!First

\* A group is of one device, one logical port and one chassis.
OfOne(answers, g) ==
  /\ g # {}
  /\ \A x, y \in g : /\ x.dev = y.dev /\ x.row.chassis = y.row.chassis
                     /\ Topo!LogicalPort(answers, x) = Topo!LogicalPort(answers, y)

LEMMA GroupsAreOfOne ==
  ASSUME NEW answers, NEW pairs
  PROVE  \A g \in Topo!Groups(answers, pairs) : OfOne(answers, g)
<1> DEFINE left == Topo!Unclaimed(answers, pairs)
<1>1. ASSUME NEW x \in left,
             NEW g, g = {y \in left : /\ y.dev = x.dev /\ Topo!LogicalPort(answers, y) = Topo!LogicalPort(answers, x)
                                      /\ y.row.chassis = x.row.chassis}
      PROVE  OfOne(answers, g)
  <2> HIDE DEF left
  <2>1. x \in g
    BY <1>1
  <2>2. \A y \in g : /\ y.dev = x.dev /\ Topo!LogicalPort(answers, y) = Topo!LogicalPort(answers, x)
                     /\ y.row.chassis = x.row.chassis
    BY <1>1
  <2> QED BY <2>1, <2>2 DEF OfOne
<1> QED BY <1>1 DEF Topo!Groups


\* Where a group is seen.
Seen(answers, g, d, port) == Topo!First(g).dev = d /\ Topo!LogicalPort(answers, Topo!First(g)) = port

LEMMA SeenHere ==
  ASSUME NEW answers, NEW groups, \A g \in groups : OfOne(answers, g), NEW d, NEW port, NEW g
  PROVE  g \in Topo!OnPort(answers, groups, d, port) <=> g \in groups /\ Seen(answers, g, d, port)
<1>1. ASSUME g \in groups PROVE Topo!First(g) \in g /\ OfOne(answers, g)
  BY <1>1, FirstIn DEF OfOne
<1>2. ASSUME g \in Topo!OnPort(answers, groups, d, port) PROVE g \in groups /\ Seen(answers, g, d, port)
  <2>1. PICK x \in g : x.dev = d /\ Topo!LogicalPort(answers, x) = port
    BY <1>2 DEF Topo!OnPort
  <2>2. g \in groups
    BY <1>2 DEF Topo!OnPort
  <2> QED BY <1>1, <2>1, <2>2 DEF OfOne, Seen
<1>3. ASSUME g \in groups, Seen(answers, g, d, port) PROVE g \in Topo!OnPort(answers, groups, d, port)
  BY <1>1, <1>3 DEF Seen, Topo!OnPort
<1> QED BY <1>2, <1>3

\* Groups that are merged are drawn as one.
Merge(answers, g, h) == Topo!GroupIp(answers, g) # Topo!NoAddress /\ Topo!GroupIp(answers, h) = Topo!GroupIp(answers, g)

LEMMA MergedAreOne ==
  ASSUME NEW answers, NEW groups, \A g \in groups : OfOne(answers, g), NEW d, NEW port,
         NEW g \in Topo!OnPort(answers, groups, d, port), NEW h \in Topo!OnPort(answers, groups, d, port),
         g = h \/ Merge(answers, g, h)
  PROVE  Topo!External(answers, g, groups) = Topo!External(answers, h, groups)
<1>1. Seen(answers, g, d, port) /\ Seen(answers, h, d, port)
  BY SeenHere
<1> DEFINE here == Topo!OnPort(answers, groups, d, port)
<1>2. CASE g = h
  BY <1>2
<1>3. CASE Merge(answers, g, h)
  <2>1. Topo!GroupIp(answers, g) = Topo!GroupIp(answers, h)
    BY <1>3 DEF Merge
  <2>2. Topo!MergedWith(answers, g, here) = Topo!MergedWith(answers, h, here)
    <3> HIDE DEF here
    <3>1. g \in here /\ h \in here
      BY DEF here
    <3> QED BY <1>3, <3>1 DEF Merge, Topo!MergedWith
  <2>3. Topo!First(g).dev = Topo!First(h).dev /\ Topo!First(g).dev = d
        /\ Topo!LogicalPort(answers, Topo!First(g)) = Topo!LogicalPort(answers, Topo!First(h))
        /\ Topo!LogicalPort(answers, Topo!First(g)) = port
    BY <1>1 DEF Seen
  <2> QED BY <2>1, <2>2, <2>3 DEF Topo!External
<1> QED BY <1>2, <1>3

\* What an LLDP edge says.
LEMMA ExternalSays ==
  ASSUME NEW answers, NEW groups, \A g \in groups : OfOne(answers, g), NEW g \in groups, NEW d, NEW port
  PROVE  LET e == Topo!External(answers, g, groups)
         IN  /\ e.kind = "external" /\ e.ip = Topo!GroupIp(answers, g)
             /\ e.device = d /\ e.port = port <=> Seen(answers, g, d, port)
             /\ "lldp" \in e.via
BY DEF Topo!External, Seen

LEMMA ChassisOfMerged ==
  ASSUME NEW answers, NEW groups, \A g \in groups : OfOne(answers, g), NEW d, NEW port,
         NEW g \in Topo!OnPort(answers, groups, d, port)
  PROVE  \E h \in Topo!OnPort(answers, groups, d, port) :
           /\ g = h \/ Merge(answers, g, h)
           /\ Topo!External(answers, g, groups).chassis \in Topo!MacsOf(h)
<1>1. Seen(answers, g, d, port)
  BY SeenHere
<1> DEFINE here == Topo!OnPort(answers, groups, d, port)
           merged == Topo!MergedWith(answers, g, here)
           h == Topo!First(merged)
<1>2. g \in merged
  BY DEF Topo!MergedWith
<1>3. h \in merged
  <2> HIDE DEF merged
  <2> QED BY <1>2, FirstIn
<1>4. h \in here /\ (g = h \/ Merge(answers, g, h))
  <2> HIDE DEF here, h
  <2> QED BY <1>3 DEF Topo!MergedWith, Merge
<1>5. Topo!First(h) \in h
  <2>1. h \in groups
    BY <1>4 DEF Topo!OnPort
  <2> HIDE DEF h
  <2> QED BY <2>1, FirstIn DEF OfOne
<1>6. Topo!External(answers, g, groups).chassis = Topo!First(h).row.chassis
  <2>1. Topo!First(g).dev = d /\ Topo!LogicalPort(answers, Topo!First(g)) = port
    BY <1>1 DEF Seen
  <2> QED BY <2>1 DEF Topo!External
<1>7. Topo!First(h).row.chassis \in Topo!MacsOf(h)
  <2> HIDE DEF h
  <2> QED BY <1>5 DEF Topo!MacsOf
<1> QED BY <1>4, <1>6, <1>7

\* An LLDP edge stands for a MAC just when it is drawn for a group that explains it.
LEMMA LldpStands ==
  ASSUME NEW answers, NEW groups, \A g \in groups : OfOne(answers, g), NEW d, NEW learned, NEW e
  PROVE  e \in Topo!ExternalEdges(answers, groups) /\ Topo!StandsFor(answers, groups, d, learned, e)
           <=> \E g \in Topo!OnPort(answers, groups, d, learned.port) :
                 Topo!Explains(answers, g, learned.mac) /\ e = Topo!External(answers, g, groups)
<1> DEFINE here == Topo!OnPort(answers, groups, d, learned.port)
<1>0. here \subseteq groups
  BY DEF Topo!OnPort
<1>1. ASSUME NEW g \in here, Topo!Explains(answers, g, learned.mac), e = Topo!External(answers, g, groups)
      PROVE  e \in Topo!ExternalEdges(answers, groups) /\ Topo!StandsFor(answers, groups, d, learned, e)
  <2>1. e.kind = "external" /\ e.ip = Topo!GroupIp(answers, g) /\ e.device = d /\ e.port = learned.port
    BY <1>0, <1>1, SeenHere, ExternalSays
  <2>2. Topo!StandsFor(answers, groups, d, learned, e)
    <3>1. CASE learned.mac \in Topo!MacsOf(g)
      BY <1>1, <2>1, <3>1 DEF Topo!StandsFor
    <3>2. CASE Topo!IpOf(answers, learned.mac) # Topo!NoAddress /\ Topo!GroupIp(answers, g) = Topo!IpOf(answers, learned.mac)
      BY <2>1, <3>2 DEF Topo!StandsFor
    <3> QED BY <1>1, <3>1, <3>2 DEF Topo!Explains, Topo!HasMacOrIp
  <2> QED BY <1>0, <1>1, <2>2 DEF Topo!ExternalEdges
<1>2. ASSUME e \in Topo!ExternalEdges(answers, groups), Topo!StandsFor(answers, groups, d, learned, e)
      PROVE  \E g \in here : Topo!Explains(answers, g, learned.mac) /\ e = Topo!External(answers, g, groups)
  <2>1. PICK g \in groups : e = Topo!External(answers, g, groups)
    BY <1>2 DEF Topo!ExternalEdges
  <2>2. e.device = d /\ e.port = learned.port
    BY <1>2 DEF Topo!StandsFor
  <2>3. g \in here /\ e.ip = Topo!GroupIp(answers, g)
    BY <2>1, <2>2, SeenHere, ExternalSays
  <2>4. CASE e.chassis = learned.mac
    <3>1. PICK h \in here : (g = h \/ Merge(answers, g, h)) /\ e.chassis \in Topo!MacsOf(h)
      BY <2>1, <2>3, ChassisOfMerged
    <3>2. e = Topo!External(answers, h, groups)
      BY <2>1, <2>3, <3>1, MergedAreOne
    <3> QED BY <2>4, <3>1, <3>2 DEF Topo!Explains, Topo!HasMacOrIp
  <2>5. CASE e.ip # Topo!NoAddress /\ e.ip = Topo!IpOf(answers, learned.mac)
    BY <2>1, <2>3, <2>5 DEF Topo!Explains, Topo!HasMacOrIp
  <2>6. CASE \E h \in here : learned.mac \in Topo!MacsOf(h) /\ e = Topo!External(answers, h, groups)
    BY <2>6 DEF Topo!Explains, Topo!HasMacOrIp
  <2> QED BY <1>2, <2>4, <2>5, <2>6 DEF Topo!StandsFor
<1> QED BY <1>1, <1>2

\* What _mac_table_hosts draws on the port of a MAC that it has to draw.
LEMMA MacTableSays ==
  ASSUME NEW answers, NEW rows, NEW d, NEW r \in rows
  PROVE  LET e == Topo!MacTableHost(answers, rows, d, r)
         IN  /\ e.kind = "external" /\ e.device = d /\ e.port = r.port
             /\ e.ip = Topo!IpOf(answers, r.mac) /\ "lldp" \notin e.via
             /\ \E s \in Topo!SameHost(answers, rows, r) : e.chassis = s.mac
<1>1. r \in Topo!SameHost(answers, rows, r)
  BY DEF Topo!SameHost
<1>2. Topo!First(Topo!SameHost(answers, rows, r)) \in Topo!SameHost(answers, rows, r)
  BY <1>1, FirstIn
<1> QED BY <1>2 DEF Topo!MacTableHost

\* Rows of one address are one host; and so are rows of one MAC.
LEMMA SameHostSame ==
  ASSUME NEW answers, NEW rows, NEW d, NEW r \in rows, NEW q \in rows, r.port = q.port,
         Topo!IpOf(answers, r.mac) = Topo!IpOf(answers, q.mac),
         Topo!IpOf(answers, r.mac) # Topo!NoAddress \/ r.mac = q.mac
  PROVE  Topo!MacTableHost(answers, rows, d, r) = Topo!MacTableHost(answers, rows, d, q)
<1>1. CASE Topo!IpOf(answers, r.mac) # Topo!NoAddress
  <2>1. Topo!SameHost(answers, rows, r) = Topo!SameHost(answers, rows, q)
    BY <1>1 DEF Topo!SameHost
  <2> QED BY <2>1 DEF Topo!MacTableHost
<1>2. CASE Topo!IpOf(answers, r.mac) = Topo!NoAddress
  <2>1. Topo!SameHost(answers, rows, r) = {r} /\ Topo!SameHost(answers, rows, q) = {q}
    BY <1>2 DEF Topo!SameHost
  <2>2. Topo!First({r}) = r /\ Topo!First({q}) = q
    BY FirstIn
  <2>3. r.mac = q.mac
    BY <1>2
  <2> QED BY <2>1, <2>2, <2>3 DEF Topo!MacTableHost
<1> QED BY <1>1, <1>2

\* One edge of the MAC table stands for a MAC that no group explains.
LEMMA MacTableStands ==
  ASSUME NEW answers, NEW groups, \A g \in groups : OfOne(answers, g), NEW d, NEW rows, NEW learned \in rows, NEW r \in rows
  PROVE  /\ Topo!StandsFor(answers, groups, d, learned, Topo!MacTableHost(answers, rows, d, learned))
         /\ Topo!StandsFor(answers, groups, d, learned, Topo!MacTableHost(answers, rows, d, r))
              => Topo!MacTableHost(answers, rows, d, r) = Topo!MacTableHost(answers, rows, d, learned)
<1>1. PICK own : own = Topo!MacTableHost(answers, rows, d, learned)
  OBVIOUS
<1>2. /\ own.kind = "external" /\ own.device = d /\ own.port = learned.port
      /\ own.ip = Topo!IpOf(answers, learned.mac) /\ \E s \in Topo!SameHost(answers, rows, learned) : own.chassis = s.mac
  BY <1>1, MacTableSays
<1>3. Topo!StandsFor(answers, groups, d, learned, own)
  <2>1. CASE own.ip # Topo!NoAddress
    BY <1>2, <2>1 DEF Topo!StandsFor
  <2>2. CASE own.ip = Topo!NoAddress
    <3>1. own.chassis = learned.mac
      BY <1>2, <2>2 DEF Topo!SameHost
    <3> QED BY <1>2, <3>1 DEF Topo!StandsFor
  <2> QED BY <2>1, <2>2
<1>4. PICK e : e = Topo!MacTableHost(answers, rows, d, r)
  OBVIOUS
<1>5. /\ e.device = d /\ e.port = r.port /\ e.ip = Topo!IpOf(answers, r.mac) /\ "lldp" \notin e.via
      /\ \E s \in Topo!SameHost(answers, rows, r) : e.chassis = s.mac
  BY <1>4, MacTableSays
<1>6. ASSUME Topo!StandsFor(answers, groups, d, learned, e) PROVE e = own
  <2>1. r.port = learned.port
    BY <1>5, <1>6 DEF Topo!StandsFor
  <2>2. ~ \E g \in Topo!OnPort(answers, groups, d, learned.port) : e = Topo!External(answers, g, groups)
    <3>1. Topo!OnPort(answers, groups, d, learned.port) \subseteq groups
      BY DEF Topo!OnPort
    <3> QED BY <1>5, <3>1, ExternalSays
  <2>3. CASE e.chassis = learned.mac
    <3>1. PICK s \in Topo!SameHost(answers, rows, r) : s.mac = learned.mac
      BY <1>5, <2>3
    <3>2. s \in rows /\ Topo!IpOf(answers, s.mac) = Topo!IpOf(answers, r.mac)
          /\ (s = r \/ Topo!IpOf(answers, r.mac) # Topo!NoAddress)
      BY <3>1 DEF Topo!SameHost
    <3>3. Topo!IpOf(answers, r.mac) = Topo!IpOf(answers, learned.mac)
      BY <3>1, <3>2
    <3>4. Topo!IpOf(answers, r.mac) # Topo!NoAddress \/ r.mac = learned.mac
      BY <3>1, <3>2
    <3> QED BY <1>1, <1>4, <2>1, <3>3, <3>4, SameHostSame
  <2>4. CASE e.ip # Topo!NoAddress /\ e.ip = Topo!IpOf(answers, learned.mac)
    <3>1. Topo!IpOf(answers, r.mac) = Topo!IpOf(answers, learned.mac) /\ Topo!IpOf(answers, r.mac) # Topo!NoAddress
      BY <1>5, <2>4
    <3> QED BY <1>1, <1>4, <2>1, <3>1, SameHostSame
  <2> QED BY <1>6, <2>2, <2>3, <2>4 DEF Topo!StandsFor
<1> QED BY <1>1, <1>3, <1>4, <1>6

\* None stands for a MAC that the groups explain, if they show it as one host.
LEMMA MacTableKeepsOut ==
  ASSUME NEW answers, NEW pairs, NEW groups, \A g \in groups : OfOne(answers, g), NEW d, NEW learned, NEW r,
         r \in Topo!Unexplained(answers, pairs, groups, d),
         Topo!OneHost(answers, groups, d, learned), Topo!Explained(answers, groups, d, learned)
  PROVE  ~ Topo!StandsFor(answers, groups, d, learned,
                          Topo!MacTableHost(answers, Topo!Unexplained(answers, pairs, groups, d), d, r))
<1>1. PICK rows : rows = Topo!Unexplained(answers, pairs, groups, d)
  OBVIOUS
<1>2. \A s \in rows : ~ Topo!Explained(answers, groups, d, s)
  BY <1>1 DEF Topo!Unexplained
<1>3. PICK e : e = Topo!MacTableHost(answers, rows, d, r)
  OBVIOUS
<1>4. /\ e.device = d /\ e.port = r.port /\ e.ip = Topo!IpOf(answers, r.mac) /\ "lldp" \notin e.via
      /\ \E s \in Topo!SameHost(answers, rows, r) : e.chassis = s.mac
  BY <1>1, <1>3, MacTableSays
<1>5. ASSUME Topo!StandsFor(answers, groups, d, learned, e) PROVE FALSE
  <2>1. r.port = learned.port
    BY <1>4, <1>5 DEF Topo!StandsFor
  <2>2. ~ \E g \in Topo!OnPort(answers, groups, d, learned.port) : e = Topo!External(answers, g, groups)
    <3>1. Topo!OnPort(answers, groups, d, learned.port) \subseteq groups
      BY DEF Topo!OnPort
    <3> QED BY <1>4, <3>1, ExternalSays
  <2>3. PICK g \in Topo!OnPort(answers, groups, d, learned.port) : Topo!Explains(answers, g, learned.mac)
    BY DEF Topo!Explained
  <2>4. CASE e.chassis = learned.mac
    <3>1. PICK s \in Topo!SameHost(answers, rows, r) : s.mac = learned.mac
      BY <1>4, <2>4
    <3>2. s \in rows /\ s.port = learned.port
      BY <2>1, <3>1 DEF Topo!SameHost
    <3> QED BY <1>2, <2>3, <3>1, <3>2 DEF Topo!Explained
  <2>5. CASE e.ip # Topo!NoAddress /\ e.ip = Topo!IpOf(answers, learned.mac)
    <3>1. Topo!GroupIp(answers, g) = Topo!IpOf(answers, learned.mac)
      BY <1>4, <2>3, <2>5 DEF Topo!OneHost, Topo!Explains, Topo!HasMacOrIp
    <3>2. Topo!Explains(answers, g, r.mac)
      BY <1>4, <2>5, <3>1 DEF Topo!Explains, Topo!HasMacOrIp
    <3> QED BY <1>1, <1>2, <2>1, <2>3, <3>2 DEF Topo!Explained
  <2> QED BY <1>5, <2>2, <2>4, <2>5 DEF Topo!StandsFor
<1> QED BY <1>1, <1>3, <1>5

AllOfOne(answers, groups) == \A g \in groups : OfOne(answers, g)
BuiltOf(answers, pairs, groups) ==
  Topo!InternalEdges(answers, pairs) \cup Topo!ExternalEdges(answers, groups) \cup Topo!MacTableHosts(answers, pairs, groups)
Standing(answers, groups, d, learned, edges) == {x \in edges : Topo!StandsFor(answers, groups, d, learned, x)}

DrawsOnce(answers, pairs, groups, edges) ==
  \A d \in Topo!Devices : \A learned \in answers[d].mac :
    ~ Topo!Skipped(answers, pairs, d, learned.port) /\ Topo!OneHost(answers, groups, d, learned)
      => \E e : Standing(answers, groups, d, learned, edges) = {e}

\* Every MAC that the pass does not skip, and that LLDP shows as one host, has one edge.
LEMMA OneEdgeStands ==
  ASSUME NEW answers, NEW pairs, NEW groups, AllOfOne(answers, groups)
  PROVE  DrawsOnce(answers, pairs, groups, BuiltOf(answers, pairs, groups))
<1> SUFFICES ASSUME NEW d \in Topo!Devices, NEW learned \in answers[d].mac,
                    ~ Topo!Skipped(answers, pairs, d, learned.port), Topo!OneHost(answers, groups, d, learned)
             PROVE  \E e : Standing(answers, groups, d, learned, BuiltOf(answers, pairs, groups)) = {e}
  BY DEF DrawsOnce
<1> USE DEF Standing, AllOfOne
<1> DEFINE edges == BuiltOf(answers, pairs, groups)
<1>0. edges = Topo!InternalEdges(answers, pairs) \cup Topo!ExternalEdges(answers, groups)
                \cup Topo!MacTableHosts(answers, pairs, groups)
  BY DEF BuiltOf
<1> HIDE DEF edges
<1> DEFINE rows == Topo!Unexplained(answers, pairs, groups, d)
<1>1. \A x \in Topo!InternalEdges(answers, pairs) : ~ Topo!StandsFor(answers, groups, d, learned, x)
  BY DEF Topo!InternalEdges, Topo!StandsFor
<1>2. ASSUME NEW x \in Topo!MacTableHosts(answers, pairs, groups), Topo!StandsFor(answers, groups, d, learned, x)
      PROVE  \E r \in rows : x = Topo!MacTableHost(answers, rows, d, r)
  <2>1. PICK b \in Topo!Devices : \E r \in Topo!Unexplained(answers, pairs, groups, b) :
          x = Topo!MacTableHost(answers, Topo!Unexplained(answers, pairs, groups, b), b, r)
    BY <1>2 DEF Topo!MacTableHosts
  <2>2. x.device = b
    BY <2>1 DEF Topo!MacTableHost
  <2>3. x.device = d
    BY <1>2 DEF Topo!StandsFor
  <2> QED BY <2>1, <2>2, <2>3
<1>3. CASE Topo!Explained(answers, groups, d, learned)
  <2>1. PICK g \in Topo!OnPort(answers, groups, d, learned.port) : Topo!Explains(answers, g, learned.mac)
    BY <1>3 DEF Topo!Explained
  <2>2. PICK e : e = Topo!External(answers, g, groups)
    OBVIOUS
  <2>3. e \in edges /\ Topo!StandsFor(answers, groups, d, learned, e)
    BY <1>0, <2>1, <2>2, LldpStands
  <2>4. ASSUME NEW x \in edges, Topo!StandsFor(answers, groups, d, learned, x) PROVE x = e
    <3>1. x \notin Topo!MacTableHosts(answers, pairs, groups)
      <4> HIDE DEF rows
      <4>1. \A r \in rows : ~ Topo!StandsFor(answers, groups, d, learned, Topo!MacTableHost(answers, rows, d, r))
        BY <1>3, MacTableKeepsOut DEF rows
      <4> QED BY <1>2, <2>4, <4>1
    <3>2. PICK h \in Topo!OnPort(answers, groups, d, learned.port) :
            Topo!Explains(answers, h, learned.mac) /\ x = Topo!External(answers, h, groups)
      <4>1. x \in Topo!ExternalEdges(answers, groups)
        BY <1>0, <1>1, <2>4, <3>1
      <4> QED BY <2>4, <4>1, LldpStands
    <3>3. g = h \/ Merge(answers, g, h)
      BY <2>1, <3>2 DEF Topo!OneHost, Topo!Explains, Topo!HasMacOrIp, Merge
    <3>4. Topo!External(answers, g, groups) = Topo!External(answers, h, groups)
      BY <3>3, MergedAreOne
    <3> QED BY <2>2, <3>2, <3>4
  <2> QED BY <2>3, <2>4 DEF edges
<1>4. CASE ~ Topo!Explained(answers, groups, d, learned)
  <2>1. learned \in rows
    BY <1>4 DEF Topo!Unexplained
  <2>2. PICK e : e = Topo!MacTableHost(answers, rows, d, learned)
    OBVIOUS
  <2>3. e \in edges
    <3>1. e \in Topo!MacTableHosts(answers, pairs, groups)
      BY <2>1, <2>2 DEF Topo!MacTableHosts
    <3> QED BY <1>0, <3>1
  <2>4. Topo!StandsFor(answers, groups, d, learned, e)
    <3> HIDE DEF rows
    <3> QED BY <2>1, <2>2, MacTableStands
  <2>5. ASSUME NEW x \in edges, Topo!StandsFor(answers, groups, d, learned, x) PROVE x = e
    <3>1. x \notin Topo!ExternalEdges(answers, groups)
      BY <1>4, <2>5, LldpStands DEF Topo!Explained
    <3>2. PICK r \in rows : x = Topo!MacTableHost(answers, rows, d, r)
      <4> HIDE DEF rows
      <4> QED BY <1>0, <1>1, <1>2, <2>5, <3>1
    <3> HIDE DEF rows
    <3> QED BY <2>1, <2>2, <2>5, <3>2, MacTableStands
  <2> QED BY <2>3, <2>4, <2>5 DEF edges
<1> QED BY <1>3, <1>4

\* Whatever the devices answered, each host is drawn once.
LEMMA DrawnOnceHolds == Topo!DrawnOnce
<1>1. PICK answers, pairs, groups, edges :
        /\ answers = Topo!Answers(graph.asked) /\ pairs = Topo!Pairs(answers)
        /\ groups = Topo!Groups(answers, pairs) /\ edges = Topo!Edges
  OBVIOUS
<1>2. ASSUME Topo!HasResult, NEW d \in Topo!Devices, NEW learned \in answers[d].mac,
             ~ Topo!Skipped(answers, pairs, d, learned.port), Topo!OneHost(answers, groups, d, learned)
      PROVE  Topo!Cardinality({e \in edges : Topo!StandsFor(answers, groups, d, learned, e)}) = 1
  <2>1. AllOfOne(answers, groups)
    BY <1>1, GroupsAreOfOne DEF AllOfOne
  <2>2. edges = BuiltOf(answers, pairs, groups)
    BY <1>1, <1>2 DEF Topo!Edges, Topo!Build, BuiltOf
  <2>3. PICK e : Standing(answers, groups, d, learned, edges) = {e}
    <3>1. DrawsOnce(answers, pairs, groups, edges)
      BY <2>1, <2>2, OneEdgeStands
    <3> QED BY <1>2, <3>1 DEF DrawsOnce
  <2>4. Cardinality({e}) = 1
    BY FS_Singleton
  <2> QED BY <2>3, <2>4 DEF Standing, Topo!Cardinality, Cardinality
<1> QED BY <1>1, <1>2 DEF Topo!DrawnOnce

\* And the state of an edge is its port's.
LEMMA PortsAgree == Topo!EdgesOfAPortAgree
BY DEF Topo!EdgesOfAPortAgree, Topo!StateOf, Topo!Members

-----------------------------------------------------------------------------
(***************************************************************************)
(* Topology: the crawls, the cache and the baseline.                       *)
(***************************************************************************)
AskedOf == [from : {0} \cup DOMAIN Networks, failed : SUBSET Topo!Commands]
Crawl == [at : {"rest", "gather", "finally"}, asked : [Topo!Devices -> AskedOf], left : SUBSET Topo!Devices, raised : BOOLEAN]

TopologyInv ==
  /\ network \in DOMAIN Networks
  /\ moves \in 0..MaxMoves /\ wireEdits \in 0..MaxWireEdits /\ crawlFaults \in 0..MaxCrawlFaults
  /\ graph \in [asked : [Topo!Devices -> AskedOf], status : {0} \cup DOMAIN Networks, refreshing : BOOLEAN]
  /\ crawl \in [Topo!Crawlers -> Crawl]

LEMMA TopologyTypesImplied == TopologyInv => Topo!TypeOK
BY DEF TopologyInv, Topo!TypeOK, Topo!HasResult, Crawl

LEMMA RestingIsACrawl == Topo!Resting \in Crawl /\ Topo!Crawling \in Crawl
<1>1. Topo!Unasked \in AskedOf
  BY DEF Topo!Unasked, AskedOf, Topo!Commands
<1>2. [d \in Topo!Devices |-> Topo!Unasked] \in [Topo!Devices -> AskedOf]
  BY <1>1
<1> QED BY <1>2 DEF Topo!Resting, Topo!Crawling, Crawl

LEMMA TopologyInit == ASSUME Topo!TopologyAssumption, Topo!Init PROVE TopologyInv
<1>1. Topo!Resting \in Crawl /\ Topo!Resting.asked \in [Topo!Devices -> AskedOf]
  BY RestingIsACrawl DEF Crawl
<1> QED BY <1>1 DEF Topo!TopologyAssumption, Topo!Init, TopologyInv

LEMMA TopologyHolds ==
  ASSUME Topo!TopologyAssumption, TopologyInv, [Topo!Next]_(Topo!topoVars)
  PROVE  TopologyInv'
<1> USE DEF TopologyInv, Topo!TopologyAssumption
<1>1. CASE Topo!Move
  BY <1>1 DEF Topo!Move
<1>2. ASSUME NEW c \in Topo!Crawlers, Topo!StartCrawl(c) PROVE TopologyInv'
  BY <1>2, RestingIsACrawl DEF Topo!StartCrawl, Topo!Goes
<1>3. ASSUME NEW c \in Topo!Crawlers, Topo!Refused(c) PROVE TopologyInv'
  BY <1>3 DEF Topo!Refused, Topo!topoVars
<1>4. ASSUME NEW c \in Topo!Crawlers, Topo!Gather(c) PROVE TopologyInv'
  <2> DEFINE new(d, failed) == [from |-> network, failed |-> failed]
             to(d, failed) == [crawl[c] EXCEPT !.left = @ \ {d}, !.asked[d] = new(d, failed)]
  <2>1. PICK d \in crawl[c].left :
          \E failed \in {{}} \cup (IF crawlFaults < MaxCrawlFaults THEN {{"lldp"}, {"mac"}, Topo!Commands} ELSE {}) :
            /\ crawlFaults' = IF failed = {} THEN crawlFaults ELSE crawlFaults + 1
            /\ Topo!Goes(c, to(d, failed))
    BY <1>4 DEF Topo!Gather
  <2>2. PICK failed \in {{}} \cup (IF crawlFaults < MaxCrawlFaults THEN {{"lldp"}, {"mac"}, Topo!Commands} ELSE {}) :
          /\ crawlFaults' = IF failed = {} THEN crawlFaults ELSE crawlFaults + 1
          /\ Topo!Goes(c, to(d, failed))
    BY <2>1
  <2>3. failed \subseteq Topo!Commands
    BY <2>2 DEF Topo!Commands
  <2>4. failed = {} \/ crawlFaults < MaxCrawlFaults
    BY <2>2
  <2>5. crawl[c] \in Crawl /\ network \in DOMAIN Networks
    OBVIOUS
  <2>6. to(d, failed) \in Crawl
    <3>1. new(d, failed) \in AskedOf /\ d \in Topo!Devices
      BY <2>1, <2>3, <2>5 DEF AskedOf, Crawl
    <3> HIDE DEF new
    <3>2. PICK half : half = [crawl[c] EXCEPT !.left = @ \ {d}]
      OBVIOUS
    <3>3. half \in Crawl
      BY <2>5, <3>2 DEF Crawl
    <3>4. to(d, failed) = [half EXCEPT !.asked[d] = new(d, failed)]
      BY <3>2
    <3>5. [half EXCEPT !.asked[d] = new(d, failed)] \in Crawl
      BY <3>1, <3>3 DEF Crawl
    <3> QED BY <3>4, <3>5
  <2>7. crawl' \in [Topo!Crawlers -> Crawl]
    <3> HIDE DEF to
    <3> QED BY <2>2, <2>6 DEF Topo!Goes
  <2>8. crawlFaults' \in 0..MaxCrawlFaults
    BY <2>2, <2>4
  <2> QED BY <1>4, <2>7, <2>8 DEF Topo!Gather
<1>5. ASSUME NEW c \in Topo!Crawlers, Topo!Publish(c) PROVE TopologyInv'
  <2>1. [Topo!Resting EXCEPT !.at = "finally"] \in Crawl /\ crawl[c].asked \in [Topo!Devices -> AskedOf]
    BY RestingIsACrawl DEF Crawl
  <2> QED BY <1>5, <2>1 DEF Topo!Publish, Topo!Goes
<1>6. ASSUME NEW c \in Topo!Crawlers, Topo!Raises(c) PROVE TopologyInv'
  <2>1. [Topo!Resting EXCEPT !.at = "finally", !.raised = TRUE] \in Crawl
    BY RestingIsACrawl DEF Crawl
  <2> QED BY <1>6, <2>1 DEF Topo!Raises, Topo!Goes
<1>7. ASSUME NEW c \in Topo!Crawlers, Topo!Finally(c) PROVE TopologyInv'
  <2>1. crawl' \in [Topo!Crawlers -> Crawl]
    BY <1>7, RestingIsACrawl DEF Topo!Finally, Topo!Goes
  <2>2. graph' = [graph EXCEPT !.refreshing = FALSE]
    BY <1>7 DEF Topo!Finally, Topo!Released
  <2> QED BY <1>7, <2>1, <2>2 DEF Topo!Finally
<1>8. ASSUME NEW a \in Wirers, Topo!StartRelearn(a) PROVE TopologyInv'
  <2>1. crawl' \in [Topo!Crawlers -> Crawl]
    BY <1>8, RestingIsACrawl DEF Topo!StartRelearn, Topo!Goes
  <2> QED BY <1>8, <2>1 DEF Topo!StartRelearn, Topo!Edit
<1>9. ASSUME NEW a \in Wirers, Topo!SaveLearned(a) PROVE TopologyInv'
  BY <1>9, RestingIsACrawl DEF Topo!SaveLearned, Topo!Goes
<1>10. ASSUME NEW a \in Wirers, Topo!ReadForAccept(a) PROVE TopologyInv'
  BY <1>10 DEF Topo!ReadForAccept, Topo!Edit
<1>11. ASSUME NEW a \in Wirers, Topo!SaveAccepted(a) PROVE TopologyInv'
  BY <1>11 DEF Topo!SaveAccepted
<1>12. ASSUME NEW a \in Wirers, Topo!Clear(a) PROVE TopologyInv'
  BY <1>12 DEF Topo!Clear, Topo!Edit
<1>13. CASE UNCHANGED Topo!topoVars
  BY <1>13 DEF Topo!topoVars
<1> QED BY <1>1, <1>2, <1>3, <1>4, <1>5, <1>6, <1>7, <1>8, <1>9, <1>10, <1>11, <1>12, <1>13
        DEF Topo!Next, Topo!CrawlStep

LEMMA TopologyInvariant ==
  ASSUME Topo!TopologyAssumption PROVE Topo!Init /\ [][Topo!Next]_(Topo!topoVars) => []TopologyInv
<1>1. Topo!Init => TopologyInv
  BY TopologyInit
<1>2. TopologyInv /\ [Topo!Next]_(Topo!topoVars) => TopologyInv'
  BY TopologyHolds
<1> QED BY <1>1, <1>2, PTL

-----------------------------------------------------------------------------
(***************************************************************************)
(* RuleEvents.                                                             *)
(***************************************************************************)
Rule == [name : Names \cup {"none", "deleted", "duplicate-ip"}, enabled : BOOLEAN, timed : BOOLEAN]
Copy == [list : [Rules!Ids -> Rule] \cup {<<>>}, age : 0..RuleTTL]
RulesInv ==
  /\ rules \in [Rules!Ids -> Rule]
  /\ ruleEdits \in 0..MaxRuleEdits /\ lines \in 0..MaxLines
  /\ ruleCache \in Copy
  /\ reader \in [Rules!Readers -> [at : {"idle", "query", "store", "use"}, copy : Copy]]
  /\ operator \in [RuleOperators -> [todo : SUBSET {"pop", "resolve"}, rule : {0} \cup Rules!Ids]]
  /\ due \subseteq open /\ \A e \in open : e.rule \in Rules!Ids

LEMMA RuleTypesImplied == RulesInv => Rules!TypeOK
BY DEF RulesInv, Rules!TypeOK, Rule, Rules!DEFAULT_RULE

LEMMA RuleRows == Rules!Absent \in Rule /\ Rules!Deleted \in Rule /\ Rules!DEFAULT_RULE \in Rule
BY DEF Rules!Absent, Rules!Deleted, Rules!DEFAULT_RULE, Rule

LEMMA SeededIsTyped == ASSUME NEW table \in [Rules!Ids -> Rule] PROVE Rules!Seeded(table) \in [Rules!Ids -> Rule]
<1> HIDE DEF Rule
<1> QED BY RuleRows DEF Rules!Seeded

LEMMA CopiesAreTyped ==
  ASSUME Rules!RuleAssumption, NEW copy \in Copy
  PROVE  /\ Rules!NoCopy \in Copy /\ Rules!Older(copy) \in Copy
         /\ Rules!Using(copy) \in [at : {"use"}, copy : Copy]
         /\ \A list \in [Rules!Ids -> Rule] : [list |-> list, age |-> copy.age] \in Copy
BY DEF Rules!RuleAssumption, Copy, Rules!NoCopy, Rules!Older, Rules!Using, Rules!Capped

LEMMA RulesInit == ASSUME Rules!RuleAssumption, Rules!Init PROVE RulesInv
<1>1. rules \in [Rules!Ids -> Rule]
  BY SeededIsTyped, RuleRows DEF Rules!Init
<1>2. Rules!NoCopy \in Copy
  BY DEF Rules!RuleAssumption, Copy, Rules!NoCopy
<1> QED BY <1>1, <1>2 DEF Rules!RuleAssumption, Rules!Init, RulesInv, Rules!Waiting, Rules!Done

\* What the threads that read the rules do.
LEMMA ReaderHolds ==
  ASSUME Rules!RuleAssumption, RulesInv, NEW t \in Rules!Readers, Rules!ReaderStep(t)
  PROVE  RulesInv'
<1> USE DEF RulesInv, Rules!Reads
<1>0. /\ reader[t].copy \in Copy /\ Rules!Waiting \in [at : {"idle", "query", "store", "use"}, copy : Copy]
      /\ Rules!NoCopy \in Copy
  BY CopiesAreTyped DEF Rules!Waiting
<1>1. CASE Rules!Take(t)
  <2>1. Rules!Using(ruleCache) \in [at : {"use"}, copy : Copy]
    BY CopiesAreTyped
  <2> QED BY <1>0, <1>1, <2>1 DEF Rules!Take
<1>2. CASE Rules!QueryRules(t)
  <2>1. Rules!EnabledOnly \in [Rules!Ids -> Rule]
    <3> HIDE DEF Rule
    <3> QED BY RuleRows DEF Rules!EnabledOnly
  <2>2. [list |-> Rules!EnabledOnly, age |-> reader[t].copy.age] \in Copy
    BY <1>0, <2>1, CopiesAreTyped
  <2> QED BY <1>2, <2>2 DEF Rules!QueryRules
<1>3. CASE Rules!Store(t)
  <2>1. Rules!Using(reader[t].copy) \in [at : {"use"}, copy : Copy]
    BY <1>0, CopiesAreTyped
  <2> QED BY <1>0, <1>3, <2>1 DEF Rules!Store
<1>4. CASE Rules!Evaluate(t)
  <2>1. \E i \in Rules!Enabled(reader[t].copy.list) : \E told :
          /\ told = [rule |-> i, name |-> reader[t].copy.list[i].name]
          /\ \/ open' = open \cup {told} /\ due' = due \ {told}
             \/ open' = {e \in open : e.name # told.name} /\ due' = due \cap open'
    BY <1>4 DEF Rules!Evaluate
  <2>2. PICK told : /\ told.rule \in Rules!Ids
                    /\ \/ open' = open \cup {told} /\ due' = due \ {told}
                       \/ open' = {e \in open : e.name # told.name} /\ due' = due \cap open'
    BY <2>1 DEF Rules!Enabled
  <2>3. due' \subseteq open' /\ \A e \in open' : e.rule \in Rules!Ids
    BY <2>2
  <2>4. lines' \in 0..MaxLines
    BY <1>4 DEF Rules!Evaluate, Rules!RuleAssumption
  <2> QED BY <1>0, <1>4, <2>3, <2>4 DEF Rules!Evaluate
<1>5. CASE Rules!NoRuleMatches(t)
  BY <1>0, <1>5 DEF Rules!NoRuleMatches
<1>6. CASE t = Rules!Timers /\ Rules!ExpireRules
  BY <1>0, <1>6 DEF Rules!ExpireRules
<1> QED BY <1>1, <1>2, <1>3, <1>4, <1>5, <1>6 DEF Rules!ReaderStep

\* What an operator does.
LEMMA OperatorHolds ==
  ASSUME Rules!RuleAssumption, RulesInv, NEW o \in RuleOperators,
         Rules!Create(o) \/ Rules!Update(o) \/ Rules!Delete(o) \/ Rules!OperatorStep(o)
  PROVE  RulesInv'
<1> USE DEF RulesInv, Rules!RuleAssumption
<1>1. CASE Rules!Create(o)
  <2>1. PICK i \in Rules!Ids, n \in Names, timed \in BOOLEAN :
          /\ Rules!Request(o, {"pop"}, i)
          /\ Rules!Edits([rules EXCEPT ![i] = [name |-> n, enabled |-> TRUE, timed |-> timed]])
    BY <1>1 DEF Rules!Create
  <2>2. [name |-> n, enabled |-> TRUE, timed |-> timed] \in Rule
    BY DEF Rule
  <2>3. [rules EXCEPT ![i] = [name |-> n, enabled |-> TRUE, timed |-> timed]] \in [Rules!Ids -> Rule]
    BY <2>2
  <2> QED BY <2>1, <2>3 DEF Rules!Request, Rules!Edits
<1>2. CASE Rules!Update(o)
  <2>1. PICK i \in Rules!Ids, enabled \in BOOLEAN : \E n \in Names \cup {rules[i].name} :
          /\ Rules!Request(o, IF enabled THEN {"pop"} ELSE {"pop", "resolve"}, i)
          /\ Rules!Edits([rules EXCEPT ![i] = [[rules[i] EXCEPT !.name = n] EXCEPT !.enabled = enabled]])
    BY <1>2 DEF Rules!Update
  <2>2. PICK n \in Names \cup {rules[i].name} :
          /\ Rules!Request(o, IF enabled THEN {"pop"} ELSE {"pop", "resolve"}, i)
          /\ Rules!Edits([rules EXCEPT ![i] = [[rules[i] EXCEPT !.name = n] EXCEPT !.enabled = enabled]])
    BY <2>1
  <2>3. [[rules[i] EXCEPT !.name = n] EXCEPT !.enabled = enabled] \in Rule
    <3>1. PICK old : old = rules[i]
      OBVIOUS
    <3>2. old \in Rule
      BY <3>1
    <3>3. n \in Names \cup {"none", "deleted", "duplicate-ip"}
      BY <2>2, <3>1, <3>2 DEF Rule
    <3>4. [[old EXCEPT !.name = n] EXCEPT !.enabled = enabled] \in Rule
      BY <3>2, <3>3 DEF Rule
    <3> QED BY <3>1, <3>4
  <2>4. [rules EXCEPT ![i] = [[rules[i] EXCEPT !.name = n] EXCEPT !.enabled = enabled]] \in [Rules!Ids -> Rule]
    BY <2>3
  <2> QED BY <2>2, <2>4 DEF Rules!Request, Rules!Edits
<1>3. CASE Rules!Delete(o)
  <2>1. PICK i \in Rules!Ids : Rules!Request(o, {"pop", "resolve"}, i) /\ Rules!Edits([rules EXCEPT ![i] = Rules!Deleted])
    BY <1>3 DEF Rules!Delete
  <2>2. [rules EXCEPT ![i] = Rules!Deleted] \in [Rules!Ids -> Rule]
    BY RuleRows
  <2> QED BY <2>1, <2>2 DEF Rules!Request, Rules!Edits
<1>4. CASE Rules!PopCache(o)
  <2>1. Rules!NoCopy \in Copy
    BY CopiesAreTyped
  <2> QED BY <1>4, <2>1 DEF Rules!PopCache
<1>5. CASE Rules!ResolveOpen(o)
  BY <1>5 DEF Rules!ResolveOpen, Rules!Done
<1>6. CASE Rules!Answer(o)
  BY <1>6 DEF Rules!Answer, Rules!Done
<1> QED BY <1>1, <1>2, <1>3, <1>4, <1>5, <1>6 DEF Rules!OperatorStep

LEMMA RulesHold ==
  ASSUME Rules!RuleAssumption, RulesInv, [Rules!Next]_(Rules!ruleVars)
  PROVE  RulesInv'
<1> USE DEF RulesInv
<1>1. CASE Rules!Connect
  <2>1. Rules!NoCopy \in Copy /\ Rules!Seeded(rules) \in [Rules!Ids -> Rule]
    BY CopiesAreTyped, SeededIsTyped
  <2> QED BY <1>1, <2>1 DEF Rules!Connect, Rules!RuleAssumption
<1>2. CASE Rules!Tick
  <2>1. ruleCache' \in Copy
    BY <1>2, CopiesAreTyped DEF Rules!Tick
  <2>2. \A t \in Rules!Readers : [reader[t] EXCEPT !.copy = Rules!Older(reader[t].copy)]
                                   \in [at : {"idle", "query", "store", "use"}, copy : Copy]
    <3>1. \A t \in Rules!Readers : Rules!Older(reader[t].copy) \in Copy
      BY CopiesAreTyped
    <3> QED BY <3>1
  <2>3. reader' \in [Rules!Readers -> [at : {"idle", "query", "store", "use"}, copy : Copy]]
    BY <1>2, <2>2 DEF Rules!Tick
  <2> QED BY <1>2, <2>1, <2>3 DEF Rules!Tick
<1>3. CASE UNCHANGED Rules!ruleVars
  BY <1>3 DEF Rules!ruleVars
<1> QED BY <1>1, <1>2, <1>3, ReaderHolds, OperatorHolds DEF Rules!Next

LEMMA RulesInvariant ==
  ASSUME Rules!RuleAssumption PROVE Rules!Init /\ [][Rules!Next]_(Rules!ruleVars) => []RulesInv
<1>1. Rules!Init => RulesInv
  BY RulesInit
<1>2. RulesInv /\ [Rules!Next]_(Rules!ruleVars) => RulesInv'
  BY RulesHold
<1> QED BY <1>1, <1>2, PTL

-----------------------------------------------------------------------------
(***************************************************************************)
(* SettingsCache.                                                          *)
(***************************************************************************)
Row == [severity : Severities, params : Thresholds]
Fields == [severity : Severities \cup {"none"}, params : Thresholds \cup {"none"}]
Looks == {"check", "query", "fill", "take"}
Call == [at : Looks \cup {"idle", "write", "invalidate"}, hand : Row \cup {Settings!Empty}, asked : Fields]

\* What is asked is told apart from nothing; what is about to be filled in or written is a row.
RowInHand(c) ==
  /\ c.at = "fill" => c.hand \in Row
  /\ c.at = "write" => Settings!Merged(c.hand, c.asked) \in Row
SettingsInv ==
  /\ keeper \in {"kinds", "ports"}
  /\ override \in Row /\ cache \in Row \cup {Settings!Empty} /\ age \in 0..(SettingsTTL + 1) /\ edits \in 0..MaxEdits
  /\ caller \in [Settings!Callers -> Call] /\ \A c \in Settings!Callers : RowInHand(caller[c])
  /\ seen \in [Judges -> Row]

LEMMA SettingsTypesImplied == SettingsInv => Settings!TypeOK
BY DEF SettingsInv, Settings!TypeOK, Settings!Rows, Row, Call, Looks

\* Rows, and nothing asked for, are fields; fields over a row are a row.
LEMMA FieldsOfARow == Row \subseteq Fields /\ Settings!Empty \in Fields /\ Settings!Asked \subseteq Fields
BY DEF Row, Fields, Settings!Empty, Settings!Asked, Settings!Unchanged

LEMMA MergedIsARow == ASSUME NEW hand \in Row, NEW asked \in Fields PROVE Settings!Merged(hand, asked) \in Row
BY DEF Row, Fields, Settings!Merged

\* A row is written as it is asked for: what has no value keeps none.
LEMMA DefaultIsARow == ASSUME NEW asked \in Row PROVE Settings!Merged(Settings!Empty, asked) = asked
BY DEF Row, Settings!Merged, Settings!Empty

LEMMA SettingsInit == ASSUME Settings!SettingsAssumption, Settings!Init PROVE SettingsInv
<1>1. Default \in Row /\ SettingsTTL \in Nat /\ MaxEdits \in Nat
  BY DEF Settings!SettingsAssumption, Row
<1>2. Settings!Idle \in Call /\ RowInHand(Settings!Idle)
  BY FieldsOfARow DEF Settings!Idle, Settings!Unchanged, Call, RowInHand
<1> QED BY <1>1, <1>2 DEF Settings!Init, SettingsInv

\* A thread that moves on to a state of its own that is sound.
LEMMA MovesHold ==
  ASSUME SettingsInv, NEW c \in Settings!Callers, NEW to \in Call, RowInHand(to),
         caller' = [caller EXCEPT ![c] = to]
  PROVE  caller' \in [Settings!Callers -> Call] /\ \A d \in Settings!Callers : RowInHand(caller'[d])
BY DEF SettingsInv

LEMMA LookHolds ==
  ASSUME Settings!SettingsAssumption, SettingsInv, NEW c \in Settings!Callers, Settings!Look(c)
  PROVE  SettingsInv'
<1>0. /\ caller[c] \in Call /\ RowInHand(caller[c])
      /\ override \in Row /\ cache \in Row \cup {Settings!Empty} /\ age \in 0..(SettingsTTL + 1) /\ edits \in 0..MaxEdits
      /\ seen \in [Judges -> Row] /\ keeper \in {"kinds", "ports"}
  BY DEF SettingsInv
<1>1. CASE Settings!Check(c)
  <2>1. PICK to : /\ to \in {[caller[c] EXCEPT !.at = "take"], [caller[c] EXCEPT !.at = "query"]}
                  /\ caller' = [caller EXCEPT ![c] = to]
    BY <1>1 DEF Settings!Check, Settings!Moves
  <2>2. to \in Call /\ RowInHand(to)
    BY <1>0, <2>1 DEF Call, RowInHand, Looks
  <2>3. UNCHANGED <<keeper, override, cache, age, edits, seen>>
    BY <1>1 DEF Settings!Check, Settings!Moves, Settings!AgeAfter
  <2> QED BY <1>0, <2>1, <2>2, <2>3, MovesHold DEF SettingsInv
<1>2. CASE Settings!Query(c)
  <2>1. PICK to : to = [caller[c] EXCEPT !.at = "fill", !.hand = override] /\ caller' = [caller EXCEPT ![c] = to]
    BY <1>2 DEF Settings!Query, Settings!Moves
  <2>2. to \in Call /\ RowInHand(to)
    BY <1>0, <2>1 DEF Call, RowInHand, Looks
  <2>3. UNCHANGED <<keeper, override, cache, age, edits, seen>>
    BY <1>2 DEF Settings!Query, Settings!Moves
  <2> QED BY <1>0, <2>1, <2>2, <2>3, MovesHold DEF SettingsInv
<1>3. CASE Settings!Fill(c)
  <2>1. PICK to : to = [caller[c] EXCEPT !.at = "take"] /\ caller' = [caller EXCEPT ![c] = to]
    BY <1>3 DEF Settings!Fill, Settings!Moves
  <2>2. to \in Call /\ RowInHand(to)
    BY <1>0, <2>1 DEF Call, RowInHand, Looks
  <2>3. UNCHANGED <<keeper, override, edits, seen>> /\ cache' = caller[c].hand /\ caller[c].at = "fill" /\ age' = 0
    BY <1>3 DEF Settings!Fill, Settings!Moves
  <2>4. cache' \in Row /\ age' \in 0..(SettingsTTL + 1)
    BY <1>0, <2>3 DEF RowInHand, Settings!SettingsAssumption
  <2> QED BY <1>0, <2>1, <2>2, <2>3, <2>4, MovesHold DEF SettingsInv
<1>4. CASE Settings!Take(c)
  <2>1. PICK to : /\ to = IF Settings!Emptied \/ c \in Judges \/ caller[c].asked = Settings!Unchanged
                             THEN Settings!Idle ELSE [caller[c] EXCEPT !.at = "write", !.hand = cache]
                  /\ caller' = [caller EXCEPT ![c] = to]
    BY <1>4 DEF Settings!Take, Settings!Moves
  <2>2. Settings!Idle \in Call /\ RowInHand(Settings!Idle)
    BY FieldsOfARow DEF Settings!Idle, Settings!Unchanged, Call, RowInHand
  <2>3. ASSUME ~ Settings!Emptied
        PROVE  [caller[c] EXCEPT !.at = "write", !.hand = cache] \in Call
               /\ RowInHand([caller[c] EXCEPT !.at = "write", !.hand = cache])
    <3>1. cache \in Row /\ caller[c].asked \in Fields
      BY <1>0, <2>3 DEF Settings!Emptied, Call
    <3>2. Settings!Merged(cache, caller[c].asked) \in Row
      BY <3>1, MergedIsARow
    <3> QED BY <1>0, <3>1, <3>2 DEF Call, RowInHand
  <2>4. to \in Call /\ RowInHand(to)
    BY <2>1, <2>2, <2>3
  <2>5. seen' \in [Judges -> Row]
    BY <1>0, <1>4 DEF Settings!Take, Settings!Emptied
  <2>6. UNCHANGED <<keeper, override, cache, age, edits>>
    BY <1>4 DEF Settings!Take, Settings!Moves
  <2> QED BY <1>0, <2>1, <2>4, <2>5, <2>6, MovesHold DEF SettingsInv
<1> QED BY <1>1, <1>2, <1>3, <1>4 DEF Settings!Look

LEMMA ChangeHolds ==
  ASSUME Settings!SettingsAssumption, SettingsInv, NEW o \in SettingsOperators,
         Settings!Set(o) \/ Settings!Reset(o) \/ Settings!Write(o) \/ Settings!Invalidate(o)
  PROVE  SettingsInv'
<1>0. /\ o \in Settings!Callers /\ caller[o] \in Call /\ RowInHand(caller[o])
      /\ override \in Row /\ cache \in Row \cup {Settings!Empty} /\ age \in 0..(SettingsTTL + 1) /\ edits \in 0..MaxEdits
      /\ seen \in [Judges -> Row] /\ Default \in Row /\ MaxEdits \in Nat
      /\ keeper \in {"kinds", "ports"}
  BY DEF SettingsInv, Settings!Callers, Settings!SettingsAssumption, Row
<1>1. Settings!Idle \in Call /\ RowInHand(Settings!Idle)
  BY FieldsOfARow DEF Settings!Idle, Settings!Unchanged, Call, RowInHand
<1>2. ASSUME NEW a \in Fields
      PROVE  /\ [Settings!Idle EXCEPT !.at = "check", !.asked = a] \in Call
             /\ [Settings!Idle EXCEPT !.at = "write", !.asked = a] \in Call
             /\ RowInHand([Settings!Idle EXCEPT !.at = "check", !.asked = a])
             /\ Settings!Merged(Settings!Empty, a) \in Row => RowInHand([Settings!Idle EXCEPT !.at = "write", !.asked = a])
  BY <1>1 DEF Call, RowInHand, Looks, Settings!Idle
<1>3. CASE Settings!Set(o)
  <2>1. PICK a \in Settings!Asked :
          /\ keeper = "ports" => a.severity # "none" /\ a.params = Default.params
          /\ caller' = [caller EXCEPT ![o] = [Settings!Idle EXCEPT !.at = IF keeper = "kinds" THEN "check" ELSE "write", !.asked = a]]
    BY <1>3 DEF Settings!Set
  <2>2. a \in Fields
    BY FieldsOfARow
  <2>3. PICK to : /\ to = [Settings!Idle EXCEPT !.at = IF keeper = "kinds" THEN "check" ELSE "write", !.asked = a]
                  /\ caller' = [caller EXCEPT ![o] = to]
    BY <2>1
  <2>4. to \in Call /\ RowInHand(to)
    <3>1. CASE keeper = "kinds"
      BY <1>2, <2>2, <2>3, <3>1
    <3>2. CASE keeper = "ports"
      <4>1. a.severity # "none" /\ a.params = Default.params
        BY <2>1, <3>2
      <4>2. Settings!Merged(Settings!Empty, a) \in Row
        BY <1>0, <2>2, <4>1 DEF Row, Fields, Settings!Merged, Settings!Empty
      <4> QED BY <1>2, <2>2, <2>3, <3>2, <4>2
    <3> QED BY <1>0, <3>1, <3>2
  <2>5. UNCHANGED <<keeper, override, cache, age, seen>> /\ edits < MaxEdits /\ edits' = edits + 1
    BY <1>3 DEF Settings!Set
  <2>6. edits' \in 0..MaxEdits
    BY <1>0, <2>5
  <2> QED BY <1>0, <2>3, <2>4, <2>5, <2>6, MovesHold DEF SettingsInv
<1>4. CASE Settings!Reset(o)
  <2>1. PICK to : to = [Settings!Idle EXCEPT !.at = "write", !.asked = Default] /\ caller' = [caller EXCEPT ![o] = to]
    BY <1>4 DEF Settings!Reset
  <2>2. to \in Call /\ RowInHand(to)
    <3>1. Default \in Fields /\ Settings!Merged(Settings!Empty, Default) \in Row
      BY <1>0, FieldsOfARow, DefaultIsARow
    <3> QED BY <1>2, <2>1, <3>1
  <2>3. UNCHANGED <<keeper, override, cache, age, seen>> /\ edits' \in 0..MaxEdits
    BY <1>0, <1>4 DEF Settings!Reset
  <2> QED BY <1>0, <2>1, <2>2, <2>3, MovesHold DEF SettingsInv
<1>5. CASE Settings!Write(o)
  <2>1. PICK to : to = [caller[o] EXCEPT !.at = "invalidate"] /\ caller' = [caller EXCEPT ![o] = to]
    BY <1>5 DEF Settings!Write, Settings!Moves
  <2>2. to \in Call /\ RowInHand(to)
    BY <1>0, <2>1 DEF Call, RowInHand
  <2>3. UNCHANGED <<keeper, cache, age, seen, edits>> /\ override' \in Row
    BY <1>0, <1>5 DEF Settings!Write, Settings!Moves, RowInHand
  <2> QED BY <1>0, <2>1, <2>2, <2>3, MovesHold DEF SettingsInv
<1>6. CASE Settings!Invalidate(o)
  <2>1. PICK to : /\ to = IF keeper = "kinds" THEN [Settings!Idle EXCEPT !.at = "check"] ELSE Settings!Idle
                  /\ caller' = [caller EXCEPT ![o] = to]
    BY <1>6 DEF Settings!Invalidate, Settings!Moves
  <2>2. to \in Call /\ RowInHand(to)
    BY <1>1, <2>1 DEF Call, RowInHand, Looks, Settings!Idle
  <2>3. UNCHANGED <<keeper, override, age, seen, edits>> /\ cache' = Settings!Empty
    BY <1>6 DEF Settings!Invalidate, Settings!Moves
  <2> QED BY <1>0, <2>1, <2>2, <2>3, MovesHold DEF SettingsInv
<1> QED BY <1>3, <1>4, <1>5, <1>6

LEMMA SettingsHold ==
  ASSUME Settings!SettingsAssumption, SettingsInv, [Settings!Next]_(Settings!settingsCacheVars)
  PROVE  SettingsInv'
<1>1. CASE Settings!Tick
  BY <1>1 DEF Settings!Tick, SettingsInv, Settings!SettingsAssumption
<1>2. ASSUME NEW r \in Judges, Settings!Read(r) PROVE SettingsInv'
  <2>1. PICK to : to = [Settings!Idle EXCEPT !.at = "check"] /\ caller' = [caller EXCEPT ![r] = to]
    BY <1>2 DEF Settings!Read, Settings!Moves
  <2>2. to \in Call /\ RowInHand(to)
    BY <2>1, FieldsOfARow DEF Settings!Idle, Settings!Unchanged, Call, RowInHand, Looks
  <2>3. UNCHANGED <<keeper, override, cache, age, seen, edits>>
    BY <1>2 DEF Settings!Read, Settings!Moves
  <2>4. r \in Settings!Callers
    BY DEF Settings!Callers
  <2> QED BY <2>1, <2>2, <2>3, <2>4, MovesHold DEF SettingsInv
<1>3. CASE UNCHANGED Settings!settingsCacheVars
  BY <1>3 DEF Settings!settingsCacheVars, SettingsInv
<1> QED BY <1>1, <1>2, <1>3, LookHolds, ChangeHolds DEF Settings!Next

LEMMA SettingsInvariant ==
  ASSUME Settings!SettingsAssumption PROVE Settings!Init /\ [][Settings!Next]_(Settings!settingsCacheVars) => []SettingsInv
<1>1. Settings!Init => SettingsInv
  BY SettingsInit
<1>2. SettingsInv /\ [Settings!Next]_(Settings!settingsCacheVars) => SettingsInv'
  BY SettingsHold
<1> QED BY <1>1, <1>2, PTL

-----------------------------------------------------------------------------
(***************************************************************************)
(* What each part keeps, and that it does so beside the others.            *)
(***************************************************************************)

\* "This pass [...] any MAC an LLDP-discovered node on that same port already covers"
\* is skipped, and MACs of one address are merged (topology.py:100-107): whatever the
\* devices answer, LLDP and the MAC table together hide no host and show none twice.
THEOREM EachHostIsDrawnOnce == Topo!Spec => []Topo!DrawnOnce
BY DrawnOnceHolds, PTL

\* The crawls, their answers so far, the cache and the bounds keep their types
\* (_refresh_topology_cache, app.py:3052-3083).
THEOREM TopologyTyped == ASSUME Topo!TopologyAssumption PROVE Topo!Spec => []Topo!TypeOK
BY TopologyInvariant, TopologyTypesImplied, PTL DEF Topo!Spec

\* The rules, the copies of them in every hand, the requests and the open events keep
\* their types; what has come due is open (syslog_alerting.py:187).
THEOREM RulesTyped == ASSUME Rules!RuleAssumption PROVE Rules!Spec => []Rules!TypeOK
BY RulesInvariant, RuleTypesImplied, PTL DEF Rules!Spec

\* However looks, changes and invalidations are interleaved, a detector judges by a row,
\* never by a cache emptied meanwhile, and only rows are written (event_catalog.py:151-176).
THEOREM SettingsTyped == ASSUME Settings!SettingsAssumption PROVE Settings!Spec => []Settings!TypeOK
BY SettingsInvariant, SettingsTypesImplied, PTL DEF Settings!Spec

\* A step of the whole is a step of one part and a stutter of every other.
LEMMA PollerRuns == MonitoringSpec => PollerSpec
<1>1. MonitoringInit => PollerInit
  BY DEF MonitoringInit
<1>2. [MonitoringNext]_<<pollerVars, watchVars>> => [PollerNext]_pollerVars
  BY DEF MonitoringNext, PollerStep, TopologyStep, RulesStep, SettingsStep
<1> QED BY <1>1, <1>2, PTL DEF MonitoringSpec, PollerSpec

LEMMA FleetRuns == PollerSpec => Init /\ [][Next]_vars
<1>1. PollerInit => Init
  BY DEF PollerInit
<1>2. [PollerNext]_pollerVars => [Next]_vars
  BY DEF PollerNext, FleetStep, HealthStep, pollerVars
<1> QED BY <1>1, <1>2, PTL DEF PollerSpec

LEMMA TopologyRuns == MonitoringSpec => Topo!Init /\ [][Topo!Next]_(Topo!topoVars)
<1>1. MonitoringInit => Topo!Init
  BY DEF MonitoringInit
<1>2. [MonitoringNext]_<<pollerVars, watchVars>> => [Topo!Next]_(Topo!topoVars)
  BY DEF MonitoringNext, PollerStep, TopologyStep, RulesStep, SettingsStep, watchVars, topoVars, Topo!topoVars
<1> QED BY <1>1, <1>2, PTL DEF MonitoringSpec

LEMMA RulesRun == MonitoringSpec => Rules!Init /\ [][Rules!Next]_(Rules!ruleVars)
<1>1. MonitoringInit => Rules!Init
  BY DEF MonitoringInit
<1>2. [MonitoringNext]_<<pollerVars, watchVars>> => [Rules!Next]_(Rules!ruleVars)
  BY DEF MonitoringNext, PollerStep, TopologyStep, RulesStep, SettingsStep, watchVars, ruleVars, Rules!ruleVars
<1> QED BY <1>1, <1>2, PTL DEF MonitoringSpec

LEMMA SettingsRun == MonitoringSpec => Settings!Init /\ [][Settings!Next]_(Settings!settingsCacheVars)
<1>1. MonitoringInit => Settings!Init
  BY DEF MonitoringInit
<1>2. [MonitoringNext]_<<pollerVars, watchVars>> => [Settings!Next]_(Settings!settingsCacheVars)
  BY DEF MonitoringNext, PollerStep, TopologyStep, RulesStep, SettingsStep, watchVars, settingsVars,
         Settings!settingsCacheVars
<1> QED BY <1>1, <1>2, PTL DEF MonitoringSpec

\* The map is sound, whichever crawls fail and whatever they found.
THEOREM MapStaysSound == MonitoringSpec => []MapIsSound
<1>1. MapIsSound
  BY DrawnOnceHolds, PortsAgree DEF MapIsSound
<1> QED BY <1>1, PTL

\* The types of the parts, while any of them moves.
THEOREM MonitoringTyped == MonitoringSpec => []TypesOK
<1>1. Topo!TopologyAssumption /\ Rules!RuleAssumption /\ Settings!SettingsAssumption /\ Health!HealthAssumption
  BY PartsAssumption, ReadingsAssumption
<1>2. MonitoringSpec => []TypeOK
  BY PollerRuns, FleetRuns, FleetInvariant, TypesImplied, PTL
<1>3. MonitoringSpec => []Health!TypeOK
  <2>1. HealthInv => Health!TypeOK
    BY HealthTypesImplied
  <2> QED BY <1>1, <2>1, PollerRuns, HealthRuns, HealthInvariant, PTL
<1>4. MonitoringSpec => []Topo!TypeOK
  BY <1>1, TopologyRuns, TopologyInvariant, TopologyTypesImplied, PTL
<1>5. MonitoringSpec => []Rules!TypeOK
  BY <1>1, RulesRun, RulesInvariant, RuleTypesImplied, PTL
<1>6. MonitoringSpec => []Settings!TypeOK
  BY <1>1, SettingsRun, SettingsInvariant, SettingsTypesImplied, PTL
<1>7. TypeOK /\ Health!TypeOK /\ Topo!TypeOK /\ Rules!TypeOK /\ Settings!TypeOK => TypesOK
  BY DEF TypesOK
<1> QED BY <1>2, <1>3, <1>4, <1>5, <1>6, <1>7, PTL

===============================================================================
