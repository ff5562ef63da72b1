--------------------------- MODULE LinkHistoryProofs ---------------------------
(***************************************************************************)
(* The types of LinkMonitor and of its history, that unused ports stay     *)
(* quiet, and that old polls change nothing, for any ports, pollers,       *)
(* thresholds and bounds.                                                  *)
(***************************************************************************)
EXTENDS LinkHistory, TLAPS

-----------------------------------------------------------------------------
(* The inductive invariant: whatever remembers a port as up - the device   *)
(* itself, the samples of the polls, the status, the reconciler's snapshot *)
(* and its memory - does so because it was up since the process started.   *)

Remembered(p) ==
  \/ link[p] = "up" \/ status.ports[p] = "up" \/ snap.ports[p] = "up" \/ prev[p] = "up"
  \/ \E t \in Pollers : sample[t][p] = "up"

Known(p) ==
  /\ Remembered(p) => seen[p].up
  /\ pass = "raise" /\ p \in target => seen[p].up \/ p \in Classified

HInv == HTypeOK /\ \A p \in Ports : Known(p)

Readings == [Ports -> LinkStates \cup {"none"}]
Statuses == [ports : Readings, failed : BOOLEAN, polled : {"never", "new", "seen"}, after : [Ports -> Ages]]
Snapshots == [ports : Readings, after : [Ports -> Ages]]

-----------------------------------------------------------------------------
(* Types.                                                                  *)

\* What opening or closing an event does to the stamps leaves the rest as it was.
LEMMA EventTyped ==
  ASSUME TypeOK, NEW p \in Ports, OpenEvent(p) \/ CloseEvent(p)
  PROVE  /\ event' \in [Ports -> {"never", "open", "closed"}]
         /\ status' \in Statuses /\ status'.ports = status.ports
         /\ snap' \in Snapshots /\ snap'.ports = snap.ports
<1>1. status \in Statuses /\ snap \in Snapshots /\ event \in [Ports -> {"never", "open", "closed"}]
  BY DEF TypeOK, Statuses, Snapshots, Readings
<1>a. ASSUME NEW after \in [Ports -> Ages]
      PROVE  /\ [after EXCEPT ![p] = [raise |-> FALSE, resolve |-> FALSE]] \in [Ports -> Ages]
             /\ [after EXCEPT ![p].resolve = FALSE] \in [Ports -> Ages]
  BY DEF Ages
<1>b. status.after \in [Ports -> Ages] /\ snap.after \in [Ports -> Ages]
  BY <1>1 DEF Statuses, Snapshots
<1>2. CASE event[p] # "open" /\ OpenEvent(p)
  <2>1. /\ status' = [status EXCEPT !.after = [@ EXCEPT ![p] = [raise |-> FALSE, resolve |-> FALSE]]]
        /\ snap' = [snap EXCEPT !.after = [@ EXCEPT ![p] = [raise |-> FALSE, resolve |-> FALSE]]]
        /\ event' = [event EXCEPT ![p] = "open"]
    BY <1>2 DEF OpenEvent
  <2>. QED BY <1>1, <1>a, <1>b, <2>1 DEF Statuses, Snapshots
<1>3. CASE event[p] = "open" /\ CloseEvent(p)
  <2>1. /\ status' = [status EXCEPT !.after = [@ EXCEPT ![p].resolve = FALSE]]
        /\ snap' = [snap EXCEPT !.after = [@ EXCEPT ![p].resolve = FALSE]]
        /\ event' = [event EXCEPT ![p] = "closed"]
    BY <1>3 DEF CloseEvent
  <2>. QED BY <1>1, <1>a, <1>b, <2>1 DEF Statuses, Snapshots
<1>4. CASE UNCHANGED <<event, status, snap>>
  BY <1>1, <1>4
<1>. QED BY <1>2, <1>3, <1>4 DEF OpenEvent, CloseEvent

\* The status and the snapshot of a process that has just started.
LEMMA NewTyped == Unknown \in Readings /\ NewStatus \in Statuses /\ NoSnapshot \in Snapshots
BY DEF Unknown, Fresh, NewStatus, NoSnapshot, Readings, Statuses, Snapshots, Ages

\* Every step of the polls and of the reconciler's counts keeps the types.
LEMMA PollTyped ==
  ASSUME TypeOK, NEW t \in Pollers, Poll(t)
  PROVE  TypeOK'
<1>. USE DEF TypeOK, device, reconciler
<1>1. CASE PollSample(t)
  BY <1>1 DEF PollSample
<1>2. CASE PollStore(t)
  <2>1. status' \in Statuses
    BY <1>2 DEF PollStore, Statuses, Readings
  <2>. QED BY <1>2, <2>1, NewTyped DEF PollStore, Statuses, Readings
<1>3. CASE PollFail(t)
  <2>1. status' \in Statuses
    BY <1>3 DEF PollFail, Statuses, Readings
  <2>. QED BY <1>3, <2>1, NewTyped DEF PollFail, Statuses, Readings
<1>4. CASE PollStamp(t)
  <2>0. [p \in Ports |-> [raise |-> TRUE, resolve |-> TRUE]] \in [Ports -> Ages]
    BY DEF Ages
  <2>1. status' = [ports |-> status.ports, failed |-> status.failed, polled |-> "new",
                   after |-> [p \in Ports |-> [raise |-> TRUE, resolve |-> TRUE]]]
    BY <1>4 DEF PollStamp
  <2>2. status' \in Statuses
    <3>1. status.ports \in Readings /\ status.failed \in BOOLEAN
      BY DEF Readings
    <3> QED BY <2>0, <2>1, <3>1 DEF Statuses
  <2>3. poll' \in [Pollers -> {"wait", "sampled", "stamp"}]
    BY <1>4 DEF PollStamp
  <2>. QED BY <1>4, <2>2, <2>3 DEF PollStamp, Statuses, Readings
<1>. QED BY <1>1, <1>2, <1>3, <1>4 DEF Poll

LEMMA ReconcilerTyped ==
  ASSUME TypeOK, Reconciler
  PROVE  TypeOK'
<1>. USE MonitorAssumption DEF TypeOK, device, poller
<1>1. CASE BeginPass
  <2>0. status \in Statuses /\ snap \in Snapshots
    BY DEF Statuses, Snapshots, Readings
  <2>1. status' \in Statuses /\ snap' \in Snapshots /\ pass' \in {"idle", "copy"}
    <3>1. CASE status.polled = "new"
      <4>1. /\ status' = [ports |-> status.ports, failed |-> status.failed, polled |-> "seen", after |-> status.after]
            /\ snap' = [ports |-> snap.ports, after |-> status.after]
            /\ pass' = "copy"
        BY <1>1, <2>0, <3>1 DEF BeginPass, Statuses, Snapshots
      <4>. QED BY <2>0, <4>1 DEF Statuses, Snapshots
    <3>. QED BY <1>1, <2>0, <3>1 DEF BeginPass
  <2>2. passes' \in 0..Threshold /\ unreachable' \in BOOLEAN
    BY <1>1 DEF BeginPass, Reachability
  <2>. QED BY <1>1, <2>1, <2>2 DEF BeginPass, Statuses, Snapshots, Readings
<1>2. CASE CopyPorts
  <2>1. snap' \in Snapshots
    BY <1>2 DEF CopyPorts, Snapshots, Readings
  <2>. QED BY <1>2, <2>1 DEF CopyPorts, Snapshots, Readings
<1>3. CASE EndPass
  BY <1>3, NewTyped DEF EndPass, Snapshots, Readings
<1>4. ASSUME NEW p \in Ports, CheckPort(p) PROVE TypeOK'
  <2>1. prev' \in Readings
    BY <1>4 DEF CheckPort, Readings
  <2>. QED BY <1>4, <2>1 DEF CheckPort, Readings
<1>5. ASSUME NEW p \in Ports, SshRaises(p) \/ SshResolves(p) PROVE TypeOK'
  BY <1>5, EventTyped DEF SshRaises, SshResolves, Statuses, Snapshots, Readings
<1>. QED BY <1>1, <1>2, <1>3, <1>4, <1>5 DEF Reconciler

\* Every step keeps the types.
LEMMA TypeStep ==
  ASSUME TypeOK, [Next]_vars
  PROVE  TypeOK'
<1>. USE MonitorAssumption
<1>1. ASSUME NEW p \in Ports, NEW new \in LinkStates, NEW logged \in BOOLEAN, LinkChanges(p, new, logged)
      PROVE TypeOK'
  <2>1. <<p, IF new = "up" THEN "up" ELSE "down">> \in Ports \X LineStates
    BY DEF LineStates
  <2>2. wire' \in Seq(Ports \X LineStates) /\ Len(wire') <= MaxLines
    <3>1. CASE wire' = wire
      BY <3>1 DEF TypeOK
    <3>2. CASE Len(wire) < MaxLines /\ wire' = Append(wire, <<p, IF new = "up" THEN "up" ELSE "down">>)
      <4>. DEFINE l == <<p, IF new = "up" THEN "up" ELSE "down">>
      <4>1. wire' = Append(wire, l) /\ l \in Ports \X LineStates
        BY <2>1, <3>2
      <4>. HIDE DEF l
      <4>. QED BY <3>2, <4>1 DEF TypeOK
    <3>. QED BY <1>1, <3>1, <3>2 DEF LinkChanges
  <2>. QED BY <1>1, <2>2 DEF LinkChanges, TypeOK, poller, reconciler
<1>2. CASE Detect
  <2>1. wire' \in Seq(Ports \X LineStates) /\ Len(wire') <= MaxLines /\ Head(wire)[1] \in Ports
    BY <1>2 DEF Detect, TypeOK
  <2>2. OpenEvent(Head(wire)[1]) \/ CloseEvent(Head(wire)[1])
    BY <1>2 DEF Detect
  <2>. QED BY <1>2, <2>1, <2>2, EventTyped DEF Detect, TypeOK, poller, Statuses, Snapshots, Readings
<1>3. ASSUME NEW p \in Ports, ResolveByHand(p) PROVE TypeOK'
  BY <1>3, EventTyped DEF ResolveByHand, TypeOK, device, poller, Statuses, Snapshots, Readings
<1>4. CASE Restart
  BY <1>4, NewTyped DEF Restart, TypeOK, device, Statuses, Snapshots, Readings
<1>5. CASE UNCHANGED vars
  BY <1>5 DEF vars, TypeOK
<1>. QED BY <1>1, <1>2, <1>3, <1>4, <1>5, PollTyped, ReconcilerTyped DEF Next

\* LinkMonitor starts with its types.
LEMMA TypeInit ==
  ASSUME Init
  PROVE  TypeOK
<1>1. wire \in Seq(Ports \X LineStates) /\ Len(wire) <= MaxLines
  BY MonitorAssumption DEF Init
<1>2. 0 \in 0..Threshold /\ 0 \in 0..MaxRestarts
  BY MonitorAssumption
<1>. QED BY <1>1, <1>2, NewTyped DEF Init, TypeOK, Statuses, Snapshots, Readings

\* The link, the lines, the polls, the status and the reconciler keep their
\* types, whatever fails, is late or restarts (LinkMonitor).
THEOREM MonitorTypes == Spec => []TypeOK
BY TypeInit, TypeStep, PTL DEF Spec

\* The link, the lines, the polls, the status, the reconciler and the history of
\* the ports have the values their modules say (HTypeOK).
LEMMA HistoryTypeStep ==
  ASSUME HTypeOK, [HNext]_hvars
  PROVE  HTypeOK'
<1>1. TypeOK'
  BY TypeStep DEF HTypeOK, HNext, hvars
<1>2. CASE HNext
  <2>1. link' \in [Ports -> LinkStates] /\ status'.failed \in BOOLEAN
    BY <1>1 DEF TypeOK
  <2>2. ASSUME NEW p \in Ports
        PROVE  Record(p) \in [up : BOOLEAN, since : SUBSET {"up", "down"}, muddled : BOOLEAN]
    <3>1. (link'[p] = "up" \/ (seen[p].up /\ restarts' = restarts)) \in BOOLEAN
      BY DEF HTypeOK
    <3>2. {link'[p]} \ {"admin_down"} \subseteq {"up", "down"} /\ seen[p].since \subseteq {"up", "down"}
      BY <2>1 DEF HTypeOK, LinkStates
    <3>3. (IF event'[p] = event[p] THEN seen[p].muddled \/ PollFails ELSE Busy(p)) \in BOOLEAN
      BY DEF HTypeOK, PollFails, Busy
    <3>. QED BY <3>1, <3>2, <3>3 DEF Record
  <2>. QED BY <1>1, <1>2, <2>2 DEF HNext, HTypeOK
<1>3. CASE UNCHANGED hvars
  BY <1>1, <1>3 DEF hvars, HTypeOK
<1>. QED BY <1>2, <1>3

LEMMA HistoryTypeInit ==
  ASSUME HInit
  PROVE  HTypeOK
<1>1. TypeOK
  BY TypeInit DEF HInit
<1>2. ASSUME NEW p \in Ports
      PROVE  [up |-> link[p] = "up", since |-> {link[p]} \ {"admin_down"}, muddled |-> FALSE]
               \in [up : BOOLEAN, since : SUBSET {"up", "down"}, muddled : BOOLEAN]
  BY <1>1 DEF TypeOK, LinkStates
<1>. QED BY <1>1, <1>2 DEF HInit, HTypeOK

-----------------------------------------------------------------------------
(* The memory of ports that were up.                                       *)

\* Until a restart, nothing that remembers a port as up makes it up itself: it
\* copies what something else remembers, or what the device says now.
LEMMA OnlyCopies ==
  ASSUME TypeOK, TypeOK', Next, restarts' = restarts, NEW p \in Ports, Remembered(p)'
  PROVE  Remembered(p) \/ link'[p] = "up"
<1>. USE DEF Remembered, TypeOK
<1>1. ASSUME NEW q \in Ports, NEW new \in LinkStates, NEW logged \in BOOLEAN, LinkChanges(q, new, logged)
      PROVE Remembered(p) \/ link'[p] = "up"
  BY <1>1 DEF LinkChanges, poller, reconciler
<1>2. CASE Detect
  <2>1. Head(wire)[1] \in Ports
    BY <1>2 DEF Detect
  <2>2. OpenEvent(Head(wire)[1]) \/ CloseEvent(Head(wire)[1])
    BY <1>2 DEF Detect
  <2>. QED BY <1>2, <2>1, <2>2, EventTyped DEF Detect, poller
<1>3. ASSUME NEW q \in Ports, ResolveByHand(q) PROVE Remembered(p) \/ link'[p] = "up"
  BY <1>3, EventTyped DEF ResolveByHand, device, poller
<1>4. ASSUME NEW t \in Pollers, PollSample(t) PROVE Remembered(p) \/ link'[p] = "up"
  BY <1>4 DEF PollSample, device, reconciler
<1>5. ASSUME NEW t \in Pollers, PollStore(t) PROVE Remembered(p) \/ link'[p] = "up"
  <2>1. /\ status'.ports = sample[t] /\ sample' = [sample EXCEPT ![t] = Unknown]
        /\ UNCHANGED <<link, snap, prev>>
    BY <1>5 DEF PollStore, device, reconciler
  <2>. QED BY <2>1 DEF Unknown
<1>6. ASSUME NEW t \in Pollers, PollFail(t) PROVE Remembered(p) \/ link'[p] = "up"
  <2>1. /\ status'.ports = status.ports /\ sample' = [sample EXCEPT ![t] = Unknown]
        /\ UNCHANGED <<link, snap, prev>>
    BY <1>6 DEF PollFail, device, reconciler
  <2>. QED BY <2>1 DEF Unknown
<1>7. ASSUME NEW t \in Pollers, PollStamp(t) PROVE Remembered(p) \/ link'[p] = "up"
  <2>1. status'.ports = status.ports /\ UNCHANGED <<link, sample, snap, prev>>
    BY <1>7 DEF PollStamp, device, reconciler
  <2>. QED BY <2>1
<1>8. CASE BeginPass
  <2>1. status'.ports = status.ports /\ snap'.ports = snap.ports /\ UNCHANGED <<link, sample, prev>>
    BY <1>8 DEF BeginPass, device, poller
  <2>. QED BY <2>1
<1>9. CASE CopyPorts
  BY <1>9 DEF CopyPorts, device, poller
<1>10. CASE EndPass
  BY <1>10 DEF EndPass, device, poller, NoSnapshot, Unknown
<1>11. ASSUME NEW q \in Ports, CheckPort(q) PROVE Remembered(p) \/ link'[p] = "up"
  BY <1>11 DEF CheckPort, device, poller
<1>12. ASSUME NEW q \in Ports, SshRaises(q) \/ SshResolves(q) PROVE Remembered(p) \/ link'[p] = "up"
  BY <1>12, EventTyped DEF SshRaises, SshResolves, device, poller
<1>13. CASE Restart
  BY <1>13 DEF Restart
<1>. QED BY <1>1, <1>2, <1>3, <1>4, <1>5, <1>6, <1>7, <1>8, <1>9, <1>10, <1>11, <1>12, <1>13
       DEF Next, Poll, Reconciler

\* The reconciler decides to raise a port that it remembers as up, or that
\* somebody classified.
LEMMA RaisesOnTransition ==
  ASSUME TypeOK, Next, NEW p \in Ports, pass' = "raise", p \in target'
  PROVE  \/ pass = "raise" /\ p \in target /\ restarts' = restarts
         \/ prev[p] = "up" /\ restarts' = restarts
         \/ p \in Classified
<1>. DEFINE Goal == \/ pass = "raise" /\ p \in target /\ restarts' = restarts
                    \/ prev[p] = "up" /\ restarts' = restarts
                    \/ p \in Classified
<1>1. ASSUME UNCHANGED <<pass, target, restarts>> PROVE Goal
  BY <1>1
<1>2. ASSUME NEW q \in Ports, NEW new \in LinkStates, NEW logged \in BOOLEAN, LinkChanges(q, new, logged)
      PROVE Goal
  BY <1>2 DEF LinkChanges, reconciler
<1>3. ASSUME NEW q \in Ports, ResolveByHand(q) PROVE Goal
  BY <1>3 DEF ResolveByHand
<1>4. CASE Detect
  BY <1>4 DEF Detect
<1>5. ASSUME NEW t \in Pollers, Poll(t) PROVE Goal
  BY <1>5 DEF Poll, PollSample, PollStore, PollFail, PollStamp, reconciler
<1>6. CASE BeginPass \/ CopyPorts \/ EndPass
  BY <1>6 DEF BeginPass, CopyPorts, EndPass
<1>7. ASSUME NEW q \in Ports, CheckPort(q) PROVE Goal
  <2>1. restarts' = restarts
    BY <1>7 DEF CheckPort
  <2>2. CASE pass' = "raise" /\ target' = {q} /\ NewlyDown(q)
    BY <2>1, <2>2 DEF NewlyDown
  <2>. QED BY <1>1, <1>7, <2>1, <2>2 DEF CheckPort
<1>8. ASSUME NEW q \in Ports, SshRaises(q) \/ SshResolves(q) PROVE Goal
  BY <1>8 DEF SshRaises, SshResolves
<1>9. CASE Restart
  BY <1>9 DEF Restart
<1>. QED BY <1>2, <1>3, <1>4, <1>5, <1>6, <1>7, <1>8, <1>9 DEF Next, Reconciler

\* A restart leaves nothing that remembers, but the device itself.
LEMMA ForgottenByRestart ==
  ASSUME Restart, NEW p \in Ports, Remembered(p)'
  PROVE  link'[p] = "up"
BY DEF Restart, Remembered, device, NewStatus, NoSnapshot, Unknown

LEMMA InvStep ==
  ASSUME HInv, [HNext]_hvars
  PROVE  HInv'
<1>1. HTypeOK'
  BY HistoryTypeStep DEF HInv
<1>2. ASSUME NEW p \in Ports PROVE Known(p)'
  <2>1. CASE HNext
    <3>1. seen'[p].up = (link'[p] = "up" \/ (seen[p].up /\ restarts' = restarts))
      BY <2>1 DEF HNext, Record
    <3>2. Known(p) /\ seen[p].up \in BOOLEAN /\ seen'[p].up \in BOOLEAN
      BY <1>1 DEF HInv, HTypeOK
    <3>3. Remembered(p)' => seen'[p].up
      <4>1. CASE restarts' = restarts
        BY <1>1, <2>1, <3>1, <3>2, <4>1, OnlyCopies DEF HInv, HTypeOK, HNext, Known
      <4>2. CASE Restart
        BY <3>1, <4>2, ForgottenByRestart
      <4>3. Restart \/ restarts' = restarts
        BY <2>1 DEF HNext, Next, Poll, Reconciler, LinkChanges, ResolveByHand, Detect, PollSample, PollStore,
             PollFail, PollStamp, BeginPass, CopyPorts, EndPass, CheckPort, SshRaises, SshResolves
      <4>. QED BY <4>1, <4>2, <4>3
    <3>4. pass' = "raise" /\ p \in target' => seen'[p].up \/ p \in Classified
      BY <2>1, <3>1, <3>2, RaisesOnTransition DEF HInv, HTypeOK, HNext, Known, Remembered
    <3>. QED BY <3>3, <3>4 DEF Known
  <2>2. CASE UNCHANGED hvars
    BY <2>2 DEF HInv, Known, Remembered, hvars, vars
  <2>. QED BY <2>1, <2>2
<1>. QED BY <1>1, <1>2 DEF HInv

LEMMA InvInit ==
  ASSUME HInit
  PROVE  HInv
<1>1. HTypeOK
  BY HistoryTypeInit
<1>2. ASSUME NEW p \in Ports PROVE Known(p)
  BY DEF HInit, Init, Known, Remembered, Unknown, NewStatus, NoSnapshot
<1>. QED BY <1>1, <1>2 DEF HInv

\* The history of the ports has the values LinkHistory says.
THEOREM HistoryTypes == HSpec => []HTypeOK
<1>1. HInit => HInv
  BY InvInit
<1>2. HInv /\ [HNext]_hvars => HInv'
  BY InvStep
<1>3. HInv => HTypeOK
  BY DEF HInv
<1>. QED BY <1>1, <1>2, <1>3, PTL DEF HSpec

\* The poll raises no port that was down ever since the process started, unless
\* somebody classified it: UnusedPortsStayQuiet, for any ports and pollers.
THEOREM UnusedStayQuiet == HSpec => UnusedPortsStayQuiet
<1>1. HInit => HInv
  BY InvInit
<1>2. HInv /\ [HNext]_hvars => HInv'
  BY InvStep
<1>3. HInv /\ [HNext]_hvars =>
        [\A p \in Ports :
           SshRaises(p) /\ event[p] # "open" => seen[p].up \/ p \in Classified]_hvars
  BY DEF HInv, Known, SshRaises
<1>. QED BY <1>1, <1>2, <1>3, PTL DEF HSpec, UnusedPortsStayQuiet

-----------------------------------------------------------------------------
(* Old polls change nothing.  As long as the event of a port is not muddled, *)
(* what a poll has sampled, the status once it is newer than the event, the  *)
(* reconciler's copy if it is, and what it has decided to do about the port  *)
(* all come from a time after the event opened or closed.                    *)

\* The port was seen in this state since its event opened or closed.
Fair(p, v) == v \in {"up", "down"} => v \in seen[p].since

\* The stamps of x are after the event opened, or after it closed.
Newer(x, p) ==
  \/ event[p] = "open" /\ x.after[p].raise
  \/ event[p] = "closed" /\ x.after[p].resolve

\* What is the reconciler's copy of the ports, or will be.
Copy == IF pass \in {"idle", "copy"} THEN status.ports ELSE snap.ports

SamplesAreNew(p) == Fair(p, link[p]) /\ \A t \in Pollers : poll[t] = "sampled" => Fair(p, sample[t][p])
StatusIsNew(p) == (\E t \in Pollers : poll[t] = "stamp") \/ Newer(status, p) => Fair(p, status.ports[p])
CopyIsNew(p) == Newer(snap, p) => Fair(p, Copy[p])
DecisionIsNew(p) ==
  /\ pass = "resolve" /\ p \in target /\ event[p] = "open" => "up" \in seen[p].since
  /\ pass = "raise" /\ p \in target /\ event[p] = "closed" => "down" \in seen[p].since

Undisturbed(p) == SamplesAreNew(p) /\ StatusIsNew(p) /\ CopyIsNew(p) /\ DecisionIsNew(p)

OldInv == HTypeOK /\ \A p \in Ports : seen[p].muddled \/ Undisturbed(p)

\* An event that opens or closes has no stamp after it; the stamps of another stay.
LEMMA StampsOfEvent ==
  ASSUME TypeOK, NEW q \in Ports, OpenEvent(q) \/ CloseEvent(q), NEW p \in Ports
  PROVE  /\ event'[p] # event[p] => p = q /\ ~ Newer(status, p)' /\ ~ Newer(snap, p)'
         /\ event'[p] = event[p] => status'.after[p] = status.after[p] /\ snap'.after[p] = snap.after[p]
<1>1. /\ event \in [Ports -> {"never", "open", "closed"}]
      /\ status \in Statuses /\ snap \in Snapshots
      /\ status.after \in [Ports -> Ages] /\ snap.after \in [Ports -> Ages]
  BY DEF TypeOK, Statuses, Snapshots, Readings
<1>2. CASE event[q] # "open" /\ OpenEvent(q)
  <2>1. /\ status' = [status EXCEPT !.after = [status.after EXCEPT ![q] = [raise |-> FALSE, resolve |-> FALSE]]]
        /\ snap' = [snap EXCEPT !.after = [snap.after EXCEPT ![q] = [raise |-> FALSE, resolve |-> FALSE]]]
        /\ event' = [event EXCEPT ![q] = "open"]
    BY <1>2 DEF OpenEvent
  <2>2. /\ status'.after = [status.after EXCEPT ![q] = [raise |-> FALSE, resolve |-> FALSE]]
        /\ snap'.after = [snap.after EXCEPT ![q] = [raise |-> FALSE, resolve |-> FALSE]]
    BY <1>1, <2>1 DEF Statuses, Snapshots
  <2>. QED BY <1>1, <1>2, <2>1, <2>2 DEF Newer
<1>3. CASE event[q] = "open" /\ CloseEvent(q)
  <2>1. /\ status' = [status EXCEPT !.after = [status.after EXCEPT ![q] = [status.after[q] EXCEPT !.resolve = FALSE]]]
        /\ snap' = [snap EXCEPT !.after = [snap.after EXCEPT ![q] = [snap.after[q] EXCEPT !.resolve = FALSE]]]
        /\ event' = [event EXCEPT ![q] = "closed"]
    BY <1>3 DEF CloseEvent
  <2>2. /\ status'.after = [status.after EXCEPT ![q] = [status.after[q] EXCEPT !.resolve = FALSE]]
        /\ snap'.after = [snap.after EXCEPT ![q] = [snap.after[q] EXCEPT !.resolve = FALSE]]
    BY <1>1, <2>1 DEF Statuses, Snapshots
  <2>3. status'.after[q].resolve = FALSE /\ snap'.after[q].resolve = FALSE
    BY <1>1, <2>2 DEF Ages
  <2>. QED BY <1>1, <1>3, <2>1, <2>2, <2>3 DEF Newer
<1>4. CASE UNCHANGED <<event, status, snap>>
  BY <1>4
<1>. QED BY <1>2, <1>3, <1>4 DEF OpenEvent, CloseEvent

\* What becomes of a port whose event opens or closes while nothing is under way.
LEMMA ChangedAlone ==
  ASSUME HTypeOK, HNext, NEW p \in Ports, event'[p] # event[p], ~ Busy(p)
  PROVE  Undisturbed(p)'
<1>0. TypeOK /\ HTypeOK'
  BY HistoryTypeStep DEF HTypeOK
<1>1. ~ Newer(status, p)' /\ ~ Newer(snap, p)' /\ UNCHANGED <<link, poll, pass, target>>
  <2>. DEFINE Goal == ~ Newer(status, p)' /\ ~ Newer(snap, p)' /\ UNCHANGED <<link, poll, pass, target>>
  <2>1. ASSUME event' = event PROVE FALSE
    BY <2>1
  <2>2. CASE Detect
    <3>1. Head(wire)[1] \in Ports /\ (OpenEvent(Head(wire)[1]) \/ CloseEvent(Head(wire)[1]))
      BY <1>0, <2>2 DEF Detect, TypeOK
    <3>2. UNCHANGED <<link, poll, pass, target>>
      BY <2>2 DEF Detect, poller
    <3>. QED BY <1>0, <3>1, <3>2, StampsOfEvent
  <2>3. ASSUME NEW q \in Ports, ResolveByHand(q) PROVE Goal
    BY <1>0, <2>3, StampsOfEvent DEF ResolveByHand, device, poller
  <2>4. ASSUME NEW q \in Ports, SshRaises(q) \/ SshResolves(q) PROVE FALSE
    <3>1. p = q /\ p \in target
      BY <1>0, <2>4, StampsOfEvent DEF SshRaises, SshResolves
    <3>. QED BY <3>1 DEF Busy
  <2>5. ASSUME NEW q \in Ports, NEW new \in LinkStates, NEW logged \in BOOLEAN, LinkChanges(q, new, logged)
        PROVE event' = event
    BY <2>5 DEF LinkChanges
  <2>6. ASSUME NEW t \in Pollers, Poll(t) PROVE event' = event
    BY <2>6 DEF Poll, PollSample, PollStore, PollFail, PollStamp
  <2>7. CASE BeginPass \/ CopyPorts \/ EndPass \/ Restart \/ (\E q \in Ports : CheckPort(q))
    <3>1. event' = event
      BY <2>7 DEF BeginPass, CopyPorts, EndPass, Restart, CheckPort
    <3>. QED BY <3>1, <2>1
  <2>. QED BY <2>1, <2>2, <2>3, <2>4, <2>5, <2>6, <2>7 DEF HNext, Next, Reconciler
<1>2. (\A t \in Pollers : poll[t] = "wait") /\ p \notin target
  BY DEF Busy
<1>3. \A t \in Pollers : poll'[t] = "wait"
  BY <1>1, <1>2
<1>4. Fair(p, link[p])'
  BY <1>0 DEF HNext, Record, Fair, HTypeOK
<1>5. SamplesAreNew(p)'
  BY <1>3, <1>4 DEF SamplesAreNew
<1>6. StatusIsNew(p)' /\ CopyIsNew(p)'
  BY <1>1, <1>3 DEF StatusIsNew, CopyIsNew
<1>7. DecisionIsNew(p)'
  BY <1>1, <1>2 DEF DecisionIsNew
<1>. QED BY <1>5, <1>6, <1>7 DEF Undisturbed

\* While the event stays as it is, what was seen of the port stays seen.
LEMMA SinceGrows ==
  ASSUME HTypeOK, HNext, NEW p \in Ports, event'[p] = event[p]
  PROVE  /\ \A v : Fair(p, v) => (v \in {"up", "down"} => v \in seen'[p].since)
         /\ link'[p] \in {"up", "down"} => link'[p] \in seen'[p].since
         /\ ~ seen'[p].muddled => ~ seen[p].muddled /\ ~ PollFails
         /\ seen[p].since \subseteq seen'[p].since
<1>1. seen'[p] = Record(p)
  BY DEF HNext
<1>2. seen'[p].since = ({link'[p]} \ {"admin_down"}) \cup seen[p].since
  BY <1>1 DEF Record
<1>3. seen'[p].muddled = (seen[p].muddled \/ PollFails)
  BY <1>1 DEF Record
<1>. QED BY <1>2, <1>3 DEF Fair

\* A step of a poll that does not fail.
LEMMA PollUndisturbed ==
  ASSUME HTypeOK, HTypeOK', HNext, NEW p \in Ports, event'[p] = event[p], Undisturbed(p), ~ PollFails,
         NEW t \in Pollers, Poll(t)
  PROVE  Undisturbed(p)'
<1>0. TypeOK /\ \A v : Fair(p, v) => (v \in {"up", "down"} => v \in seen'[p].since)
  BY SinceGrows DEF HTypeOK
<1>a. /\ poll \in [Pollers -> {"wait", "sampled", "stamp"}]
      /\ sample \in [Pollers -> [Ports -> LinkStates \cup {"none"}]]
      /\ status \in Statuses
  BY <1>0 DEF TypeOK, Statuses, Readings
<1>b. Fair(p, link[p])'
  BY SinceGrows DEF Fair
<1>1. CASE PollSample(t)
  <2>1. poll' = [poll EXCEPT ![t] = "sampled"] /\ sample' = [sample EXCEPT ![t] = link]
        /\ UNCHANGED <<link, event, status, pass, snap, target>>
    BY <1>1 DEF PollSample, device, reconciler
  <2>2. ASSUME NEW u \in Pollers, poll'[u] = "sampled" PROVE Fair(p, sample[u][p])'
    <3>1. CASE u = t
      BY <1>a, <1>b, <2>1, <3>1 DEF Fair
    <3>2. CASE u # t
      BY <1>0, <1>a, <2>1, <2>2, <3>2 DEF Undisturbed, SamplesAreNew, Fair
    <3>. QED BY <3>1, <3>2
  <2>3. StatusIsNew(p)'
    BY <1>0, <1>a, <2>1 DEF Undisturbed, StatusIsNew, Fair, Newer
  <2>4. CopyIsNew(p)' /\ DecisionIsNew(p)'
    BY <1>0, <2>1, SinceGrows DEF Undisturbed, CopyIsNew, Copy, DecisionIsNew, Fair, Newer
  <2>. QED BY <1>b, <2>2, <2>3, <2>4 DEF Undisturbed, SamplesAreNew
<1>2. CASE PollStore(t)
  <2>1. /\ poll[t] = "sampled" /\ poll' = [poll EXCEPT ![t] = "stamp"]
        /\ status' = [status EXCEPT !.ports = sample[t], !.failed = FALSE]
        /\ sample' = [sample EXCEPT ![t] = Unknown]
        /\ UNCHANGED <<link, event, pass, snap, target>>
    BY <1>2 DEF PollStore, device, reconciler
  <2>2. status'.ports = sample[t] /\ status'.after = status.after
    BY <1>a, <2>1 DEF Statuses
  <2>3. Fair(p, status.ports[p])'
    BY <1>0, <2>1, <2>2 DEF Undisturbed, SamplesAreNew, Fair
  <2>4. ASSUME NEW u \in Pollers, poll'[u] = "sampled" PROVE Fair(p, sample[u][p])'
    BY <1>0, <1>a, <2>1, <2>4 DEF Undisturbed, SamplesAreNew, Fair
  <2>5. CopyIsNew(p)'
    BY <1>0, <2>1, <2>3 DEF Undisturbed, CopyIsNew, Copy, Fair, Newer
  <2>6. DecisionIsNew(p)'
    BY <2>1, SinceGrows DEF Undisturbed, DecisionIsNew
  <2>. QED BY <1>b, <2>3, <2>4, <2>5, <2>6 DEF Undisturbed, SamplesAreNew, StatusIsNew
<1>3. CASE PollFail(t)
  <2>1. status'.failed /\ poll[t] # "stamp" /\ poll'[t] = "stamp"
    BY <1>a, <1>3 DEF PollFail, Statuses
  <2>. QED BY <2>1 DEF PollFails
<1>4. CASE PollStamp(t)
  <2>1. /\ poll[t] = "stamp" /\ poll' = [poll EXCEPT ![t] = "wait"] /\ status'.ports = status.ports
        /\ UNCHANGED <<link, event, sample, pass, snap, target>>
    BY <1>4, <1>a DEF PollStamp, device, reconciler, Statuses
  <2>2. Fair(p, status.ports[p])
    BY <2>1 DEF Undisturbed, StatusIsNew
  <2>3. ASSUME NEW u \in Pollers, poll'[u] = "sampled" PROVE Fair(p, sample[u][p])'
    BY <1>0, <1>a, <2>1, <2>3 DEF Undisturbed, SamplesAreNew, Fair
  <2>4. CopyIsNew(p)' /\ DecisionIsNew(p)'
    BY <1>0, <2>1, SinceGrows DEF Undisturbed, CopyIsNew, Copy, DecisionIsNew, Fair, Newer
  <2>5. StatusIsNew(p)'
    BY <1>0, <2>1, <2>2 DEF StatusIsNew, Fair
  <2>. QED BY <1>b, <2>3, <2>4, <2>5 DEF Undisturbed, SamplesAreNew
<1>. QED BY <1>1, <1>2, <1>3, <1>4 DEF Poll

\* A step of the reconciler.
LEMMA ReconcilerUndisturbed ==
  ASSUME HTypeOK, HTypeOK', HNext, NEW p \in Ports, event'[p] = event[p], Undisturbed(p), Reconciler
  PROVE  Undisturbed(p)'
<1>0. TypeOK /\ \A v : Fair(p, v) => (v \in {"up", "down"} => v \in seen'[p].since)
  BY SinceGrows DEF HTypeOK
<1>a. status \in Statuses /\ snap \in Snapshots
  BY <1>0 DEF TypeOK, Statuses, Snapshots, Readings
<1>b. Fair(p, link[p])'
  BY SinceGrows DEF Fair
<1>c. ASSUME UNCHANGED <<poll, sample>> PROVE SamplesAreNew(p)'
  BY <1>0, <1>b, <1>c DEF Undisturbed, SamplesAreNew, Fair
<1>d. ASSUME poll' = poll, status'.ports = status.ports, status'.after[p] = status.after[p] PROVE StatusIsNew(p)'
  BY <1>0, <1>d DEF Undisturbed, StatusIsNew, Fair, Newer
<1>1. CASE BeginPass
  <2>1. /\ pass = "idle" /\ pass' \in {"idle", "copy"} /\ status'.ports = status.ports /\ status'.after = status.after
        /\ snap'.after = status.after \/ (snap' = snap)
        /\ UNCHANGED <<poll, sample, target>>
    BY <1>1, <1>a DEF BeginPass, poller, Statuses, Snapshots
  <2>2. CopyIsNew(p)'
    BY <1>0, <2>1 DEF Undisturbed, StatusIsNew, CopyIsNew, Copy, Fair, Newer
  <2>3. DecisionIsNew(p)'
    BY <2>1 DEF DecisionIsNew
  <2>. QED BY <1>c, <1>d, <2>1, <2>2, <2>3 DEF Undisturbed
<1>2. CASE CopyPorts
  <2>1. /\ pass = "copy" /\ pass' = "ports" /\ snap'.ports = status.ports /\ snap'.after = snap.after
        /\ UNCHANGED <<poll, sample, status>>
    BY <1>2, <1>a DEF CopyPorts, poller, Snapshots
  <2>2. CopyIsNew(p)'
    BY <1>0, <2>1 DEF Undisturbed, CopyIsNew, Copy, Fair, Newer
  <2>3. DecisionIsNew(p)'
    BY <2>1 DEF DecisionIsNew
  <2>. QED BY <1>c, <1>d, <2>1, <2>2, <2>3 DEF Undisturbed
<1>3. CASE EndPass
  <2>1. pass' = "idle" /\ snap' = NoSnapshot /\ UNCHANGED <<poll, sample, status>>
    BY <1>3 DEF EndPass, poller
  <2>2. ~ Newer(snap, p)'
    BY <2>1 DEF Newer, NoSnapshot, Fresh
  <2>3. CopyIsNew(p)' /\ DecisionIsNew(p)'
    BY <2>1, <2>2 DEF CopyIsNew, DecisionIsNew
  <2>. QED BY <1>c, <1>d, <2>1, <2>3 DEF Undisturbed
<1>4. ASSUME NEW q \in Ports, CheckPort(q) PROVE Undisturbed(p)'
  <2>1. /\ pass = "ports" /\ pass' \in {"ports", "raise", "resolve"}
        /\ UNCHANGED <<event, poll, sample, status, snap>>
    BY <1>4 DEF CheckPort, poller
  <2>2. CopyIsNew(p)'
    BY <1>0, <2>1 DEF Undisturbed, CopyIsNew, Copy, Fair, Newer
  <2>3. DecisionIsNew(p)'
    <3>1. Newer(snap, p) => Fair(p, snap.ports[p])
      BY <2>1 DEF Undisturbed, CopyIsNew, Copy
    <3>2. ASSUME pass' = "resolve", p \in target', event[p] = "open" PROVE "up" \in seen'[p].since
      <4>1. snap.ports[p] = "up" /\ StaleSafe(p)
        BY <1>4, <2>1, <3>2 DEF CheckPort
      <4>2. Newer(snap, p)
        BY <4>1 DEF StaleSafe, Newer
      <4>. QED BY <1>0, <3>1, <4>1, <4>2
    <3>3. ASSUME pass' = "raise", p \in target', event[p] = "closed" PROVE "down" \in seen'[p].since
      <4>1. snap.ports[p] = "down" /\ ~ Superseded(p)
        BY <1>4, <2>1, <3>3 DEF CheckPort
      <4>2. Newer(snap, p)
        BY <3>3, <4>1 DEF Superseded, Newer
      <4>. QED BY <1>0, <3>1, <4>1, <4>2
    <3>. QED BY <2>1, <3>2, <3>3 DEF DecisionIsNew
  <2>. QED BY <1>c, <1>d, <2>1, <2>2, <2>3 DEF Undisturbed
<1>5. ASSUME NEW q \in Ports, SshRaises(q) \/ SshResolves(q) PROVE Undisturbed(p)'
  <2>1. /\ pass \in {"raise", "resolve"} /\ pass' = "ports" /\ (OpenEvent(q) \/ CloseEvent(q))
        /\ UNCHANGED <<poll, sample>>
    BY <1>5 DEF SshRaises, SshResolves, poller
  <2>2. status'.ports = status.ports /\ snap'.ports = snap.ports
    BY <1>0, <2>1, EventTyped
  <2>3. status'.after[p] = status.after[p] /\ snap'.after[p] = snap.after[p]
    BY <1>0, <2>1, StampsOfEvent
  <2>4. CopyIsNew(p)'
    BY <1>0, <2>1, <2>2, <2>3 DEF Undisturbed, CopyIsNew, Copy, Fair, Newer
  <2>5. DecisionIsNew(p)'
    BY <2>1 DEF DecisionIsNew
  <2>. QED BY <1>c, <1>d, <2>1, <2>2, <2>3, <2>4, <2>5 DEF Undisturbed
<1>. QED BY <1>1, <1>2, <1>3, <1>4, <1>5 DEF Reconciler

\* A step of the device, of the other path or of people, and a restart.
LEMMA OthersUndisturbed ==
  ASSUME HTypeOK, HTypeOK', HNext, NEW p \in Ports, event'[p] = event[p], Undisturbed(p),
         \/ \E q \in Ports, new \in LinkStates, logged \in BOOLEAN : LinkChanges(q, new, logged)
         \/ Detect \/ \E q \in Ports : ResolveByHand(q)
  PROVE  Undisturbed(p)'
<1>0. TypeOK /\ \A v : Fair(p, v) => (v \in {"up", "down"} => v \in seen'[p].since)
  BY SinceGrows DEF HTypeOK
<1>1. UNCHANGED <<poll, sample, pass, target>>
  BY DEF LinkChanges, Detect, ResolveByHand, poller, reconciler
<1>2. /\ status'.ports = status.ports /\ snap'.ports = snap.ports
      /\ status'.after[p] = status.after[p] /\ snap'.after[p] = snap.after[p]
  <2>1. CASE UNCHANGED <<status, snap>>
    BY <2>1
  <2>2. ASSUME NEW q \in Ports, OpenEvent(q) \/ CloseEvent(q)
        PROVE  /\ status'.ports = status.ports /\ snap'.ports = snap.ports
               /\ status'.after[p] = status.after[p] /\ snap'.after[p] = snap.after[p]
    BY <1>0, <2>2, EventTyped, StampsOfEvent
  <2>3. CASE Detect
    <3>1. Head(wire)[1] \in Ports /\ (OpenEvent(Head(wire)[1]) \/ CloseEvent(Head(wire)[1]))
      BY <1>0, <2>3 DEF Detect, TypeOK
    <3>. QED BY <2>2, <3>1
  <2>4. CASE \E q \in Ports : ResolveByHand(q)
    BY <2>2, <2>4 DEF ResolveByHand
  <2>5. CASE \E q \in Ports, new \in LinkStates, logged \in BOOLEAN : LinkChanges(q, new, logged)
    <3>1. UNCHANGED <<status, snap>>
      BY <2>5 DEF LinkChanges, reconciler
    <3>. QED BY <2>1, <3>1
  <2>. QED BY <2>3, <2>4, <2>5
<1>3. Fair(p, link[p])'
  BY SinceGrows DEF Fair
<1>4. SamplesAreNew(p)'
  BY <1>0, <1>1, <1>3 DEF Undisturbed, SamplesAreNew, Fair
<1>5. StatusIsNew(p)'
  BY <1>0, <1>1, <1>2 DEF Undisturbed, StatusIsNew, Fair, Newer
<1>6. CopyIsNew(p)'
  BY <1>0, <1>1, <1>2 DEF Undisturbed, CopyIsNew, Copy, Fair, Newer
<1>7. DecisionIsNew(p)'
  BY <1>1, SinceGrows DEF Undisturbed, DecisionIsNew
<1>. QED BY <1>4, <1>5, <1>6, <1>7 DEF Undisturbed

LEMMA RestartUndisturbed ==
  ASSUME HTypeOK, HNext, NEW p \in Ports, Restart
  PROVE  Undisturbed(p)'
<1>1. /\ event' = event /\ poll' = [t \in Pollers |-> "wait"] /\ status' = NewStatus /\ snap' = NoSnapshot
      /\ pass' = "idle" /\ target' = {}
  BY DEF Restart
<1>2. ~ Newer(status, p)' /\ ~ Newer(snap, p)'
  BY <1>1 DEF Newer, NewStatus, NoSnapshot, Fresh
<1>3. Fair(p, link[p])'
  BY <1>1, SinceGrows DEF Fair
<1>. QED BY <1>1, <1>2, <1>3 DEF Undisturbed, SamplesAreNew, StatusIsNew, CopyIsNew, DecisionIsNew

LEMMA OldStep ==
  ASSUME OldInv, [HNext]_hvars
  PROVE  OldInv'
<1>1. HTypeOK'
  BY HistoryTypeStep DEF OldInv
<1>2. ASSUME NEW p \in Ports, HNext PROVE seen'[p].muddled \/ Undisturbed(p)'
  <2>0. HTypeOK /\ (seen[p].muddled \/ Undisturbed(p))
    BY DEF OldInv
  <2>1. CASE event'[p] # event[p]
    <3>1. seen'[p].muddled = Busy(p)
      BY <1>2, <2>1 DEF HNext, Record
    <3>. QED BY <1>2, <2>0, <2>1, <3>1, ChangedAlone
  <2>2. CASE event'[p] = event[p] /\ ~ seen'[p].muddled
    <3>1. Undisturbed(p) /\ ~ PollFails
      BY <1>2, <2>0, <2>2, SinceGrows
    <3>2. CASE Reconciler
      BY <1>1, <1>2, <2>0, <2>2, <3>1, <3>2, ReconcilerUndisturbed
    <3>3. CASE \E t \in Pollers : Poll(t)
      BY <1>1, <1>2, <2>0, <2>2, <3>1, <3>3, PollUndisturbed
    <3>4. CASE Restart
      BY <1>2, <2>0, <3>4, RestartUndisturbed
    <3>5. CASE \/ \E q \in Ports, new \in LinkStates, logged \in BOOLEAN : LinkChanges(q, new, logged)
               \/ Detect \/ \E q \in Ports : ResolveByHand(q)
      BY <1>1, <1>2, <2>0, <2>2, <3>1, <3>5, OthersUndisturbed
    <3>. QED BY <1>2, <3>2, <3>3, <3>4, <3>5 DEF HNext, Next
  <2>. QED BY <2>1, <2>2
<1>3. CASE UNCHANGED hvars
  <2>1. UNCHANGED <<link, event, poll, sample, status, pass, snap, target, seen>>
    BY <1>3 DEF hvars, vars
  <2>. QED BY <1>1, <2>1 DEF OldInv, Undisturbed, SamplesAreNew, StatusIsNew, CopyIsNew, DecisionIsNew, Copy, Fair, Newer
<1>. QED BY <1>1, <1>2, <1>3 DEF OldInv

LEMMA OldInit ==
  ASSUME HInit
  PROVE  OldInv
<1>1. HTypeOK
  BY HistoryTypeInit
<1>2. ASSUME NEW p \in Ports PROVE Undisturbed(p)
  <2>1. /\ event[p] = "never" /\ (\A t \in Pollers : poll[t] = "wait") /\ pass = "idle"
        /\ seen[p].since = {link[p]} \ {"admin_down"}
    BY DEF HInit, Init
  <2>. QED BY <2>1 DEF Undisturbed, SamplesAreNew, StatusIsNew, CopyIsNew, DecisionIsNew, Fair, Newer
<1>. QED BY <1>1, <1>2 DEF OldInv

\* A poll closes an event only if the port was up since the event opened, and opens one again only
\* if the port was down since it closed, unless the change fell into a poll or a decision or a poll
\* failed since (_superseded, _resolve_if_stale_safe): OldPollsChangeNothing, for any ports and pollers.
THEOREM OldPollsAreHarmless == HSpec => OldPollsChangeNothing
<1>1. HInit => OldInv
  BY OldInit
<1>2. OldInv /\ [HNext]_hvars => OldInv'
  BY OldStep
<1>3. OldInv => \A p \in Ports :
        /\ pass = "resolve" /\ p \in target /\ event[p] = "open" => "up" \in seen[p].since \/ seen[p].muddled
        /\ pass = "raise" /\ p \in target /\ event[p] = "closed" => "down" \in seen[p].since \/ seen[p].muddled
  BY DEF OldInv, Undisturbed, DecisionIsNew
<1>4. OldInv /\ [HNext]_hvars =>
        [\A p \in Ports :
           /\ SshResolves(p) /\ event[p] = "open" => "up" \in seen[p].since \/ seen[p].muddled
           /\ SshRaises(p) /\ event[p] = "closed" => "down" \in seen[p].since \/ seen[p].muddled]_hvars
  BY <1>3 DEF SshResolves, SshRaises
<1>. QED BY <1>1, <1>2, <1>4, PTL DEF HSpec, OldPollsChangeNothing
=============================================================================
