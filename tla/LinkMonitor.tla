------------------------------ MODULE LinkMonitor ------------------------------
(***************************************************************************)
(* How one device's ports become port.link_down events: the device changes *)
(* and logs, the syslog path (event_detect.py) raises and resolves at      *)
(* once, the SSH poll (status_poller.py) samples every 30 s, and the       *)
(* reconciler (event_reconcile.py) compares the cached poll with the open  *)
(* events every 15 s.  The four run on threads of their own.               *)
(*                                                                         *)
(* The store is used as EventEpisodes promises it: a raise or a resolve of *)
(* one signature is one step.  Timestamps are only ever compared (the      *)
(* poll's stamp with the event's reopened_at or raised_at, and with its    *)
(* resolved_at), so the model keeps the outcome of those comparisons       *)
(* instead of a clock: a stamp is after an event's time exactly when it    *)
(* was taken after the step that set that time.  Ports marked `ignore` on  *)
(* the Ports tab are not among Ports: both paths skip them.                *)
(***************************************************************************)
EXTENDS Naturals, Sequences

CONSTANTS
  Ports,        \* the device's ports
  Classified,   \* ports with a row of their own on the Ports tab
  Pollers,      \* threads that poll: the loop, and requests that refresh now
  Threshold,    \* `polls` of device.unreachable
  MaxLines,     \* bound: syslog lines on their way
  MaxRestarts   \* bound: restarts of the process

ASSUME MonitorAssumption ==
  /\ Classified \subseteq Ports
  /\ Threshold \in Nat \ {0} /\ MaxLines \in Nat /\ MaxRestarts \in Nat

VARIABLES
  link,      \* the truth: per port, "up" or "down"
  wire,      \* syslog lines the device sent and nobody evaluated yet
  event,     \* per port, its latest port.link_down episode
  unreachable, \* is device.unreachable open
  poll,      \* per poller: "wait", "sampled" or "stamp"
  sample,    \* per poller, the ports as the command of its poll printed them
  status,    \* the shared DeviceStatus
  pass,      \* the reconciler thread: "idle", "copy", "ports", "raise" or "resolve"
  snap,      \* what to_dict gave this pass
  left,      \* ports this pass has still to look at
  target,    \* the port it has decided to act on, if any
  prev,      \* _prev_port
  passes,    \* _fail_passes, counted up to Threshold
  restarts   \* how often the process was restarted

vars == <<link, wire, event, unreachable, poll, sample, status, pass, snap, left, target,
          prev, passes, restarts>>

device == <<link, wire>>
poller == <<poll, sample>>
reconciler == <<pass, snap, left, target, prev, passes>>

LinkStates == {"up", "down", "admin_down"}  \* port_state
LineStates == {"up", "down"}                \* link_state of a syslog line
Ages == [raise : BOOLEAN, resolve : BOOLEAN]

TypeOK ==
  /\ link \in [Ports -> LinkStates]
  /\ wire \in Seq(Ports \X LineStates) /\ Len(wire) <= MaxLines
  /\ event \in [Ports -> {"never", "open", "closed"}]
  /\ unreachable \in BOOLEAN
  /\ poll \in [Pollers -> {"wait", "sampled", "stamp"}]
  /\ sample \in [Pollers -> [Ports -> LinkStates \cup {"none"}]]
  /\ status \in [ports : [Ports -> LinkStates \cup {"none"}], failed : BOOLEAN,
                 polled : {"never", "new", "seen"}, after : [Ports -> Ages]]
  /\ pass \in {"idle", "copy", "ports", "raise", "resolve"}
  /\ snap \in [ports : [Ports -> LinkStates \cup {"none"}], after : [Ports -> Ages]]
  /\ left \subseteq Ports /\ target \subseteq Ports
  /\ prev \in [Ports -> LinkStates \cup {"none"}]
  /\ passes \in 0..Threshold
  /\ restarts \in 0..MaxRestarts

-----------------------------------------------------------------------------

Fresh == [p \in Ports |-> [raise |-> FALSE, resolve |-> FALSE]]
Unknown == [p \in Ports |-> "none"]

\* DeviceStatus() of a poller that has just started.
NewStatus == [ports |-> Unknown, failed |-> FALSE, polled |-> "never", after |-> Fresh]

\* What a pass holds before and after: nothing.
NoSnapshot == [ports |-> Unknown, after |-> Fresh]

Init ==
  /\ link \in [Ports -> LinkStates]
  /\ wire = <<>>
  /\ event = [p \in Ports |-> "never"]
  /\ unreachable = FALSE
  /\ poll = [t \in Pollers |-> "wait"] /\ sample = [t \in Pollers |-> Unknown]
  /\ status = NewStatus
  /\ pass = "idle" /\ left = {} /\ target = {} /\ passes = 0
  /\ snap = NoSnapshot
  /\ prev = Unknown
  /\ restarts = 0

-----------------------------------------------------------------------------
(* The event store: what raise_event and resolve do to one port's episode. *)

\* Seeded fault: a re-opened event keeps the age of its raised_at.
OpenEventByRaisedAt(p) ==
  IF event[p] = "open"
    THEN UNCHANGED <<event, status, snap>>
    ELSE /\ event' = [event EXCEPT ![p] = "open"]
         /\ IF event[p] = "never"
              THEN /\ status' = [status EXCEPT !.after[p].raise = FALSE]
                   /\ snap' = [snap EXCEPT !.after[p].raise = FALSE]
              ELSE UNCHANGED <<status, snap>>

\* Opening sets raised_at or reopened_at to now: no stamp taken so far is after it.
OpenEvent(p) ==
  IF event[p] = "open"
    THEN UNCHANGED <<event, status, snap>>
    ELSE /\ event' = [event EXCEPT ![p] = "open"]
         /\ status' = [status EXCEPT !.after[p] = [raise |-> FALSE, resolve |-> FALSE]]
         /\ snap' = [snap EXCEPT !.after[p] = [raise |-> FALSE, resolve |-> FALSE]]

\* Closing sets resolved_at to now.
CloseEvent(p) ==
  IF event[p] # "open"
    THEN UNCHANGED <<event, status, snap>>
    ELSE /\ event' = [event EXCEPT ![p] = "closed"]
         /\ status' = [status EXCEPT !.after[p].resolve = FALSE]
         /\ snap' = [snap EXCEPT !.after[p].resolve = FALSE]

-----------------------------------------------------------------------------
(* The device, the syslog path, and the people.                            *)

\* A link changes.  The device logs it, or does not: it logs no link-down
\* line for a LAG member, and syslog datagrams get lost.
LinkChanges(p, new, logged) ==
  /\ link[p] # new
  /\ link' = [link EXCEPT ![p] = new]
  /\ IF logged
       THEN /\ Len(wire) < MaxLines
            /\ wire' = Append(wire, <<p, IF new = "up" THEN "up" ELSE "down">>)
       ELSE UNCHANGED wire
  /\ UNCHANGED <<event, unreachable, status, restarts, poller, reconciler>>

\* The detector evaluates the next line: a link event raises or resolves.
Detect ==
  /\ wire # <<>>
  /\ wire' = Tail(wire)
  /\ LET p == Head(wire)[1]
     IN  IF Head(wire)[2] = "down" THEN OpenEvent(p) ELSE CloseEvent(p)
  /\ UNCHANGED <<link, unreachable, poller, pass, left, target, prev, passes, restarts>>

\* Somebody resolves the event on the Events page.
ResolveByHand(p) ==
  /\ event[p] = "open"
  /\ CloseEvent(p)
  /\ UNCHANGED <<device, unreachable, poller, pass, left, target, prev, passes, restarts>>

-----------------------------------------------------------------------------
(* The status poller: its loop, and refresh_now on the threads of requests.  *)
(* The device's lock covers the commands only, so polls can overlap: one may  *)
(* store and stamp after another that asked the device later.                 *)

\* "show interfaces status": the ports as they are now.  More commands follow.
PollSample(t) ==
  /\ poll[t] = "wait"
  /\ poll' = [poll EXCEPT ![t] = "sampled"]
  /\ sample' = [sample EXCEPT ![t] = link]
  /\ UNCHANGED <<device, event, unreachable, status, restarts, reconciler>>

\* All commands answered: the parsed interfaces are stored.
PollStore(t) ==
  /\ poll[t] = "sampled"
  /\ poll' = [poll EXCEPT ![t] = "stamp"]
  /\ status' = [status EXCEPT !.ports = sample[t], !.failed = FALSE]
  /\ sample' = [sample EXCEPT ![t] = Unknown]
  /\ UNCHANGED <<device, event, unreachable, restarts, reconciler>>

\* The session or one of the commands failed: the interfaces stay as they were.
PollFail(t) ==
  /\ poll[t] \in {"wait", "sampled"}
  /\ poll' = [poll EXCEPT ![t] = "stamp"]
  /\ status' = [status EXCEPT !.failed = TRUE]
  /\ sample' = [sample EXCEPT ![t] = Unknown]
  /\ UNCHANGED <<device, event, unreachable, restarts, reconciler>>

\* `finally`: last_polled becomes the time the poll ENDED, failed or not.
PollStamp(t) ==
  /\ poll[t] = "stamp"
  /\ poll' = [poll EXCEPT ![t] = "wait"]
  /\ status' = [status EXCEPT !.polled = "new",
                              !.after = [p \in Ports |-> [raise |-> TRUE, resolve |-> TRUE]]]
  /\ UNCHANGED <<device, event, unreachable, sample, restarts, reconciler>>

-----------------------------------------------------------------------------
(* The reconciler.                                                         *)

\* Seeded fault: only a reconciler that counted the failures resolves.
ReachabilityIfCounted ==
  IF status.failed
    THEN /\ passes' = IF passes < Threshold THEN passes + 1 ELSE passes
         /\ unreachable' = (unreachable \/ passes' = Threshold)
    ELSE /\ passes' = 0
         /\ unreachable' = (unreachable /\ (status.polled = "never" \/ passes = 0))

\* _reachability: every PASS that finds an error counts, whether or not the
\* poll behind it is a new one.
Reachability ==
  IF status.failed
    THEN /\ passes' = IF passes < Threshold THEN passes + 1 ELSE passes
         /\ unreachable' = (unreachable \/ passes' = Threshold)
    ELSE /\ passes' = 0
         /\ unreachable' = (unreachable /\ status.polled = "never")

\* to_dict is called without a lock: a pass copies the error and the stamp first.
\* If the stamp is one it has seen, the ports do not interest it.
BeginPass ==
  /\ pass = "idle"
  /\ Reachability
  /\ IF status.polled = "new"
       THEN /\ pass' = "copy"
            /\ snap' = [snap EXCEPT !.after = status.after]
            /\ status' = [status EXCEPT !.polled = "seen"]
       ELSE UNCHANGED <<pass, snap, status>>
  /\ UNCHANGED <<device, event, poller, left, target, prev, restarts>>

\* Then to_dict copies the interfaces, which a poll may have stored meanwhile.
CopyPorts ==
  /\ pass = "copy"
  /\ pass' = "ports"
  /\ snap' = [snap EXCEPT !.ports = status.ports]
  /\ left' = {p \in Ports : status.ports[p] # "none"}
  /\ UNCHANGED <<device, event, unreachable, poller, status, target, prev, passes, restarts>>

\* _superseded: something newer than the snapshot already closed this.
Superseded(p) == event[p] = "closed" /\ ~snap.after[p].resolve

\* Seeded fault: the poll resolves only on the transition to "up".
StaleSafeOnTransition(p) == event[p] = "open" /\ snap.after[p].raise /\ prev[p] # "up"

\* _resolve_if_stale_safe: the snapshot is newer than the event it would close.
StaleSafe(p) == event[p] = "open" /\ snap.after[p].raise

\* Seeded fault: every port that is down at first sight is newly down.
NewlyDownAtFirstSight(p) == prev[p] # "down"

\* Down ports raise on the transition, or at first sight if classified.
NewlyDown(p) == prev[p] = "up" \/ (prev[p] = "none" /\ p \in Classified)

\* One turn of _ports: the store is read now, and acted upon in a later step.
CheckPort(p) ==
  /\ pass = "ports" /\ p \in left
  /\ left' = left \ {p}
  /\ prev' = [prev EXCEPT ![p] = snap.ports[p]]
  /\ \/ /\ snap.ports[p] = "down" /\ NewlyDown(p) /\ ~Superseded(p)
        /\ pass' = "raise" /\ target' = {p}
     \/ /\ snap.ports[p] = "up" /\ StaleSafe(p)
        /\ pass' = "resolve" /\ target' = {p}
     \/ /\ snap.ports[p] = "down" => ~NewlyDown(p) \/ Superseded(p)
        /\ snap.ports[p] = "up" => ~StaleSafe(p)
        /\ UNCHANGED <<pass, target>>
  /\ UNCHANGED <<device, event, unreachable, poller, status, snap, passes, restarts>>

\* raise_event(..., source="ssh")
SshRaises(p) ==
  /\ pass = "raise" /\ p \in target
  /\ OpenEvent(p)
  /\ pass' = "ports" /\ target' = {}
  /\ UNCHANGED <<device, unreachable, poller, left, prev, passes, restarts>>

\* resolve(open_ev["signature"], by="ssh")
SshResolves(p) ==
  /\ pass = "resolve" /\ p \in target
  /\ CloseEvent(p)
  /\ pass' = "ports" /\ target' = {}
  /\ UNCHANGED <<device, unreachable, poller, left, prev, passes, restarts>>

EndPass ==
  /\ pass = "ports" /\ left = {}
  /\ pass' = "idle"
  /\ snap' = NoSnapshot
  /\ UNCHANGED <<device, event, unreachable, poller, status, left, target, prev, passes,
                 restarts>>

-----------------------------------------------------------------------------

\* The process restarts: the events stay in the database, and so do the lines
\* in the sender's buffer; what the threads remembered is gone.
Restart ==
  /\ restarts < MaxRestarts
  /\ restarts' = restarts + 1
  /\ poll' = [t \in Pollers |-> "wait"] /\ sample' = [t \in Pollers |-> Unknown]
  /\ status' = NewStatus
  /\ pass' = "idle" /\ left' = {} /\ target' = {} /\ passes' = 0
  /\ snap' = NoSnapshot
  /\ prev' = Unknown
  /\ UNCHANGED <<device, event, unreachable>>

Poll(t) == PollSample(t) \/ PollStore(t) \/ PollFail(t) \/ PollStamp(t)

Reconciler ==
  \/ BeginPass \/ CopyPorts \/ EndPass
  \/ \E p \in Ports : CheckPort(p) \/ SshRaises(p) \/ SshResolves(p)

Next ==
  \/ \E p \in Ports, new \in LinkStates, logged \in BOOLEAN : LinkChanges(p, new, logged)
  \/ \E p \in Ports : ResolveByHand(p)
  \/ Detect
  \/ \E t \in Pollers : Poll(t)
  \/ Reconciler
  \/ Restart

\* The loops of the poller, the reconciler and the ingest path run for ever,
\* and a device that is polled again and again answers again and again.
Fairness ==
  /\ WF_vars(Detect)
  /\ \A t \in Pollers : WF_vars(Poll(t)) /\ SF_vars(PollSample(t)) /\ SF_vars(PollStore(t))
  /\ WF_vars(Reconciler)

Spec == Init /\ [][Next]_vars /\ Fairness

-----------------------------------------------------------------------------
(* Properties.                                                             *)

\* A port that stays up has no open event for ever: whatever lines were lost
\* or late, and whatever an old snapshot raised again, some poll closes it.
UpClears ==
  \A p \in Ports : <>[](link[p] = "up") => <>[](event[p] # "open")

\* Once polls stop failing, device.unreachable closes ("the next good poll
\* resolves") and stays closed.
ReachableClears ==
  <>[](~status.failed /\ status.polled # "never") => <>[](~unreachable)

\* "Ports raise on a transition this reconciler observed (up last poll, down
\* now)": the reconciler looks at such a port, the link stays down from then on,
\* and so its event is open, then or later.
TransitionIsReported ==
  \A p \in Ports :
    []((/\ pass = "ports" /\ p \in left
        /\ prev[p] = "up" /\ snap.ports[p] = "down"
        /\ [](link[p] = "down"))
       => <>(event[p] = "open"))
=============================================================================
