------------------------------ MODULE DeviceHealth ------------------------------
(***************************************************************************)
(* How what a device says of itself becomes events: the poll reads its fan *)
(* trays and power supplies, its CPU, its error counters and, less often,  *)
(* its optics; the reconciler compares every new reading with the open     *)
(* events.                                                                 *)
(*                                                                         *)
(* Readings are what the thresholds make of them.  Memory is judged as the *)
(* CPU is, discards as input errors are.  One port, classified or not; its *)
(* link events, and the races with syslog, are LinkMonitor's.  A stamp is  *)
(* the set of the subjects whose last raise or resolve it is later than.   *)
(* Junos names bays by position: the bay that leaves is the last one.      *)
(***************************************************************************)
EXTENDS Naturals

CONSTANTS
  Bays,        \* fan trays and power supplies
  Sound,       \* the bays among them that never fail nor leave
  Polls,       \* `polls` of compute.cpu_high
  PerPoll,     \* `per_poll` of port.input_errors
  MaxErrors,   \* bound: the error counter
  MaxChanges,  \* bound: changes of the device and hands on its events
  MaxFaults    \* bound: polls that fail, readings that are garbled, restarts

VARIABLES
  platform,  \* of the device
  focus,     \* bound: the part of the device that changes
  truth,     \* the device: per bay its state, CPU, error counter, optic
  changes, faults,
  status,    \* the DeviceStatus
  pass,      \* the reconciler: the check it makes next
  snap,      \* what it checks: a copy of the status
  memory,    \* what it remembers from pass to pass
  event      \* per subject: never, open or closed

healthVars == <<platform, focus, truth, changes, faults, status, pass, snap, memory, event>>

Slow == {"optic.removed", "optic.rx_power_low"}

HealthAssumption ==
  /\ Sound \subseteq Bays /\ Bays \cap ({"cpu", "errors"} \cup Slow) = {}
  /\ {Polls, PerPoll, MaxErrors, MaxChanges, MaxFaults} \subseteq Nat

Subjects == Bays \cup {"cpu", "errors"} \cup Slow
BayStates == {"up", "down", "gone"}
Optics == {"absent", "dark", "lit", "low"}  \* dark: on a link that is down

NoCount == MaxErrors + 1
Unread == [bays |-> [b \in Bays |-> "unlisted"], cpu |-> "none", errors |-> NoCount, optic |-> "none"]
NewStatus == [read |-> Unread, known |-> {}, polled |-> "never", optics |-> "never", after |-> {}]
NoSnapshot == [read |-> Unread, after |-> {}, fast |-> FALSE, slow |-> FALSE]
Forgotten == [passes |-> 0, errors |-> NoCount, optic |-> "none"]

Init ==
  /\ platform \in {"os9", "junos", "opnsense"}
  /\ focus \in {"bays", "cpu", "errors", "optic"}
  /\ truth = [bays |-> [b \in Bays |-> "up"], cpu |-> "low", errors |-> 0, optic |-> "lit"]
  /\ changes = 0 /\ faults = 0
  /\ status = NewStatus
  /\ pass = "idle" /\ snap = NoSnapshot /\ memory = Forgotten
  /\ event = [s \in Subjects |-> "never"]

-----------------------------------------------------------------------------
(* The device.                                                             *)

Change ==
  /\ changes < MaxChanges /\ changes' = changes + 1
  /\ \/ focus = "bays" /\ \E b \in Bays \ Sound, s \in BayStates : truth' = [truth EXCEPT !.bays[b] = s]
     \/ focus = "cpu" /\ \E c \in {"low", "middling", "high"} : truth' = [truth EXCEPT !.cpu = c]
     \/ focus = "errors" /\ \E n \in {0} \cup (truth.errors..MaxErrors) : truth' = [truth EXCEPT !.errors = n]
     \/ focus = "optic" /\ \E o \in Optics : truth' = [truth EXCEPT !.optic = o]
  /\ truth' # truth
  /\ UNCHANGED <<platform, focus, faults, status, pass, snap, memory, event>>

-----------------------------------------------------------------------------
(* The poll: the fields if it went well, and the stamp in any case; every  *)
(* so often the optics.                                                    *)

Polled(new) ==
  /\ status' = new
  /\ UNCHANGED <<platform, focus, truth, changes, pass, snap, memory, event>>

Listed == {b \in Bays : truth.bays[b] # "gone"}

\* A bay ever seen that is not listed any more is filled in as removed; an
\* output without a single bay is a failed read, and the old one stays.
Fill(listed, known) ==
  [b \in Bays |-> IF b \in listed THEN truth.bays[b] ELSE IF b \in known THEN "gone" ELSE "unlisted"]
FilledAlways(listed) == Fill(listed, status.known)  \* seeded fault: whatever was parsed is believed
FilledAsListed(listed) == Fill(listed, {})  \* seeded fault: what is not listed is forgotten
FilledUnlessEmpty(listed) ==
  IF listed = {} /\ status.known # {} THEN status.read.bays ELSE Fill(listed, status.known)
Environment(listed) ==
  CASE platform = "os9" -> FilledUnlessEmpty(listed)
    [] platform = "junos" -> Fill(listed, {})
    [] OTHER -> Unread.bays

Known(listed) == IF platform = "os9" THEN status.known \cup listed ELSE {}

Stamped(read) == [status EXCEPT !.read = read, !.polled = "new", !.after = @ \cup (Subjects \ Slow)]

Poll == \E listed \in {Listed} \cup (IF faults < MaxFaults THEN {{}} ELSE {}) :
  /\ faults' = IF listed = Listed THEN faults ELSE faults + 1
  /\ Polled([Stamped([bays |-> Environment(listed), cpu |-> truth.cpu,
                      errors |-> IF platform = "os9" THEN truth.errors ELSE NoCount,
                      optic |-> status.read.optic]) EXCEPT !.known = Known(listed)])

PollFails ==
  /\ faults < MaxFaults /\ faults' = faults + 1
  /\ Polled(Stamped(status.read))

\* A port whose command fails is left out of what was read.
PollOptics == \E fails \in (IF faults < MaxFaults THEN BOOLEAN ELSE {FALSE}) :
  /\ platform # "opnsense" /\ status.polled # "never"
  /\ faults' = IF fails THEN faults + 1 ELSE faults
  /\ Polled([status EXCEPT !.read.optic = IF fails THEN "absent" ELSE truth.optic,
                            !.optics = "new", !.after = @ \cup Slow])

-----------------------------------------------------------------------------
(* The reconciler, one check after the other over one copy.                *)

Tell(raised, resolved) ==
  LET opened == {s \in raised : event[s] # "open"}
      closed == {s \in resolved : event[s] = "open"}
  IN  /\ event' = [s \in Subjects |-> IF s \in opened THEN "open" ELSE IF s \in closed THEN "closed" ELSE event[s]]
      /\ status' = [status EXCEPT !.after = @ \ (opened \cup closed)]
      /\ snap' = IF pass' = "idle" THEN NoSnapshot ELSE [snap EXCEPT !.after = @ \ (opened \cup closed)]

Superseded(s) == event[s] = "closed" /\ s \notin snap.after
Raised(subjects) == {s \in subjects : ~ Superseded(s)}
StaleSafe(s) == s \in snap.after

Checks(from, to) ==
  /\ pass = from /\ pass' = to
  /\ UNCHANGED <<platform, focus, truth, changes, faults>>

\* to_dict, and the stamps it carries: a copy with no new stamp is not looked at.
Copy ==
  /\ "new" \in {status.polled, status.optics}
  /\ Checks("idle", IF status.polled = "new" THEN "environment" ELSE "optics")
  /\ snap' = [read |-> status.read, after |-> status.after,
              fast |-> status.polled = "new", slow |-> status.optics = "new"]
  /\ status' = [status EXCEPT !.polled = IF @ = "new" THEN "seen" ELSE @,
                              !.optics = IF @ = "new" THEN "seen" ELSE @]
  /\ UNCHANGED <<memory, event>>

CheckEnvironment ==
  LET state == snap.read.bays
  IN  /\ Checks("environment", "compute")
      /\ Tell(Raised({b \in Bays : state[b] \in {"down", "gone"}}),
              {b \in Bays : state[b] = "up" /\ StaleSafe(b)})
      /\ UNCHANGED memory

Counted == IF memory.passes < Polls THEN memory.passes + 1 ELSE Polls

\* A value between the two thresholds neither raises nor resolves.
CheckCompute ==
  /\ Checks("compute", "errors")
  /\ IF snap.read.cpu = "high"
       THEN /\ memory' = [memory EXCEPT !.passes = Counted]
            /\ Tell(Raised({s \in {"cpu"} : Counted >= Polls}), {})
       ELSE /\ memory' = [memory EXCEPT !.passes = IF snap.read.cpu = "none" THEN @ ELSE 0]
            /\ Tell({}, {s \in {"cpu"} : snap.read.cpu = "low"})

\* The rise since the last look; a counter that fell was reset.
CheckErrors ==
  LET total == snap.read.errors
      known == NoCount \notin {total, memory.errors}
  IN  /\ Checks("errors", IF snap.slow THEN "optics" ELSE "idle")
      /\ memory' = [memory EXCEPT !.errors = IF total = NoCount THEN @ ELSE total]
      /\ Tell(Raised({s \in {"errors"} : known /\ total >= memory.errors + PerPoll}),
              {s \in {"errors"} : known /\ total = memory.errors})

CheckOptics ==
  LET was == memory.optic \notin {"none", "absent"}
      now == snap.read.optic \notin {"none", "absent"}
  IN  /\ Checks("optics", "idle")
      /\ memory' = [memory EXCEPT !.optic = snap.read.optic]
      /\ Tell(Raised({s \in {"optic.removed"} : was /\ ~ now}
                       \cup {s \in {"optic.rx_power_low"} : snap.read.optic = "low"}),
              {s \in {"optic.removed"} : now /\ ~ was}
                \cup {s \in {"optic.rx_power_low"} : snap.read.optic = "lit"})

\* Somebody resolves an event on the Events page.
ResolveByHand(s) ==
  /\ event[s] = "open" /\ changes < MaxChanges /\ changes' = changes + 1
  /\ event' = [event EXCEPT ![s] = "closed"]
  /\ status' = [status EXCEPT !.after = @ \ {s}]
  /\ snap' = [snap EXCEPT !.after = @ \ {s}]
  /\ UNCHANGED <<platform, focus, truth, faults, pass, memory>>

\* The process restarts: the events stay, what was read and remembered goes.
Restart ==
  /\ faults < MaxFaults /\ faults' = faults + 1
  /\ status' = NewStatus
  /\ pass' = "idle" /\ snap' = NoSnapshot /\ memory' = Forgotten
  /\ UNCHANGED <<platform, focus, truth, changes, event>>

CheckStep == Copy \/ CheckEnvironment \/ CheckCompute \/ CheckErrors \/ CheckOptics
Next == Change \/ Poll \/ PollFails \/ PollOptics \/ CheckStep \/ Restart \/ \E s \in Subjects : ResolveByHand(s)

\* The poll, its slow cycle and the reconciler come round again and again;
\* polls fail now and then.
HealthFairness == WF_healthVars(Poll) /\ WF_healthVars(PollOptics) /\ WF_healthVars(CheckStep)

Spec == Init /\ [][Next]_healthVars /\ HealthFairness

-----------------------------------------------------------------------------
TypeOK ==
  /\ truth.bays \in [Bays -> BayStates] /\ truth.errors \in 0..MaxErrors /\ truth.optic \in Optics
  /\ changes \in 0..MaxChanges /\ faults \in 0..MaxFaults
  /\ pass \in {"idle", "environment", "compute", "errors", "optics"}
  /\ status.read.bays \in [Bays -> BayStates \cup {"unlisted"}] /\ status.known \subseteq Bays
  /\ memory.passes \in 0..Polls
  /\ event \in [Subjects -> {"never", "open", "closed"}]

Open(s) == event[s] = "open"

\* A bay that never failed has no event, whichever reads came back empty
\* (status_poller.py:470-488).
NoFalseAlarm == \A b \in Sound : event[b] = "never"

\* A fault that stays is told, and told again after an operator resolved it
\* (app.py:3419): of a bay the poll has seen, also one that was pulled out, of
\* the CPU, of a weak signal (_fill_missing_bays, _environment, _optics).
FaultsAreTold ==
  /\ \A b \in Bays : <>[](b \in status.known /\ truth.bays[b] # "up") => []<>Open(b)
  /\ <>[](truth.cpu = "high") => []<>Open("cpu")
  /\ platform = "opnsense" \/ (<>[](truth.optic = "low") => []<>Open("optic.rx_power_low"))
=============================================================================
