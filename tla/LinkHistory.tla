------------------------------ MODULE LinkHistory ------------------------------
(***************************************************************************)
(* LinkMonitor with a history variable, for the properties that relate     *)
(* what the reconciler does to what the link really did.  The variable     *)
(* records, and never restricts, what LinkMonitor does.                    *)
(***************************************************************************)
EXTENDS LinkMonitor

VARIABLE
  seen  \* per port: was it up since the process started; was it up, was it
        \* down since its event last opened or closed; and was that moment muddled

hvars == <<vars, seen>>

\* A poll is under way, or the reconciler is between reading the store and acting.
Busy(p) == p \in target \/ \E t \in Pollers : poll[t] # "wait"

\* This step is a poll that fails: only the stamp of the status becomes newer.
PollFails ==
  /\ status'.failed
  /\ \E t \in Pollers : poll[t] # "stamp" /\ poll'[t] = "stamp"

HInit ==
  /\ Init
  /\ seen = [p \in Ports |->
               [up |-> link[p] = "up", since |-> {link[p]} \ {"admin_down"}, muddled |-> FALSE]]

Record(p) ==
  [up |-> link'[p] = "up" \/ (seen[p].up /\ restarts' = restarts),
   since |-> ({link'[p]} \ {"admin_down"})
             \cup (IF event'[p] = event[p] THEN seen[p].since ELSE {}),
   muddled |-> IF event'[p] = event[p] THEN seen[p].muddled \/ PollFails ELSE Busy(p)]

HNext == Next /\ seen' = [p \in Ports |-> Record(p)]

HSpec == HInit /\ [][HNext]_hvars

-----------------------------------------------------------------------------
(* Properties.                                                             *)

HTypeOK ==
  /\ TypeOK
  /\ seen \in [Ports -> [up : BOOLEAN, since : SUBSET {"up", "down"}, muddled : BOOLEAN]]

\* The poll raises a port that was up at some time since the process started,
\* or that someone classified: "a switch has dozens of unused, linkless ports,
\* and every down port is an event at startup is a storm" (_ports).
UnusedPortsStayQuiet ==
  [][\A p \in Ports :
       SshRaises(p) /\ event[p] # "open" => seen[p].up \/ p \in Classified]_hvars

\* Staleness cuts both ways: the poll closes an event only if the port was up
\* since the event opened (or came back), and opens one again only if the port
\* was down since it closed - unless a poll or the reconciler's decision was
\* under way at that moment, or a poll failed since.  The exceptions are what
\* comparing with a stamp of the poll's END leaves open.
OldPollsChangeNothing ==
  [][\A p \in Ports :
       /\ SshResolves(p) /\ event[p] = "open" => "up" \in seen[p].since \/ seen[p].muddled
       /\ SshRaises(p) /\ event[p] = "closed" => "down" \in seen[p].since \/ seen[p].muddled]_hvars

\* "a stale `up` must not close a real outage": the poll closes an event only
\* if the port was up at some time after the event was opened.
StaleUpClosesNothing ==
  [][\A p \in Ports :
       SshResolves(p) /\ event[p] = "open" => "up" \in seen[p].since]_hvars
=============================================================================
