------------------------------- MODULE MCServices -------------------------------
(***************************************************************************)
(* What the parts of the system may never do: the event store, with two    *)
(* signatures and no fault, beside the eight parts of Services.            *)
(***************************************************************************)
EXTENDS EventStore, Services, TLC

\* A Dell switch and a firewall, one login at a time.
McPlatformOf == [sw |-> "os9", fw |-> "opnsense"]
McMaxRuns == [sw |-> 2, fw |-> 1]

\* One policy per kind of row, of which the first raises every time.
McPolicies == <<[kind |-> "samples", keep |-> 1], [kind |-> "resolved", keep |-> 1], [kind |-> "auto", keep |-> 1]>>

\* Two flows: one of a device that names one of its ports, now this one and now that,
\* and one of an agent that is no device; one page that searches for the name, over
\* a table that grows, while a reading of the map may fail.
McFlows ==
  {[agent |-> "d1", in |-> 1, out |-> 2, src |-> "h1", dst |-> "h2", service |-> "ssh", bytes |-> 1],
   [agent |-> "d2", in |-> 2, out |-> 1, src |-> "h2", dst |-> "h1", service |-> "dns", bytes |-> 2]}
McAnswers == {{<<2, "Te2">>}, {<<1, "Te2">>}}
McArithmetic == {<<1, "Te1">>}
McPlatform == [d \in {"d1"} |-> "os9"]

\* Callers run the same code, and emitters do.
Interchangeable == Permutations(Callers) \cup Permutations(Emitters)

-----------------------------------------------------------------------------
McInit ==
  /\ part \in {"store", "house", "ssh", "exporter", "access", "configuration", "dns", "traffic", "bus"}
  /\ Init /\ ServicesInit
  \* What only one part reads does not vary while another moves, and the switch starts with one map.
  /\ In("bus") \/ browsers = [b \in Browsers |-> [min |-> 1, resolved |-> TRUE]]
  /\ answer = [d \in Inventory |-> {<<2, "Te2">>}]

StoreStep == In("store") /\ Next /\ UNCHANGED servicesVars

McNext ==
  \/ StoreStep
  \/ ServicesNext /\ UNCHANGED vars

McSpec == McInit /\ [][McNext]_<<vars, servicesVars>>
=================================================================================
