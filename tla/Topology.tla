-------------------------------- MODULE Topology --------------------------------
(***************************************************************************)
(* The fleet topology: crawls that ask every device for its LLDP           *)
(* neighbours, ARP, MAC table and port-channels, the graph built from the  *)
(* answers, the cache the page reads, and the baseline that live edges are *)
(* compared with.                                                          *)
(*                                                                         *)
(* A network is what the devices would answer at one moment.  Port names   *)
(* are spelled alike on both sides; names, labels and throughput are left  *)
(* out.                                                                    *)
(***************************************************************************)
EXTENDS Naturals, Sequences, FiniteSets, SequencesExt

CONSTANTS
  Order,      \* the device ids, in the order of DEVICES
  Networks,   \* per network: lldp, mac, arp, lags and status, each per device
  Requests,   \* requests that force a refresh
  Admins,     \* requests that relearn, accept or clear the baseline
  MaxMoves,   \* bound: changes of the network
  MaxEdits,   \* bound: changes of the baseline
  MaxFaults   \* bound: commands that fail, and crawls that raise

TopologyAssumption ==
  1 \in DOMAIN Networks /\ MaxMoves \in Nat /\ MaxEdits \in Nat /\ MaxFaults \in Nat

VARIABLES
  network,   \* what the devices would answer now
  moves, edits, faults,
  cache,     \* _TOPOLOGY_CACHE: the answers its edges are built from, and whether a crawl refreshes it
  baseline,  \* topology_baseline: a set of signatures, or NoBaseline
  crawl,     \* per thread that crawls: the answers so far
  accepting  \* per admin: the baseline it read and what it accepts

topoVars == <<network, moves, edits, faults, cache, baseline, crawl, accepting>>

Devices == {Order[i] : i \in DOMAIN Order}
Loop == "loop"
Crawlers == {Loop} \cup Requests \cup Admins
NoBaseline == [edges |-> {}, known |-> FALSE]
NoSignature == [kind |-> "none"]
NoAddress == ""
First(set) == CHOOSE x \in set : TRUE  \* the order of rows is left out

-----------------------------------------------------------------------------
(* build_topology.  An answer that failed is an empty one here: the device *)
(* has no rows.  A row is [local, name, chassis, portId, parent].          *)

Rows(answers, d) == {[dev |-> d, row |-> r] : r \in answers[d].lldp}
RowsInOrder(answers) == FoldSeq(LAMBDA d, rows : SetToSeq(Rows(answers, d)) \o rows, <<>>, Reverse(Order))

Position(d) == CHOOSE i \in DOMAIN Order : Order[i] = d
Key(x) == <<x.dev, x.row.local>>
Corroborates(x, y) == x.dev # y.dev /\ x.row.name = y.row.local /\ y.row.name = x.row.local
Claimed(pairs) == UNION {{Key(p[1]), Key(p[2])} : p \in pairs}

\* A row is paired with the first row of another device that names it back.
PairUp(pairs, x, rows) ==
  LET partners == {y \in rows : Corroborates(x, y) /\ Key(y) \notin Claimed(pairs)}
  IN  IF Key(x) \in Claimed(pairs) \/ partners = {} THEN pairs
      ELSE pairs \cup {<<x, CHOOSE y \in partners :
                             \A z \in partners : Position(y.dev) <= Position(z.dev)>>}
Pairs(answers) ==
  LET rows == UNION {Rows(answers, d) : d \in Devices}
  IN  FoldLeft(LAMBDA pairs, x : PairUp(pairs, x, rows), {}, RowsInOrder(answers))

LagFor(answers, x) ==
  IF x.row.parent # "" THEN x.row.parent
  ELSE IF x.row.local \in DOMAIN answers[x.dev].lags THEN answers[x.dev].lags[x.row.local] ELSE ""
End(answers, x) == [device |-> x.dev, port |-> x.row.local, lag |-> LagFor(answers, x)]
InternalEdges(answers, pairs) ==
  {[kind |-> "internal", ends |-> {End(answers, p[1]), End(answers, p[2])}, via |-> {"lldp"}] : p \in pairs}

LogicalPort(answers, x) ==
  IF x.row.local \in DOMAIN answers[x.dev].lags THEN answers[x.dev].lags[x.row.local] ELSE x.row.local
IpOf(answers, mac) ==
  LET known == {a[2] : a \in {b \in UNION {answers[d].arp : d \in Devices} : b[1] = mac}}
  IN  IF known = {} THEN NoAddress ELSE First(known)

\* Rows that no other device corroborates: grouped by logical port and chassis,
\* then merged where the groups resolve to one address.
Unclaimed(answers, pairs) ==
  LET claimed == Claimed(pairs)
  IN  {x \in UNION {Rows(answers, d) : d \in Devices} : Key(x) \notin claimed}
GroupIp(answers, group) ==
  LET chassis == IpOf(answers, First(group).row.chassis)
      ports == {IpOf(answers, x.row.portId) : x \in group} \ {NoAddress}
  IN  IF chassis # NoAddress \/ ports = {} THEN chassis ELSE First(ports)
Groups(answers, pairs) ==
  LET left == Unclaimed(answers, pairs)
  IN  {{y \in left : /\ y.dev = x.dev /\ LogicalPort(answers, y) = LogicalPort(answers, x)
                     /\ y.row.chassis = x.row.chassis} : x \in left}
OnPort(answers, groups, d, port) ==
  {g \in groups : \E x \in g : x.dev = d /\ LogicalPort(answers, x) = port}
MacsOf(group) == UNION {{x.row.chassis, x.row.portId} : x \in group}
MacsOn(answers, d, port) == {r.mac : r \in {s \in answers[d].mac : s.port = port}}

MergedWith(answers, group, here) ==
  {g \in here : \/ g = group
                \/ GroupIp(answers, group) # NoAddress /\ GroupIp(answers, g) = GroupIp(answers, group)}
External(answers, group, all) ==
  LET d == First(group).dev  port == LogicalPort(answers, First(group))
      here == OnPort(answers, all, d, port)
      merged == MergedWith(answers, group, here)
      shown == UNION {MacsOf(g) : g \in here}
  IN  [kind |-> "external", device |-> d, port |-> port, ip |-> GroupIp(answers, group),
       chassis |-> First(First(merged)).row.chassis, members |-> {y.row.local : y \in UNION merged},
       via |-> {"lldp"} \cup (IF MacsOn(answers, d, port) \cap shown # {} THEN {"mac-table"} ELSE {})]
ExternalEdges(answers, groups) == {External(answers, g, groups) : g \in groups}

\* _mac_table_hosts: a MAC on a port that no cable between devices takes, no
\* corroborated aggregate carries and no LLDP neighbour there explains.
Skipped(answers, pairs, d, port) ==
  \/ <<d, port>> \in Claimed(pairs)
  \/ \E e \in InternalEdges(answers, pairs) : \E end \in e.ends : end.device = d /\ end.lag = port

HasMac(answers, group, mac) == mac \in MacsOf(group)  \* seeded fault: a host's other addresses are drawn again
HasMacOrIp(answers, group, mac) ==
  mac \in MacsOf(group) \/ (IpOf(answers, mac) # NoAddress /\ GroupIp(answers, group) = IpOf(answers, mac))
Explains(answers, group, mac) == HasMacOrIp(answers, group, mac)
Explained(answers, groups, d, row) ==
  \E g \in OnPort(answers, groups, d, row.port) : Explains(answers, g, row.mac)

Unexplained(answers, pairs, groups, d) ==
  {r \in answers[d].mac : ~ Skipped(answers, pairs, d, r.port) /\ ~ Explained(answers, groups, d, r)}
SameHost(answers, rows, r) ==
  {s \in rows : /\ s.port = r.port /\ IpOf(answers, s.mac) = IpOf(answers, r.mac)
                /\ s = r \/ IpOf(answers, r.mac) # NoAddress}
MacTableHost(answers, rows, d, r) ==
  [kind |-> "external", device |-> d, port |-> r.port, ip |-> IpOf(answers, r.mac),
   chassis |-> First(SameHost(answers, rows, r)).mac, members |-> {r.port}, via |-> {"mac-table"}]
MacTableHosts(answers, pairs, groups) ==
  UNION {LET rows == Unexplained(answers, pairs, groups, d)
         IN  {MacTableHost(answers, rows, d, r) : r \in rows} : d \in Devices}

Build(answers) ==
  LET pairs == Pairs(answers)
      groups == Groups(answers, pairs)
  IN  InternalEdges(answers, pairs) \cup ExternalEdges(answers, groups)
        \cup MacTableHosts(answers, pairs, groups)

\* _assign_edge_states: the members known of a local port, from every edge on
\* it, decide the state that each of its edges reports.
Status(status, d, ports) ==
  LET known == {status[<<d, p>>] : p \in {q \in ports : <<d, q>> \in DOMAIN status}}
  IN  IF "Up" \in known THEN "Up" ELSE IF known = {} THEN "" ELSE "Down"
Members(edges, e) ==
  UNION {f.members : f \in {g \in edges : g.kind = "external" /\ g.device = e.device /\ g.port = e.port}}
StateOf(status, edges, e) == Status(status, e.device, Members(edges, e))

\* edge_signature and diff_against_baseline.
Signature(e) ==
  IF "lldp" \notin e.via THEN NoSignature
  ELSE IF e.kind = "internal"
       THEN [kind |-> "internal", ends |-> {<<end.device, end.port>> : end \in e.ends}]
       ELSE [kind |-> "external", device |-> e.device, port |-> e.port, chassis |-> e.chassis]
Live(edges) == {Signature(e) : e \in edges} \ {NoSignature}
Added(edges, known) == Live(edges) \ known
Removed(edges, known) == known \ Live(edges)

-----------------------------------------------------------------------------
(* A crawl: every device in turn, whose commands may fail one by one.      *)

Commands == {"lldp", "mac", "arp", "lags"}
Unasked == [from |-> 0, failed |-> Commands]
Answer(asked, d) ==
  LET n == Networks[asked.from]
      unless(c, answer, default) == IF c \in asked.failed THEN default ELSE answer
  IN  [lldp |-> unless("lldp", n.lldp[d], {}), mac |-> unless("mac", n.mac[d], {}),
       arp |-> unless("arp", n.arp[d], {}), lags |-> unless("lags", n.lags[d], <<>>)]
Answers(asked) == [d \in Devices |-> Answer(asked[d], d)]

Resting == [at |-> "rest", asked |-> [d \in Devices |-> Unasked], left |-> {}, raised |-> FALSE]
Crawling == [Resting EXCEPT !.at = "gather", !.left = Devices]

Init ==
  /\ network = 1 /\ moves = 0 /\ edits = 0 /\ faults = 0
  /\ cache = [asked |-> Resting.asked, status |-> 0, refreshing |-> FALSE]
  /\ baseline = NoBaseline @@ [asked |-> Resting.asked]
  /\ crawl = [c \in Crawlers |-> Resting]
  /\ accepting = [a \in Admins |-> <<>>]

Goes(c, state) == crawl' = [crawl EXCEPT ![c] = state]

\* _refresh_topology_cache: one crawl into the cache at a time.
StartCrawl(c) ==
  /\ c \notin Admins /\ crawl[c] = Resting /\ ~ cache.refreshing
  /\ cache' = [cache EXCEPT !.refreshing = TRUE]
  /\ Goes(c, Crawling)
  /\ UNCHANGED <<network, moves, edits, faults, baseline, accepting>>

\* A crawl in progress is not doubled up.
Refused(c) ==
  /\ c \notin Admins /\ crawl[c] = Resting /\ cache.refreshing
  /\ UNCHANGED topoVars

Gather(c) == \E d \in crawl[c].left :
  /\ \A e \in crawl[c].left : Position(d) <= Position(e)
  /\ \E failed \in {{}} \cup (IF faults < MaxFaults THEN {{"lldp"}, {"mac"}, Commands} ELSE {}) :
       /\ faults' = IF failed = {} THEN faults ELSE faults + 1
       /\ Goes(c, [crawl[c] EXCEPT !.left = @ \ {d},
                     !.asked[d] = [from |-> network, failed |-> failed]])
  /\ UNCHANGED <<network, moves, edits, cache, baseline, accepting>>

\* The result in the cache: the graph of the answers, with the states that the
\* status poller had when it was built.
HasResult == cache.status # 0
Edges == IF HasResult THEN Build(Answers(cache.asked)) ELSE {}

Gathered(c) == crawl[c].at = "gather" /\ crawl[c].left = {}

Publish(c) ==
  /\ c \notin Admins /\ Gathered(c)
  /\ cache' = [cache EXCEPT !.asked = crawl[c].asked, !.status = network]
  /\ Goes(c, [Resting EXCEPT !.at = "finally"])
  /\ UNCHANGED <<network, moves, edits, faults, baseline, accepting>>

\* Building the graph raises.
Raises(c) ==
  /\ c \notin Admins /\ Gathered(c)
  /\ faults < MaxFaults /\ faults' = faults + 1
  /\ Goes(c, [Resting EXCEPT !.at = "finally", !.raised = TRUE])
  /\ UNCHANGED <<network, moves, edits, cache, baseline, accepting>>

WithoutFinally(raised) == raised  \* seeded fault: the flag is reset on success alone
Released(raised) == FALSE
Finally(c) ==
  /\ crawl[c].at = "finally"
  /\ cache' = [cache EXCEPT !.refreshing = Released(crawl[c].raised)]
  /\ Goes(c, Resting)
  /\ UNCHANGED <<network, moves, edits, faults, baseline, accepting>>

-----------------------------------------------------------------------------
(* The baseline: relearned from a crawl of its own, accepted drift by      *)
(* drift, or cleared.                                                      *)

Edit == edits < MaxEdits /\ edits' = edits + 1
Saved(edges, asked) == baseline' = [edges |-> edges, known |-> TRUE, asked |-> asked]

StartRelearn(a) ==
  /\ crawl[a] = Resting /\ accepting[a] = <<>> /\ Edit
  /\ Goes(a, Crawling)
  /\ UNCHANGED <<network, moves, faults, cache, baseline, accepting>>

SaveLearned(a) ==
  /\ a \in Admins /\ Gathered(a)
  /\ Saved({Signature(e) : e \in Build(Answers(crawl[a].asked))}, crawl[a].asked)
  /\ Goes(a, Resting)
  /\ UNCHANGED <<network, moves, edits, faults, cache, accepting>>

\* accept reads the baseline, changes what it read, and writes it all back.
ReadForAccept(a) ==
  /\ crawl[a] = Resting /\ accepting[a] = <<>> /\ Edit
  /\ \E s \in Added(Edges, baseline.edges) \cup Removed(Edges, baseline.edges) :
       accepting' = [accepting EXCEPT ![a] = <<
         IF s \in baseline.edges THEN baseline.edges \ {s} ELSE baseline.edges \cup {s}>>]
  /\ UNCHANGED <<network, moves, faults, cache, baseline, crawl>>

SaveAccepted(a) ==
  /\ accepting[a] # <<>>
  /\ Saved(accepting[a][1], Resting.asked)
  /\ accepting' = [accepting EXCEPT ![a] = <<>>]
  /\ UNCHANGED <<network, moves, edits, faults, cache, crawl>>

Clear(a) ==
  /\ crawl[a] = Resting /\ accepting[a] = <<>> /\ Edit
  /\ baseline' = NoBaseline @@ [asked |-> Resting.asked]
  /\ UNCHANGED <<network, moves, faults, cache, crawl, accepting>>

Move ==
  /\ moves < MaxMoves /\ moves' = moves + 1
  /\ \E n \in DOMAIN Networks \ {network} : network' = n
  /\ UNCHANGED <<edits, faults, cache, baseline, crawl, accepting>>

CrawlStep(c) == Gather(c) \/ Publish(c) \/ Raises(c) \/ Finally(c)
Next ==
  \/ Move
  \/ \E c \in Crawlers : StartCrawl(c) \/ Refused(c) \/ CrawlStep(c)
  \/ \E a \in Admins : StartRelearn(a) \/ SaveLearned(a) \/ ReadForAccept(a) \/ SaveAccepted(a) \/ Clear(a)

\* The refresh loop comes round every minute, whoever else refreshes; every
\* command is answered or times out.
TopologyFairness ==
  /\ WF_topoVars(StartCrawl(Loop))
  /\ \A c \in Crawlers : WF_topoVars(CrawlStep(c))

Spec == Init /\ [][Next]_topoVars /\ TopologyFairness

-----------------------------------------------------------------------------
TypeOK ==
  /\ network \in DOMAIN Networks
  /\ moves \in 0..MaxMoves /\ edits \in 0..MaxEdits /\ faults \in 0..MaxFaults
  /\ \A c \in Crawlers : crawl[c].at \in {"rest", "gather", "finally"} /\ crawl[c].left \subseteq Devices
  /\ HasResult => cache.status \in DOMAIN Networks

\* Which host a MAC row stands for, by address where ARP knows one.
StandsFor(answers, groups, d, row, e) ==
  /\ e.kind = "external" /\ e.device = d /\ e.port = row.port
  /\ \/ e.chassis = row.mac
     \/ e.ip # NoAddress /\ e.ip = IpOf(answers, row.mac)
     \/ \E g \in OnPort(answers, groups, d, row.port) :
          row.mac \in MacsOf(g) /\ e = External(answers, g, groups)

\* LLDP does not show the MAC as two hosts: under another address than ARP has
\* for it, or under two chassis that are not one address.
OneHost(answers, groups, d, row) ==
  LET ip(g) == GroupIp(answers, g)
      theirs == IpOf(answers, row.mac)
  IN  \A g, h \in {k \in OnPort(answers, groups, d, row.port) :
                     row.mac \in MacsOf(k) \/ (theirs # NoAddress /\ ip(k) = theirs)} :
        /\ theirs # NoAddress => ip(g) = theirs
        /\ g = h \/ (ip(g) # NoAddress /\ ip(g) = ip(h))

\* Every address a switch has learned on a port that leads to no other switch,
\* and that LLDP does not show as two hosts, is drawn, and drawn once
\* (_mac_table_hosts, topology.py:87-121): LLDP and the MAC table together
\* neither hide a host nor show it twice.
DrawnOnce ==
  LET answers == Answers(cache.asked)
      pairs == Pairs(answers)
      groups == Groups(answers, pairs)
      edges == Edges
  IN  HasResult => \A d \in Devices : \A row \in answers[d].mac :
        ~ Skipped(answers, pairs, d, row.port) /\ OneHost(answers, groups, d, row)
          => Cardinality({e \in edges : StandsFor(answers, groups, d, row, e)}) = 1

\* The edges of one local port report one state, and an aggregate with a
\* member that is up is up (app.py:3018-3024).
EdgesOfAPortAgree ==
  LET edges == Edges
      state(e) == StateOf(Networks[cache.status].status, edges, e)
  IN  \A e, f \in {x \in edges : x.kind = "external"} :
        e.device = f.device /\ e.port = f.port => state(e) = state(f)

\* The cache comes to show the wiring there is, whichever crawls failed or
\* raised before (_refresh_topology_cache).
CacheCatchesUp ==
  <>[](cache.asked = [d \in Devices |-> [from |-> network, failed |-> {}]])
=============================================================================
