-------------------------------- MODULE Traffic --------------------------------
(***************************************************************************)
(* The flow views: rows the collector writes, a page that resolves one     *)
(* window and then asks its panels one query at a time, a drill-down from  *)
(* one of its port rows, and the names of the ports, read off every switch *)
(* now and then, kept in a table and copied into a cache all pages share.  *)
(*                                                                         *)
(* The collector stamps a row with the start of its interval and writes it *)
(* later, so rows land in windows that are already being shown.  One flow  *)
(* store; packets are counted as bytes are, a query that fails ends its    *)
(* page, and names from DNS are DnsCache's.                                *)
(***************************************************************************)
EXTENDS Integers, FiniteSets, FiniteSetsExt

CONSTANTS
  Devices,     \* switches whose maps can be read; a device is its agent address
  Platform,    \* of every device
  Flows,       \* what the collector can write: [agent, in, out, src, dst, service, bytes]
  Answers,     \* what a device can answer: sets of <<ifIndex, port>>, one port each
  Arithmetic,  \* the Dell OS9 decoding: a set of <<ifIndex, port>>
  Requests,    \* pages being built
  Searches,    \* what is typed into the search box; "" is nothing
  Minutes,     \* the window asked for, back from now
  Ranges,      \* the windows asked for by their [start, end]
  Widest,      \* of any window (SFLOW_MAX_SPAN_DAYS)
  Limit,       \* rows of a ranked panel
  Ceiling,     \* where a byte count stops (CAPPED_BYTES)
  MaxTime, MaxRows, MaxFaults  \* bounds

VARIABLES
  clock,       \* of the database
  flows,       \* the table of rows: flow, id and stamp
  answer,      \* per device: what it would answer now
  table,       \* sflow_ifindex: a set of <<device, ifIndex, port>>
  cache,       \* _SFLOW_IFINDEX_CACHE: per device a set of <<ifIndex, port>>
  refresher,   \* the thread that reads the maps: where it is, for whom, what it has still to write
  page,        \* per request: where it stands and what its panels showed
  faults

trafficVars == <<clock, flows, answer, table, cache, refresher, page, faults>>

Unasked == [at |-> "new", start |-> 0, end |-> 0, q |-> "none", ifaces |-> {}, loaded |-> {},
            capped |-> 0, talkers |-> 0, hosts |-> 0, mix |-> 0, ports |-> {}, totals |-> 0, series |-> 0, detail |-> 0]
Asleep == [at |-> "asleep", left |-> {}, device |-> "none", rows |-> {}]

\* The window is one minute at least, and the first one ends where the run begins.
TrafficAssumption ==
  /\ Minutes \in Nat \ {0} /\ MaxTime \in Nat /\ Minutes <= MaxTime
  /\ MaxRows \in Nat /\ MaxFaults \in Nat
  /\ Limit \in Nat /\ Ceiling \in Nat /\ \A f \in Flows : f.bytes \in Nat

Init ==
  /\ clock = Minutes /\ flows = {} /\ faults = 0
  /\ answer \in [Devices -> Answers]
  /\ table = {} /\ cache = [d \in Devices |-> {}]
  /\ refresher = Asleep
  /\ page = [r \in Requests |-> Unasked]

-----------------------------------------------------------------------------
(* The world: time, the collector, the switches.                           *)

Tick ==
  /\ clock < MaxTime /\ clock' = clock + 1
  /\ UNCHANGED <<flows, answer, table, cache, refresher, page, faults>>

Land == \E f \in Flows, stamp \in {clock - 1, clock} :
  /\ Cardinality(flows) < MaxRows
  /\ flows' = flows \cup {[flow |-> f, stamp |-> stamp, id |-> Cardinality(flows) + 1]}
  /\ UNCHANGED <<clock, answer, table, cache, refresher, page, faults>>

\* An interface comes, goes, or its index is reused.
Recabled == \E d \in Devices, a \in Answers :
  /\ faults < MaxFaults /\ faults' = faults + 1
  /\ answer[d] # a /\ answer' = [answer EXCEPT ![d] = a]
  /\ UNCHANGED <<clock, flows, table, cache, refresher, page>>

-----------------------------------------------------------------------------
(* Reading the maps, one device after the other; every statement commits.  *)

Refreshing(new) ==
  /\ refresher' = new
  /\ UNCHANGED <<clock, flows, answer, cache, page>>

Wake ==
  /\ refresher.at = "asleep"
  /\ Refreshing([Asleep EXCEPT !.at = "next", !.left = Devices])
  /\ UNCHANGED <<table, faults>>

\* An empty parse and an error leave the device for the next time.
Discover == \E d \in refresher.left, read \in BOOLEAN :
  /\ refresher.at = "next"
  /\ read \/ faults < MaxFaults
  /\ faults' = IF read THEN faults ELSE faults + 1
  /\ Refreshing([refresher EXCEPT !.left = @ \ {d}, !.at = IF read THEN "delete" ELSE "next",
                                  !.device = IF read THEN d ELSE "none",
                                  !.rows = IF read THEN answer[d] ELSE {}])
  /\ UNCHANGED table

OfDevice(d) == {row \in table : row[1] = d}
DeleteMap ==
  /\ refresher.at = "delete"
  /\ table' = table \ OfDevice(refresher.device)
  /\ Refreshing([refresher EXCEPT !.at = "insert"])
  /\ UNCHANGED faults

InsertRow == \E row \in refresher.rows :
  LET d == refresher.device
  IN  /\ refresher.at = "insert"
      /\ table' = {t \in table : t[1] # d \/ t[2] # row[1]} \cup {<<d, row[1], row[2]>>}
      /\ Refreshing([refresher EXCEPT !.rows = @ \ {row}])
      /\ UNCHANGED faults

SaveFails ==
  /\ refresher.at \in {"delete", "insert"} /\ refresher.rows # {}
  /\ faults < MaxFaults /\ faults' = faults + 1
  /\ Refreshing([refresher EXCEPT !.at = "next", !.device = "none", !.rows = {}])
  /\ UNCHANGED table

NextDevice ==
  /\ refresher.at = "insert" /\ refresher.rows = {}
  /\ Refreshing([refresher EXCEPT !.at = "next", !.device = "none"])
  /\ UNCHANGED <<table, faults>>

Sleep ==
  /\ refresher.at = "next" /\ refresher.left = {}
  /\ Refreshing(Asleep)
  /\ UNCHANGED <<table, faults>>

-----------------------------------------------------------------------------
(* The views, over the rows a page's window and search leave.              *)

\* seeded fault: every query anchors its own window
WindowedNow(p) == {f \in flows : clock - Minutes < f.stamp /\ f.stamp <= clock}
InWindow(p) == {f \in flows : p.start < f.stamp /\ f.stamp <= p.end}

Matches(f, p) ==
  \/ p.q = ""
  \/ p.q \in {f.flow.src, f.flow.dst, f.flow.agent, f.flow.service}
  \/ {f.flow.in, f.flow.out} \cap p.ifaces # {}
Rows(p) == {f \in InWindow(p) : Matches(f, p)}

BytesOf(rows) == SumFunctionOnSet([f \in flows |-> f.flow.bytes], rows)
\* The first Limit groups by bytes: the best sum that many groups make.
Ranked(sizes) ==
  IF Cardinality(DOMAIN sizes) <= Limit THEN SumFunction(sizes)
  ELSE Max({SumFunctionOnSet(sizes, s) : s \in kSubset(Limit, DOMAIN sizes)})
Grouped(rows, key(_)) == [k \in {key(f) : f \in rows} |-> BytesOf({f \in rows : key(f) = k})]

Talkers(p) == Ranked(Grouped(Rows(p), LAMBDA f : <<f.flow.src, f.flow.dst>>))

\* A host in both directions; an address that is searched for is itself the answer.
IsAddress(q) == \E f \in Flows : q \in {f.src, f.dst}
Hosts(p) ==
  LET named == {h \in UNION {{f.flow.src, f.flow.dst} : f \in Rows(p)} : IsAddress(p.q) => h = p.q}
      moved(h) == BytesOf({f \in Rows(p) : f.flow.src = h}) + BytesOf({f \in Rows(p) : f.flow.dst = h})
  IN  Ranked([h \in named |-> moved(h)])

Mix(p) == Ranked(Grouped(Rows(p), LAMBDA f : f.flow.service))

\* The switch's own answer, then the arithmetic of its platform, then nothing;
\* nothing at all for an agent that is not a device.
Named(agent, iface) ==
  LET known == {row[2] : row \in {r \in UNION {cache[d] : d \in Devices \cap {agent}} : r[1] = iface}}
      inferred == {row[2] : row \in {r \in Arithmetic : r[1] = iface /\ agent \in Devices /\ Platform[agent] = "os9"}}
  IN  IF known # {} THEN known ELSE inferred

\* An index means something on the switch that gave it, and only there.
OnPort(f, d, iface) == f.flow.agent = d /\ iface \in {f.flow.in, f.flow.out}
Ports(p) ==
  {[agent |-> key[1], iface |-> key[2], names |-> Named(key[1], key[2]),
    in  |-> BytesOf({f \in Rows(p) : OnPort(f, key[1], key[2]) /\ f.flow.in = key[2]}),
    out |-> BytesOf({f \in Rows(p) : OnPort(f, key[1], key[2]) /\ f.flow.out = key[2]})] :
     key \in UNION {{<<f.flow.agent, f.flow.in>>, <<f.flow.agent, f.flow.out>>} : f \in Rows(p)}}

Agents(p) == {f.flow.agent : f \in InWindow(p)}
Series(p) == SumFunction([d \in Agents(p) |-> BytesOf({f \in Rows(p) : f.flow.agent = d})])
Totals(p) == BytesOf(Rows(p))
Capped(p) == Cardinality({f \in Rows(p) : f.flow.bytes > Ceiling})
PortDetail(p, port) == BytesOf({f \in InWindow(p) : OnPort(f, port.agent, port.iface)})

-----------------------------------------------------------------------------
(* A page.                                                                 *)

Paging(r, at, new) ==
  /\ page[r].at = at
  /\ page' = [page EXCEPT ![r] = new]
  /\ UNCHANGED <<clock, flows, answer, table, refresher, faults>>

\* One window, of the database's clock; one that is too wide keeps its end.
Clamped(w) == IF w.end - w.start > Widest THEN w.end - Widest ELSE w.start

Open(r) == \E q \in Searches, w \in {[start |-> clock - Minutes, end |-> clock]} \cup Ranges :
  /\ Paging(r, "new", [Unasked EXCEPT !.at = "clear", !.start = Clamped(w), !.end = w.end, !.q = q])
  /\ UNCHANGED cache

Clear(r) ==
  /\ Paging(r, "clear", [page[r] EXCEPT !.at = "load"])
  /\ cache' = [d \in Devices |-> {}]

Load(r) ==
  /\ Paging(r, "load", [page[r] EXCEPT !.at = "fill", !.loaded = table])
  /\ UNCHANGED cache

Fill(r) ==
  LET found(d) == {<<row[2], row[3]>> : row \in {t \in page[r].loaded : t[1] = d}}
  IN  /\ Paging(r, "fill", [page[r] EXCEPT !.at = "search"])
      /\ cache' = [d \in Devices |-> IF found(d) # {} THEN found(d) ELSE cache[d]]

Found(q) == {row[1] : row \in {t \in UNION {cache[d] : d \in Devices} : t[2] = q}}
Search(r) ==
  /\ Paging(r, "search", [page[r] EXCEPT !.at = "capped", !.ifaces = Found(page[r].q), !.loaded = {}])
  /\ UNCHANGED cache

ShowCapped(r)  == Paging(r, "capped", [page[r] EXCEPT !.at = "talkers", !.capped = Capped(page[r])]) /\ UNCHANGED cache
ShowTalkers(r) == Paging(r, "talkers", [page[r] EXCEPT !.at = "hosts", !.talkers = Talkers(page[r])]) /\ UNCHANGED cache
ShowHosts(r)   == Paging(r, "hosts", [page[r] EXCEPT !.at = "mix", !.hosts = Hosts(page[r])]) /\ UNCHANGED cache
ShowMix(r)     == Paging(r, "mix", [page[r] EXCEPT !.at = "ports", !.mix = Mix(page[r])]) /\ UNCHANGED cache
ShowPorts(r)   == Paging(r, "ports", [page[r] EXCEPT !.at = "totals", !.ports = Ports(page[r])]) /\ UNCHANGED cache
ShowTotals(r)  == Paging(r, "totals", [page[r] EXCEPT !.at = "series", !.totals = Totals(page[r])]) /\ UNCHANGED cache
ShowSeries(r)  == Paging(r, "series", [page[r] EXCEPT !.at = "shown", !.series = Series(page[r])]) /\ UNCHANGED cache

\* A click on one of its ports: the same window, no search.
Drill(r) == \E port \in page[r].ports :
  /\ Paging(r, "shown", [page[r] EXCEPT !.at = "drilled", !.ports = {port}, !.detail = PortDetail(page[r], port)])
  /\ UNCHANGED cache

PageStep(r) ==
  \/ Open(r) \/ Clear(r) \/ Load(r) \/ Fill(r) \/ Search(r)
  \/ ShowCapped(r) \/ ShowTalkers(r) \/ ShowHosts(r) \/ ShowMix(r) \/ ShowPorts(r) \/ ShowTotals(r) \/ ShowSeries(r) \/ Drill(r)

RefreshStep == Wake \/ Discover \/ DeleteMap \/ InsertRow \/ SaveFails \/ NextDevice \/ Sleep

Next == Tick \/ Land \/ Recabled \/ RefreshStep \/ \E r \in Requests : PageStep(r)

Spec == Init /\ [][Next]_trafficVars

-----------------------------------------------------------------------------
TypeOK ==
  /\ clock \in Minutes..MaxTime /\ faults \in 0..MaxFaults
  /\ \A f \in flows : f.flow \in Flows /\ f.stamp \in 0..clock /\ f.id \in 1..MaxRows
  /\ \A row \in table : row[1] \in Devices
  /\ \A d \in Devices : \A row, other \in cache[d] : row[1] = other[1] => row = other
  /\ refresher.at \in {"asleep", "next", "delete", "insert"} /\ refresher.left \subseteq Devices

\* The panels of one page count one window: what a later query counts, an
\* earlier one had not counted more of, however long the page took to build
\* (resolve_window: resolved once per request and handed to every view).
PanelsAgree == \A r \in Requests :
  LET p == page[r]
  IN  /\ p.at \in {"series", "shown"} => p.talkers <= p.totals /\ p.mix <= p.totals /\ p.hosts <= 2 * p.totals
                                    /\ (p.capped > 0 => p.totals > p.capped * Ceiling)
      /\ p.at = "shown" => p.totals <= p.series
      /\ p.at = "drilled" => \A port \in p.ports : port.in <= p.detail /\ port.out <= p.detail

=============================================================================
