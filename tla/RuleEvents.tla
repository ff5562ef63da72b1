------------------------------- MODULE RuleEvents -------------------------------
(***************************************************************************)
(* The syslog rules of a site and the events they raise.  Detectors and    *)
(* the timer thread take the enabled rules from a cache that lives a few   *)
(* seconds; an operator edits the table, drops the cache and closes the    *)
(* events of a rule that is no longer enabled.                             *)
(*                                                                         *)
(* A line is the verdict one rule has on it: it fires or it clears.  A     *)
(* reader's copy of the table carries how long ago it stopped being what   *)
(* the table holds.  One device, and no interfaces.                        *)
(***************************************************************************)
EXTENDS Naturals, FiniteSets

CONSTANTS
  Detectors,  \* threads that run the detectors over lines
  Operators,  \* request threads that edit the rules
  Names,      \* names an operator gives a rule
  MaxRules,   \* bound: rows ever created
  TTL,        \* _cached_list's ttl
  MaxEdits,   \* bound: edits and connections to the database
  MaxLines    \* bound: lines that a rule fires or clears on

RuleAssumption == MaxRules \in Nat \ {0} /\ TTL \in Nat /\ MaxEdits \in Nat /\ MaxLines \in Nat

VARIABLES
  rules,     \* syslog_alert_rules: per id a row, Absent or Deleted
  edits,     \* edits and connections so far
  lines,     \* lines so far
  cache,     \* _LIST_CACHE["syslog_rules"]: a copy of the table and its age, or NoCopy
  reader,    \* per thread that reads the rules: how far it is
  operator,  \* per operator: what is left of the request
  open,      \* open syslog.rule events: the rule's id, and the name it had
  due        \* open events that have not matched for the rule's auto_resolve_seconds

ruleVars == <<rules, edits, lines, cache, reader, operator, open, due>>

Ids == 1..MaxRules
Timers == "timers"
Readers == Detectors \cup {Timers}
Absent == [name |-> "none", enabled |-> FALSE, timed |-> FALSE]
Deleted == [Absent EXCEPT !.name = "deleted"]
IsRow(rule) == rule \notin {Absent, Deleted}
DEFAULT_RULE == [name |-> "duplicate-ip", enabled |-> FALSE, timed |-> TRUE]
Enabled(table) == {i \in Ids : table[i].enabled}
EnabledOnly == [i \in Ids |-> IF rules[i].enabled THEN rules[i] ELSE Absent]

Capped(n) == IF n > TTL THEN TTL ELSE n
NoCopy == [list |-> <<>>, age |-> 0]
Waiting == [at |-> "idle", copy |-> NoCopy]
Using(copy) == [at |-> "use", copy |-> [NoCopy EXCEPT !.list = copy.list]]
Done == [todo |-> {}, rule |-> 0]

Seeded(table) ==
  IF \E i \in Ids : IsRow(table[i]) THEN table
  ELSE [table EXCEPT ![CHOOSE i \in Ids : table[i] = Absent
                          /\ \A j \in Ids : table[j] = Absent => i <= j] = DEFAULT_RULE]

Init ==
  /\ rules = Seeded([i \in Ids |-> Absent]) /\ edits = 0 /\ lines = 0
  /\ cache = NoCopy
  /\ reader = [t \in Readers |-> Waiting]
  /\ operator = [o \in Operators |-> Done]
  /\ open = {} /\ due = {}

-----------------------------------------------------------------------------
(* _cached_list: the time is taken first, then the table is read, then the *)
(* copy is stored for everyone.                                            *)

Reads(t, state) ==
  /\ reader' = [reader EXCEPT ![t] = state]
  /\ UNCHANGED <<rules, edits, operator>>

\* Seeded fault: a copy stays in use until somebody pops it.
IsThere == cache # NoCopy
IsFresh == cache # NoCopy /\ cache.age < TTL

Take(t) ==
  /\ reader[t].at = "idle"
  /\ Reads(t, IF IsFresh THEN Using(cache) ELSE [at |-> "query", copy |-> NoCopy])
  /\ UNCHANGED <<lines, cache, open, due>>

QueryRules(t) ==
  /\ reader[t].at = "query"
  /\ Reads(t, [at |-> "store", copy |-> [list |-> EnabledOnly, age |-> reader[t].copy.age]])
  /\ UNCHANGED <<lines, cache, open, due>>

Store(t) ==
  /\ reader[t].at = "store"
  /\ cache' = reader[t].copy
  /\ Reads(t, Using(reader[t].copy))
  /\ UNCHANGED <<lines, open, due>>

\* A line: a rule of the copy fires, which opens its event or reports it
\* again, or clears, which ends the event of the rule's name.
Evaluate(t) ==
  /\ t \in Detectors /\ reader[t].at = "use" /\ lines < MaxLines
  /\ \E i \in Enabled(reader[t].copy.list) :
       LET event == [rule |-> i, name |-> reader[t].copy.list[i].name]
       IN  \/ open' = open \cup {event} /\ due' = due \ {event}
           \/ open' = {e \in open : e.name # event.name} /\ due' = due \cap open'
  /\ lines' = lines + 1
  /\ Reads(t, Waiting) /\ UNCHANGED cache

NoRuleMatches(t) ==
  /\ t \in Detectors /\ reader[t].at = "use"
  /\ Reads(t, Waiting) /\ UNCHANGED <<lines, cache, open, due>>

Expires(table, e) == \E i \in Enabled(table) : table[i].timed /\ e.rule = i

ExpireRules ==
  /\ reader[Timers].at = "use"
  /\ open' = open \ {e \in due : Expires(reader[Timers].copy.list, e)}
  /\ due' = due \cap open'
  /\ Reads(Timers, Waiting) /\ UNCHANGED <<lines, cache>>

-----------------------------------------------------------------------------
(* The rules page: the row, then the cache, then the events.               *)

Edits(table) ==
  /\ edits < MaxEdits /\ edits' = edits + 1
  /\ rules' = table
  /\ UNCHANGED <<lines, cache, reader, open, due>>

Request(o, todo, i) ==
  /\ operator[o] = Done
  /\ operator' = [operator EXCEPT ![o] = [todo |-> todo, rule |-> i]]

Create(o) == \E i \in Ids, n \in Names, timed \in BOOLEAN :
  /\ rules[i] = Absent /\ \A j \in Ids : rules[j] = Absent => i <= j
  /\ Request(o, {"pop"}, i)
  /\ Edits([rules EXCEPT ![i] = [name |-> n, enabled |-> TRUE, timed |-> timed]])

\* An update of a rule that stays enabled leaves its events as they are.
Update(o) == \E i \in Ids, enabled \in BOOLEAN : \E n \in Names \cup {rules[i].name} :
  /\ IsRow(rules[i])
  /\ Request(o, IF enabled THEN {"pop"} ELSE {"pop", "resolve"}, i)
  /\ Edits([rules EXCEPT ![i].name = n, ![i].enabled = enabled])

Delete(o) == \E i \in Ids :
  /\ IsRow(rules[i])
  /\ Request(o, {"pop", "resolve"}, i)
  /\ Edits([rules EXCEPT ![i] = Deleted])

PopCache(o) ==
  /\ "pop" \in operator[o].todo
  /\ cache' = NoCopy
  /\ operator' = [operator EXCEPT ![o].todo = @ \ {"pop"}]
  /\ UNCHANGED <<rules, edits, lines, reader, open, due>>

ResolveOpen(o) ==
  /\ operator[o].todo = {"resolve"}
  /\ open' = {e \in open : e.rule # operator[o].rule}
  /\ due' = due \cap open'
  /\ operator' = [operator EXCEPT ![o] = Done]
  /\ UNCHANGED <<rules, edits, lines, cache, reader>>

Answer(o) ==
  /\ operator[o].todo = {} /\ operator[o] # Done
  /\ operator' = [operator EXCEPT ![o] = Done]
  /\ UNCHANGED <<rules, edits, lines, cache, reader, open, due>>

\* _load_database, at boot and on every save of the settings: the cache goes
\* and an empty table gets the default rules.
Connect ==
  /\ \E i \in Ids : rules[i] = Absent \/ IsRow(rules[i])
  /\ edits < MaxEdits /\ edits' = edits + 1
  /\ cache' = NoCopy
  /\ rules' = Seeded(rules)
  /\ UNCHANGED <<lines, reader, operator, open, due>>

\* Time: a copy ages, from when its query began; an open event comes due.
Older(copy) == [copy EXCEPT !.age = Capped(@ + 1)]
Tick ==
  /\ cache' = IF cache = NoCopy THEN cache ELSE Older(cache)
  /\ reader' = [t \in Readers |-> IF reader[t].at \in {"query", "store"}
                                   THEN [reader[t] EXCEPT !.copy = Older(@)] ELSE reader[t]]
  /\ due' = open
  /\ UNCHANGED <<rules, edits, lines, operator, open>>

ReaderStep(t) ==
  Take(t) \/ QueryRules(t) \/ Store(t) \/ Evaluate(t) \/ NoRuleMatches(t) \/ (t = Timers /\ ExpireRules)
OperatorStep(o) == PopCache(o) \/ ResolveOpen(o) \/ Answer(o)
Next ==
  \/ \E t \in Readers : ReaderStep(t)
  \/ \E o \in Operators : Create(o) \/ Update(o) \/ Delete(o) \/ OperatorStep(o)
  \/ Connect \/ Tick

\* The timer thread runs every ten seconds, and requests end.
RuleFairness ==
  /\ WF_ruleVars(Tick) /\ WF_ruleVars(ReaderStep(Timers))
  /\ \A o \in Operators : WF_ruleVars(OperatorStep(o))

Spec == Init /\ [][Next]_ruleVars /\ RuleFairness

-----------------------------------------------------------------------------
TypeOK ==
  /\ \A i \in Ids : rules[i].name \in Names \cup {"none", "deleted", DEFAULT_RULE.name}
  /\ edits \in 0..MaxEdits /\ lines \in 0..MaxLines
  /\ \A t \in Readers : reader[t].at \in {"idle", "query", "store", "use"}
  /\ \A o \in Operators : operator[o].todo \subseteq {"pop", "resolve"}
  /\ due \subseteq open /\ \A e \in open : e.rule \in Ids

\* The timer closes what a rule with an auto-resolve time has opened once the
\* lines stop, under whatever name the rule has had since (expire_rules).
TimedEventsEnd == \A i \in Ids :
  <>[](rules[i].enabled /\ rules[i].timed) => <>[](\A e \in open : e.rule # i)
=============================================================================
