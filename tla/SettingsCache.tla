----------------------------- MODULE SettingsCache -----------------------------
(***************************************************************************)
(* The settings of the event kinds and of the ports: rows in the database, *)
(* one cache in front of them that the detectors read for every line and   *)
(* every poll, operators that change a row through it.  Nothing is locked: *)
(* a look is a check, a query, a fill and a read of the cache, and each is *)
(* a step of its own.                                                      *)
(*                                                                         *)
(* One row: a severity and the thresholds, here one value.  A row that is  *)
(* not there is the catalogue's default.  entry() looks a second time, to  *)
(* tell whether there is an override: that look is any other reader's.     *)
(***************************************************************************)
EXTENDS Naturals, FiniteSets

CONSTANTS
  Readers,    \* threads that only look
  Operators,  \* requests that change the row
  Severities, Thresholds,
  Default,    \* of the catalogue: [severity, params]
  TTL,        \* how long a fill is believed
  MaxEdits    \* bound

SettingsAssumption == TTL \in Nat /\ MaxEdits \in Nat /\ Default \in [severity : Severities, params : Thresholds]

VARIABLES
  keeper,   \* EventSettings ("kinds") or PortSettings ("ports")
  row,      \* the database
  cache,    \* Empty or the row it was filled with
  age,      \* of the cache; past TTL it is not used
  caller,   \* per thread: where it is, the row it has in hand, what it was asked
  seen,     \* per reader: what its last look returned
  edits

settingsCacheVars == <<keeper, row, cache, age, caller, seen, edits>>

Rows == [severity : Severities, params : Thresholds]
Callers == Readers \cup Operators
Empty == [severity |-> "none", params |-> "none"]
Unchanged == Empty  \* asked: a field that is "none" is not to change
Idle == [at |-> "idle", hand |-> Empty, asked |-> Unchanged]

Init ==
  /\ keeper \in {"kinds", "ports"}
  /\ row = Default /\ cache = Empty /\ age = 0
  /\ caller = [c \in Callers |-> Idle]
  /\ seen = [r \in Readers |-> Default]
  /\ edits = 0

Tick ==
  /\ age <= TTL /\ age' = age + 1
  /\ UNCHANGED <<keeper, row, cache, caller, seen, edits>>

Moves(c, from, new) ==
  /\ caller[c].at = from
  /\ caller' = [caller EXCEPT ![c] = new]
  /\ UNCHANGED <<keeper, edits>>

-----------------------------------------------------------------------------
(* A look.                                                                 *)

AgeSlid(fresh) == IF fresh THEN 0 ELSE age  \* seeded fault: every use renews the cache
AgeAfter(fresh) == age

Check(c) ==
  LET fresh == cache # Empty /\ age <= TTL
  IN  /\ Moves(c, "check", [caller[c] EXCEPT !.at = IF fresh THEN "take" ELSE "query"])
      /\ age' = AgeAfter(fresh)
      /\ UNCHANGED <<row, cache, seen>>

Query(c) ==
  /\ Moves(c, "query", [caller[c] EXCEPT !.at = "fill", !.hand = row])
  /\ UNCHANGED <<row, cache, age, seen>>

Fill(c) ==
  /\ Moves(c, "fill", [caller[c] EXCEPT !.at = "take"])
  /\ cache' = caller[c].hand /\ age' = 0
  /\ UNCHANGED <<row, seen>>

\* The cache as it is now; emptied meanwhile, the caller gets nothing and fails.
TakenAsIs == FALSE  \* seeded fault: an emptied cache passes for rows
Emptied == cache = Empty

Take(c) ==
  /\ Moves(c, "take", IF Emptied \/ c \in Readers \/ caller[c].asked = Unchanged
                         THEN Idle ELSE [caller[c] EXCEPT !.at = "write", !.hand = cache])
  /\ seen' = IF c \in Readers /\ ~ Emptied THEN [seen EXCEPT ![c] = cache] ELSE seen
  /\ UNCHANGED <<row, cache, age>>

Look(c) == Check(c) \/ Query(c) \/ Fill(c) \/ Take(c)

Read(r) ==
  /\ Moves(r, "idle", [Idle EXCEPT !.at = "check"])
  /\ UNCHANGED <<row, cache, age, seen>>

-----------------------------------------------------------------------------
(* A change: of a kind, the fields not asked for as a look has them; of a  *)
(* port, without a look.                                                   *)

Asked == {[severity |-> s, params |-> p] : s \in Severities \cup {"none"}, p \in Thresholds \cup {"none"}} \ {Unchanged}

Set(o) == \E a \in Asked :
  /\ edits < MaxEdits /\ edits' = edits + 1
  /\ keeper = "ports" => a.severity # "none" /\ a.params = Default.params
  /\ caller[o] = Idle
  /\ caller' = [caller EXCEPT ![o] = [Idle EXCEPT !.at = IF keeper = "kinds" THEN "check" ELSE "write", !.asked = a]]
  /\ UNCHANGED <<keeper, row, cache, age, seen>>

\* Back to the default: the row is deleted.
Reset(o) ==
  /\ edits < MaxEdits /\ edits' = edits + 1
  /\ caller[o] = Idle
  /\ caller' = [caller EXCEPT ![o] = [Idle EXCEPT !.at = "write", !.asked = Default]]
  /\ UNCHANGED <<keeper, row, cache, age, seen>>

Merged(current, asked) ==
  [severity |-> IF asked.severity = "none" THEN current.severity ELSE asked.severity,
   params   |-> IF asked.params = "none" THEN current.params ELSE asked.params]

Write(o) ==
  /\ Moves(o, "write", [caller[o] EXCEPT !.at = "invalidate"])
  /\ row' = Merged(caller[o].hand, caller[o].asked)
  /\ UNCHANGED <<cache, age, seen>>

\* A kind answers with what a look now shows.
Invalidate(o) ==
  /\ Moves(o, "invalidate", IF keeper = "kinds" THEN [Idle EXCEPT !.at = "check"] ELSE Idle)
  /\ cache' = Empty
  /\ UNCHANGED <<row, age, seen>>

Next ==
  \/ Tick
  \/ \E c \in Callers : Look(c)
  \/ \E r \in Readers : Read(r)
  \/ \E o \in Operators : Set(o) \/ Reset(o) \/ Write(o) \/ Invalidate(o)

\* Time passes, and no thread stops inside a call; the detectors read on and on.
SettingsCacheFairness ==
  /\ WF_settingsCacheVars(Tick)
  /\ \A c \in Callers : WF_settingsCacheVars(Look(c))
  /\ \A r \in Readers : WF_settingsCacheVars(Read(r))
  /\ \A o \in Operators : WF_settingsCacheVars(Write(o) \/ Invalidate(o))

Spec == Init /\ [][Next]_settingsCacheVars /\ SettingsCacheFairness

-----------------------------------------------------------------------------
TypeOK ==
  /\ row \in Rows /\ cache \in Rows \cup {Empty} /\ age \in 0..(TTL + 1) /\ edits \in 0..MaxEdits
  /\ \A c \in Callers : caller[c].at \in {"idle", "check", "query", "fill", "take", "write", "invalidate"}
  /\ \A r \in Readers : seen[r] \in Rows

\* Whatever a look raced with, the detectors come to judge by the row that is
\* in the database, and go on judging by it (the TTL of _overrides and _all).
EditsAreSeen == \A r \in Readers, v \in Rows : <>[](row = v) => <>[](seen[r] = v)
=============================================================================
