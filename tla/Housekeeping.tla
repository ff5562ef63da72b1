----------------------------- MODULE Housekeeping -----------------------------
(***************************************************************************)
(* What runs by the clock: the schedule loop runs the commands that are    *)
(* due and saves what they print, the retention loop deletes what has      *)
(* grown old, and people run, edit and delete schedules, keep results and  *)
(* throw them away while both go on and the process is redeployed.         *)
(*                                                                         *)
(* A schedule carries the time left to next_run_at and a table the ages of *)
(* its rows, so the clock needs no bound.  Of the tables that grow, the    *)
(* results and the events are here: the policies treat part of their rows. *)
(***************************************************************************)
EXTENDS Naturals, Sequences

CONSTANTS
  Schedules,     \* ids of schedules
  Intervals,     \* interval_minutes people choose from, in ticks
  Policies,      \* POLICIES: a sequence of [kind, keep], keep in ticks, 0 for ever
  Broken,        \* the policies whose statement fails whenever it is run
  Day,           \* ticks the pruner sleeps
  MaxAge,        \* bound: rows stop aging there
  MaxFaults,     \* bound: commands and statements that fail
  MaxEdits       \* bound: things people and devices do

VARIABLES
  up,            \* DB and SCHEDULES are set
  known,         \* is the schedules' device in DEVICES_BY_ID
  schedule,      \* the table
  loop,          \* _schedule_loop: where it is, the run it is at, those to follow
  person,        \* a request that runs a schedule now
  ages,          \* per kind of row the ages of the rows there are
  pruner,        \* _retention_loop: the policy it is at, or how long it sleeps
  faults, edits

\* Intervals are minutes; no statement of POLICIES names a saved result or an open event.
HouseAssumption ==
  /\ Intervals \subseteq Nat /\ {Day, MaxAge, MaxFaults, MaxEdits} \subseteq Nat
  /\ Policies \in Seq([kind : {"samples", "auto", "resolved"}, keep : Nat]) /\ Policies # <<>>

houseVars == <<up, known, schedule, loop, person, ages, pruner, faults, edits>>

Kinds == {"auto", "saved", "open", "resolved"}
Deleted == [interval |-> 0, enabled |-> FALSE, left |-> 0]
Row(i) == [interval |-> i, enabled |-> TRUE, left |-> i]
NoRun == [id |-> "none", interval |-> 0]
Slept == [at |-> "sleep", run |-> NoRun, todo |-> {}]
Away == [at |-> "away", run |-> NoRun]

Asleep == [policy |-> 0, left |-> Day]
Startup == [policy |-> 1, left |-> 0]

Init ==
  /\ up = FALSE /\ known = TRUE
  /\ schedule = [s \in Schedules |-> Deleted]
  /\ loop = Slept /\ person = Away
  /\ ages = [k \in Kinds |-> {}]
  /\ pruner = Startup
  /\ faults = 0 /\ edits = 0

Fault == faults < MaxFaults /\ faults' = faults + 1
Edit == edits < MaxEdits /\ edits' = edits + 1

-----------------------------------------------------------------------------
(* The schedule loop.  The rows are as due() read them: what people change *)
(* afterwards is not seen before the next look.                            *)

Due(s) == schedule[s].enabled /\ schedule[s].left = 0
Snapshot(s) == [id |-> s, interval |-> schedule[s].interval]

LookUpDue ==
  /\ loop.at = "sleep" /\ up /\ \E s \in Schedules : Due(s)
  /\ loop' = [at |-> "run", run |-> NoRun, todo |-> {Snapshot(s) : s \in {t \in Schedules : Due(t)}}]
  /\ UNCHANGED <<up, known, schedule, person, ages, pruner, faults, edits>>

\* _run_and_save: a result saved for the record, or an exception.
RunAndSave ==
  \/ known /\ ages' = [ages EXCEPT !["auto"] = @ \cup {0}] /\ UNCHANGED faults
  \/ Fault /\ UNCHANGED ages

\* Seeded fault: the thread ends with the exception.
Uncaught == "dead"
\* Whatever a run raises, and a device that is gone, is an error to record.
Caught == "mark"

RunDue(s) ==
  /\ loop.at = "run"
  /\ \E run \in loop.todo :
       /\ run.id = s
       /\ \/ RunAndSave /\ loop' = [at |-> IF faults' = faults THEN "mark" ELSE Caught,
                                    run |-> run, todo |-> loop.todo \ {run}]
          \/ /\ ~known /\ UNCHANGED <<ages, faults>>
             /\ loop' = [at |-> "mark", run |-> run, todo |-> loop.todo \ {run}]
  /\ UNCHANGED <<up, known, schedule, person, pruner, edits>>

\* mark_run: the next run is an interval from now, the interval of the snapshot.
\* The UPDATE finds nothing when the schedule has been deleted.
MarkRun(run) ==
  schedule' = IF schedule[run.id] = Deleted THEN schedule
              ELSE [schedule EXCEPT ![run.id].left = run.interval]

Continue(todo) == loop' = IF todo = {} THEN Slept ELSE [at |-> "run", run |-> NoRun, todo |-> todo]

MarkDue ==
  /\ loop.at = "mark"
  /\ \/ MarkRun(loop.run) /\ UNCHANGED faults
     \/ Fault /\ UNCHANGED schedule
  /\ Continue(loop.todo)
  /\ UNCHANGED <<up, known, person, ages, pruner, edits>>

-----------------------------------------------------------------------------
(* The page: create, update, delete, run now.  A new interval leaves       *)
(* next_run_at as it was.                                                  *)

EditSchedule(s) ==
  /\ Edit /\ up
  /\ \/ \E i \in Intervals :
          \/ schedule[s] = Deleted /\ known /\ schedule' = [schedule EXCEPT ![s] = Row(i)]
          \/ schedule[s] # Deleted /\ schedule' = [schedule EXCEPT ![s].interval = i]
     \/ /\ schedule[s] # Deleted
        /\ schedule' \in {[schedule EXCEPT ![s].enabled = ~@], [schedule EXCEPT ![s] = Deleted]}
  /\ UNCHANGED <<up, known, loop, person, ages, pruner, faults>>

RunNow(s) ==
  /\ person = Away /\ up /\ known /\ schedule[s] # Deleted /\ Edit
  /\ person' = [at |-> "run", run |-> Snapshot(s)]
  /\ UNCHANGED <<up, known, schedule, loop, ages, pruner, faults>>

\* Errors of the command and the session are marked, any other ends the request.
PersonRuns ==
  /\ person.at = "run" /\ RunAndSave
  /\ person' \in {[person EXCEPT !.at = "mark"]} \cup (IF faults' = faults THEN {} ELSE {Away})
  /\ UNCHANGED <<up, known, schedule, loop, pruner, edits>>

PersonMarks ==
  /\ person.at = "mark" /\ person' = Away
  /\ MarkRun(person.run)
  /\ UNCHANGED <<up, known, loop, ages, pruner, faults, edits>>

\* A person saves a result or deletes one; a device raises or resolves an event;
\* the device is added or removed.
OtherEdit ==
  /\ Edit /\ up
  /\ \/ /\ \/ \E k \in {"saved", "open"} : ages' = [ages EXCEPT ![k] = @ \cup {0}]
           \/ \E k \in {"auto", "saved"} : \E a \in ages[k] : ages' = [ages EXCEPT ![k] = @ \ {a}]
           \/ \E a \in ages["open"] :
                ages' = [ages EXCEPT !["open"] = @ \ {a}, !["resolved"] = @ \cup {0}]
        /\ UNCHANGED known
     \/ known' = ~known /\ UNCHANGED ages
  /\ UNCHANGED <<up, schedule, loop, person, pruner, faults>>

-----------------------------------------------------------------------------
(* The retention loop: all policies on start-up, then once a day.          *)

NextPolicy == IF pruner.policy = Len(Policies) THEN Asleep ELSE [pruner EXCEPT !.policy = @ + 1]
\* A failing statement is logged, and the next policy has its turn.
AfterFailure == NextPolicy

\* Seeded fault: the DELETE has no condition but the age.
MatchesTable(policy) == IF policy.kind = "auto" THEN {"auto", "saved"} ELSE {"open", "resolved"}
\* The policy's DELETE names what may go: auto_saved = 1, resolved_at IS NOT NULL.
Matches(policy) == {policy.kind}

Expired(policy) == {a \in 0..MaxAge : policy.keep > 0 /\ a >= policy.keep}

Prune(p) ==
  /\ up /\ pruner.policy = p
  /\ LET policy == Policies[p]
     IN \/ /\ p \notin Broken
           /\ ages' = [k \in Kinds |-> IF k \in Matches(policy) THEN ages[k] \ Expired(policy) ELSE ages[k]]
           /\ pruner' = NextPolicy /\ UNCHANGED faults
        \/ /\ IF p \in Broken THEN UNCHANGED faults ELSE Fault
           /\ UNCHANGED ages /\ pruner' = AfterFailure
  /\ UNCHANGED <<up, known, schedule, loop, person, edits>>

Wake ==
  /\ pruner.policy = 0 /\ pruner.left = 0
  /\ pruner' = [policy |-> 1, left |-> 0]
  /\ UNCHANGED <<up, known, schedule, loop, person, ages, faults, edits>>

-----------------------------------------------------------------------------

Tick ==
  /\ schedule' = [s \in Schedules |->
                    IF schedule[s].left > 0 THEN [schedule[s] EXCEPT !.left = @ - 1] ELSE schedule[s]]
  /\ ages' = [k \in Kinds |-> {IF a < MaxAge THEN a + 1 ELSE a : a \in ages[k]}]
  /\ pruner' = IF pruner.left > 0 THEN [pruner EXCEPT !.left = @ - 1] ELSE pruner
  /\ UNCHANGED <<up, known, loop, person, faults, edits>>

\* A redeploy, at any time and any number of times; settings are applied some
\* time after the threads have started.
Redeploy ==
  /\ up /\ up' = FALSE
  /\ loop' = Slept /\ person' = Away /\ pruner' = Startup
  /\ UNCHANGED <<known, schedule, ages, faults, edits>>

Connect ==
  /\ ~up /\ up' = TRUE
  /\ UNCHANGED <<known, schedule, loop, person, ages, pruner, faults, edits>>

Next ==
  \/ LookUpDue \/ (\E s \in Schedules : RunDue(s)) \/ MarkDue
  \/ \E s \in Schedules : EditSchedule(s) \/ RunNow(s)
  \/ PersonRuns \/ PersonMarks \/ OtherEdit
  \/ (\E p \in DOMAIN Policies : Prune(p)) \/ Wake
  \/ Tick \/ Redeploy \/ Connect

\* Both loops run and time passes; redeploys are not timed to hit the same step
\* for ever, which is what strong fairness says.
Fairness ==
  /\ WF_houseVars(Connect) /\ WF_houseVars(Tick)
  /\ SF_houseVars(LookUpDue) /\ SF_houseVars(MarkDue)
  /\ \A s \in Schedules : SF_houseVars(RunDue(s))
  /\ SF_houseVars(Wake) /\ \A p \in DOMAIN Policies : SF_houseVars(Prune(p))

Spec == Init /\ [][Next]_houseVars /\ Fairness

-----------------------------------------------------------------------------
(* Properties.                                                             *)

TypeOK ==
  /\ schedule \in [Schedules -> [interval : Intervals \cup {0}, enabled : BOOLEAN, left : Nat]]
  /\ loop.at \in {"sleep", "run", "mark"} /\ person.at \in {"away", "run", "mark"}
  /\ ages \in [Kinds -> SUBSET (0..MaxAge)]
  /\ pruner \in [policy : 0..Len(Policies), left : 0..Day]

\* "an unreachable device or a command that doesn't exist records last_error and
\* reschedules": a schedule that is due is run and put off, or disabled or deleted,
\* whatever other schedules raise, people edit and redeploys interrupt.
DueIsServed == \A s \in Schedules : Due(s) ~> ~Due(s)

\* "Deliberate keeps outlive automatic ones", "an open event is live state": a
\* result somebody saved and an event that is open leave only when somebody
\* deletes or resolves them.
KeepsStay ==
  [][\A k \in {"saved", "open"} : ages[k] # {} /\ ages'[k] = {} => edits' > edits]_houseVars
=============================================================================
