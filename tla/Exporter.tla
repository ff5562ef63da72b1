-------------------------------- MODULE Exporter --------------------------------
(***************************************************************************)
(* The Prometheus exporter: its main loop re-reads the device registry,    *)
(* starts a poll loop for a device that has none, stops the loop of a      *)
(* device that left and, once that loop has ended, sweeps the device's     *)
(* series.  The loops poll in sections, each of which sets series.         *)
(*                                                                         *)
(* A value of a series is left out, except that s4048_up is there or not.  *)
(***************************************************************************)
EXTENDS Naturals, Sequences

CONSTANTS
  Ids,       \* device ids
  MaxEdits   \* bound: changes an admin makes on the Devices page

ExporterAssumption == MaxEdits \in Nat /\ Ids # {}

VARIABLES
  edits,      \* changes so far, which number the devices' details
  registry,   \* per id: its details as registered now, or None
  main,       \* what main() does next
  loaded,     \* the devices main() last loaded
  threads,    \* threads: per id a loop, or 0
  pending,    \* pending_cleanup: per id a loop, or 0
  loops,      \* every poll thread, by the details it polls with
  series      \* per id: the families of series it has

vars == <<edits, registry, main, loaded, threads, pending, loops, series>>

None == [no |-> 0, platform |-> "none"]
SUPPORTED_PLATFORMS == {"os9", "junos"}
Platforms == SUPPORTED_PLATFORMS \cup {"opnsense"}

\* What one poll sets, section by section: a section is one command, or one
\* command per port, and what is parsed from it.
Fast(platform) ==
  IF platform = "junos" THEN <<"cpu", "environment", "interfaces", "duration">>
                        ELSE <<"cpu", "memory", "environment", "interfaces", "duration">>
Slow(platform) ==
  IF platform = "junos" THEN <<"speed", "optics", "duration">> ELSE <<"optics", "duration">>
Versions == 1..MaxEdits
Unstarted == [device |-> CHOOSE d \in Ids : TRUE, platform |-> "none", stopped |-> FALSE,
              at |-> "exited", todo |-> <<>>, slow |-> FALSE]
Families == {"up", "cpu", "memory", "environment", "interfaces", "duration", "speed", "optics"}

Init ==
  /\ edits = 0 /\ registry = [d \in Ids |-> None]
  /\ main = "load" /\ loaded = registry
  /\ threads = [d \in Ids |-> 0] /\ pending = threads
  /\ loops = [l \in Versions |-> Unstarted]
  /\ series = [d \in Ids |-> {}]

-----------------------------------------------------------------------------
(* The Devices page of the web UI adds, edits and removes.                 *)

Save(d, platform) ==
  /\ edits < MaxEdits /\ edits' = edits + 1
  /\ registry' = [registry EXCEPT ![d] = [no |-> edits', platform |-> platform]]
  /\ UNCHANGED <<main, loaded, threads, pending, loops, series>>

Remove(d) ==
  /\ registry[d] # None
  /\ edits < MaxEdits /\ edits' = edits + 1
  /\ registry' = [registry EXCEPT ![d] = None]
  /\ UNCHANGED <<main, loaded, threads, pending, loops, series>>

-----------------------------------------------------------------------------
(* main()                                                                  *)

Alive(l) == loops[l].at # "exited"

Load ==
  /\ main = "load" /\ main' = "reconcile"
  /\ loaded' = registry
  /\ UNCHANGED <<edits, registry, threads, pending, loops, series>>

\* A registry that cannot be loaded keeps the loops that run.
LoadFails ==
  /\ main = "load" /\ main' = "sleep"
  /\ UNCHANGED <<edits, registry, loaded, threads, pending, loops, series>>

Seen == {d \in Ids : loaded[d].platform \in SUPPORTED_PLATFORMS}
Starting == {d \in Seen : threads[d] = 0 \/ ~ Alive(threads[d])}
Leaving == {d \in Ids \ Seen : threads[d] # 0}

\* A thread is known by the details it was started with: it runs until it is
\* told to stop, so the same details never start two.
Start(d) == loaded[d].no
NewLoop(d) == [device |-> d, platform |-> loaded[d].platform, stopped |-> FALSE,
               at |-> "check", todo |-> <<>>, slow |-> TRUE]

Unset(l) == loops[l].stopped  \* seeded fault: the thread is dropped, its event is never set
Told(l) == loops[l].stopped \/ \E d \in Leaving : threads[d] = l

\* One pass over the devices and the threads: a device with a live thread is
\* passed over, whatever else of it was edited.
Reconcile ==
  /\ main = "reconcile" /\ main' = "sweep"
  /\ loops' = [l \in Versions |->
       IF \E d \in Starting : Start(d) = l
         THEN NewLoop(CHOOSE d \in Starting : Start(d) = l)
         ELSE [loops[l] EXCEPT !.stopped = Told(l)]]
  /\ threads' = [d \in Ids |-> IF d \in Starting THEN Start(d)
                               ELSE IF d \in Leaving THEN 0 ELSE threads[d]]
  /\ pending' = [d \in Ids |-> IF d \in Leaving THEN threads[d] ELSE pending[d]]
  /\ UNCHANGED <<edits, registry, loaded, series>>

\* The series of a device that left go when its thread has ended, and not
\* before: a thread on its way out still sets s4048_up.
Swept(d) == pending[d] # 0 /\ ~ Alive(pending[d])

Sweep ==
  /\ main = "sweep" /\ main' = "sleep"
  /\ series' = [d \in Ids |-> IF Swept(d) THEN {} ELSE series[d]]
  /\ pending' = [d \in Ids |-> IF Swept(d) THEN 0 ELSE pending[d]]
  /\ UNCHANGED <<edits, registry, loaded, threads, loops>>

Wake ==
  /\ main = "sleep" /\ main' = "load"
  /\ UNCHANGED <<edits, registry, loaded, threads, pending, loops, series>>

-----------------------------------------------------------------------------
(* _poll_loop: the thread's own device, for as long as it lives.           *)

Becomes(l, loop) ==
  /\ loops' = [loops EXCEPT ![l] = loop]
  /\ UNCHANGED <<edits, registry, main, loaded, threads, pending>>
Sets(l, families) == series' = [series EXCEPT ![loops[l].device] = @ \cup families]

\* The slow sections are due at first, and then now and again.
CheckStop(l) ==
  /\ loops[l].at = "check"
  /\ IF loops[l].stopped THEN Becomes(l, [loops[l] EXCEPT !.at = "exited"])
     ELSE \E due \in {loops[l].slow, TRUE} :
            Becomes(l, [loops[l] EXCEPT !.at = "poll", !.slow = due,
              !.todo = Fast(loops[l].platform) \o (IF due THEN Slow(loops[l].platform) ELSE <<>>)])
  /\ UNCHANGED series

PollSection(l) ==
  /\ loops[l].at = "poll" /\ loops[l].todo # <<>>
  /\ Becomes(l, [loops[l] EXCEPT !.todo = Tail(@)])
  /\ Sets(l, {Head(loops[l].todo)})

\* The last section is through: slow ones that were polled are not due again
\* for a while.
Polled(l) ==
  /\ loops[l].at = "poll" /\ loops[l].todo = <<>>
  /\ Becomes(l, [loops[l] EXCEPT !.at = "wait", !.slow = FALSE])
  /\ Sets(l, {"up"})

\* Connecting or a command fails, at any point of the cycle; part of a section
\* of many ports is set by then.
PollFails(l) ==
  /\ loops[l].at = "poll"
  /\ Becomes(l, [loops[l] EXCEPT !.at = "wait", !.todo = <<>>])
  /\ Sets(l, {"up"} \cup {f \in {"optics"} : loops[l].todo # <<>> /\ Head(loops[l].todo) = f})

Waited(l) ==
  /\ loops[l].at = "wait"
  /\ Becomes(l, [loops[l] EXCEPT !.at = "check"])
  /\ UNCHANGED series

LoopStep(l) == CheckStop(l) \/ PollSection(l) \/ Polled(l) \/ PollFails(l) \/ Waited(l)
MainStep == Load \/ LoadFails \/ Reconcile \/ Sweep \/ Wake
Next ==
  \/ \E d \in Ids : Remove(d) \/ \E p \in Platforms : Save(d, p)
  \/ MainStep
  \/ \E l \in Versions : LoopStep(l)

\* Every command and every wait of a loop ends, and so does main()'s; the
\* registry can be loaded again and again.
ExporterFairness ==
  /\ WF_vars(MainStep) /\ SF_vars(Load)
  /\ \A l \in Versions : WF_vars(LoopStep(l))

Spec == Init /\ [][Next]_vars /\ ExporterFairness

-----------------------------------------------------------------------------
\* The dictionaries of main() hold loops, and every series is of a known family.
TypeOK ==
  /\ edits \in 0..MaxEdits
  /\ registry \in [Ids -> [no : 0..MaxEdits, platform : Platforms \cup {"none"}]]
  /\ loaded \in [Ids -> [no : 0..MaxEdits, platform : Platforms \cup {"none"}]]
  /\ threads \in [Ids -> 0..MaxEdits] /\ pending \in [Ids -> 0..MaxEdits]
  /\ series \in [Ids -> SUBSET Families]
  /\ \A l \in Versions : loops[l].at \in {"check", "poll", "wait", "exited"}

\* A device is polled by one loop at a time that has not been told to stop,
\* and it is the one main() can still stop (exporter.py:444-454): no edit,
\* removal and return of the device leaves a loop that nobody can end.
NoLoopIsLost ==
  \A l \in Versions : Alive(l) /\ ~ loops[l].stopped => threads[loops[l].device] = l
=============================================================================
