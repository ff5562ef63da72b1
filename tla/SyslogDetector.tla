---------------------------- MODULE SyslogDetector ----------------------------
(***************************************************************************)
(* How syslog lines become verdicts about one subject: Vector posts them   *)
(* in batches to /api/ingest/syslog and archives them in Loki; app.py runs *)
(* SyslogDetector.process for each batch on a thread of its own, and for   *)
(* the Loki fallback on another; the detector's one cursor, the timestamp  *)
(* of the newest line evaluated, is all that tells new lines from old.     *)
(*                                                                         *)
(* Vector stamps lines as they pass, so a line's timestamp is its number.  *)
(* The clock counts in ticks long enough for the fallback's loop to come   *)
(* round once in each.                                                     *)
(***************************************************************************)
EXTENDS Integers, Sequences, SequencesExt

CONSTANTS
  Calls,       \* threads that may run process at the same time
  Silence,     \* how long the fast path is silent before the fallback engages
  LookBack,    \* since_seconds of the fallback's query
  Faults,      \* which of "drop", "reorder", "retry", "dbError", "crash" may happen
  MaxLines,    \* bound: lines the device sends
  LastLine,    \* bound: it sends none after this tick
  MaxTime,     \* bound: the clock stops there
  MaxMishaps   \* bound: retries, errors and crashes together

DetectorAssumption ==
  /\ Silence \in Nat /\ LookBack \in Nat /\ MaxLines \in Nat
  /\ MaxTime \in Nat /\ LastLine \in 0..MaxTime /\ MaxMishaps \in Nat
  /\ Faults \subseteq {"drop", "reorder", "retry", "dbError", "crash"}

VARIABLES
  lines,    \* what the device said: [at, says], in the order of the timestamps
  batched,  \* how many lines Vector has put into batches
  net,      \* batches on their way: [from, to], both included
  now,      \* the clock
  heard,    \* FAST_PATH.last_received_at, or Never
  polled,   \* has the fallback's loop come round in this tick
  cursor,   \* cursor_ns
  call,     \* per thread: what its process call does next
  open,     \* is the subject's event open
  runs,     \* history: how often each line was evaluated, counted up to 2
  mishaps,  \* retries, errors and crashes so far
  muddled   \* history: calls overlapped, a line failed, or memory was lost

vars == <<lines, batched, net, now, heard, polled, cursor, call, open, runs, mishaps, muddled>>

Never == -1
Numbers == 1..MaxLines
Batch == [from : Numbers, to : Numbers]
Idle == [step |-> "idle", left |-> <<>>, newest |-> 0]

TypeOK ==
  /\ lines \in Seq([at : 0..MaxTime, says : {"down", "up"}]) /\ Len(lines) <= MaxLines
  /\ batched \in 0..Len(lines)
  /\ net \subseteq Batch
  /\ now \in 0..MaxTime
  /\ heard \in {Never} \cup 0..MaxTime
  /\ polled \in BOOLEAN
  /\ cursor \in 0..MaxLines
  /\ call \in [Calls -> [step : {"idle", "check", "act"}, left : Seq(Numbers),
                         newest : 0..MaxLines]]
  /\ open \in BOOLEAN
  /\ runs \in [Numbers -> 0..2]
  /\ mishaps \in 0..MaxMishaps
  /\ muddled \in BOOLEAN

Init ==
  /\ lines = <<>> /\ batched = 0 /\ net = {}
  /\ now = 0 /\ heard = Never /\ polled = FALSE
  /\ cursor = 0 /\ call = [c \in Calls |-> Idle]
  /\ open = FALSE
  /\ runs = [i \in Numbers |-> 0]
  /\ mishaps = 0 /\ muddled = FALSE

world == <<lines, batched, now>>
detector == <<cursor, call, muddled>>
outcome == <<open, runs>>

Mishap(kind) ==
  /\ kind \in Faults /\ mishaps < MaxMishaps
  /\ mishaps' = mishaps + 1

-----------------------------------------------------------------------------
(* The device, Vector and the clock.                                       *)

DeviceLogs(says) ==
  /\ now <= LastLine /\ Len(lines) < MaxLines
  /\ lines' = Append(lines, [at |-> now, says |-> says])
  /\ UNCHANGED <<batched, net, now, heard, polled, detector, outcome, mishaps>>

\* The http sink closes a batch.
SendBatch(to) ==
  /\ batched < to
  /\ batched' = to
  /\ net' = net \cup {[from |-> batched + 1, to |-> to]}
  /\ UNCHANGED <<lines, now, heard, polled, detector, outcome, mishaps>>

\* The sink gives a batch up: its retries are used up, or its buffer is full.
LoseBatch(b) ==
  /\ "drop" \in Faults
  /\ net' = net \ {b}
  /\ UNCHANGED <<world, heard, polled, detector, outcome, mishaps>>

\* The fallback's loop is quicker than a tick.
Tick ==
  /\ now < MaxTime /\ polled
  /\ now' = now + 1
  /\ polled' = FALSE
  /\ UNCHANGED <<lines, batched, net, heard, detector, outcome, mishaps>>

-----------------------------------------------------------------------------
(* SyslogDetector.process                                                  *)

\* Seeded fault: Loki answers newest first, and nothing sorts it.
Unordered(from, to) == Reverse([i \in 1..(to - from + 1) |-> from + i - 1])

\* _handle_syslog_events sorts the lines from..to, oldest first.
Ordered(from, to) == [i \in 1..(to - from + 1) |-> from + i - 1]

\* process starts `newest` at the cursor as it is then.
Process(c, from, to) ==
  /\ call' = [call EXCEPT ![c] =
                [step |-> "check", left |-> Ordered(from, to), newest |-> cursor]]
  /\ muddled' = (muddled \/ \E other \in Calls : call[other].step # "idle")
  /\ UNCHANGED cursor

\* A POST arrives: the fast path notes it, and its lines are evaluated.  Vector
\* may time out on the answer and post the batch again.
Ingest(c, b) ==
  /\ call[c].step = "idle"
  /\ "reorder" \notin Faults => \A other \in net : b.from <= other.from
  /\ heard' = now
  /\ Process(c, b.from, b.to)
  /\ \/ net' = net \ {b} /\ UNCHANGED mishaps
     \/ Mishap("retry") /\ UNCHANGED net
  /\ UNCHANGED <<world, polled, outcome>>

\* The fallback's loop comes round.  While the fast path is silent it evaluates
\* the lines Loki has of the last LookBack.
Engaged == heard = Never \/ now - heard >= Silence
Recent == {i \in DOMAIN lines : lines[i].at >= now - LookBack}

Fallback(c) ==
  /\ call[c].step = "idle"
  /\ ~polled \/ now = MaxTime
  /\ polled' = TRUE
  /\ IF ~Engaged \/ Recent = {}
       THEN UNCHANGED detector
       ELSE \E from \in Recent : /\ \A i \in Recent : from <= i
                                 /\ Process(c, from, Len(lines))
  /\ UNCHANGED <<world, net, heard, outcome, mishaps>>

\* Seeded fault: < instead of <=.
PassedStrictly(i) == i < cursor

\* The next line: nothing to do if the cursor has passed it.
Passed(i) == i <= cursor

Check(c) ==
  /\ call[c].step = "check" /\ call[c].left # <<>>
  /\ LET i == Head(call[c].left)
     IN  call' = IF Passed(i)
                   THEN [call EXCEPT ![c].left = Tail(@)]
                   ELSE [call EXCEPT ![c].step = "act", ![c].newest = IF i > @ THEN i ELSE @]
  /\ UNCHANGED <<world, net, heard, polled, cursor, muddled, outcome, mishaps>>

\* _one: the line raises or resolves.
Act(c) ==
  /\ call[c].step = "act"
  /\ LET i == Head(call[c].left)
     IN  /\ open' = (lines[i].says = "down")
         /\ runs' = [runs EXCEPT ![i] = IF @ < 2 THEN @ + 1 ELSE @]
  /\ call' = [call EXCEPT ![c].step = "check", ![c].left = Tail(@)]
  /\ UNCHANGED <<world, net, heard, polled, cursor, muddled, mishaps>>

\* _one raised an exception: it is logged, and the line counts as evaluated.
ActFails(c) ==
  /\ call[c].step = "act"
  /\ Mishap("dbError")
  /\ call' = [call EXCEPT ![c].step = "check", ![c].left = Tail(@)]
  /\ muddled' = TRUE
  /\ UNCHANGED <<world, net, heard, polled, cursor, outcome>>

\* The end of the loop: the cursor becomes what this call saw, whatever the
\* other calls have made of it since.
Finish(c) ==
  /\ call[c].step = "check" /\ call[c].left = <<>>
  /\ cursor' = call[c].newest
  /\ call' = [call EXCEPT ![c] = Idle]
  /\ UNCHANGED <<world, net, heard, polled, muddled, outcome, mishaps>>

\* The process restarts: the event stays, the cursor and the statistics do not.
Crash ==
  /\ Mishap("crash")
  /\ cursor' = 0 /\ call' = [c \in Calls |-> Idle] /\ heard' = Never
  /\ muddled' = TRUE
  /\ UNCHANGED <<world, net, polled, outcome>>

-----------------------------------------------------------------------------

Step(c) == Check(c) \/ Act(c) \/ Finish(c)

Next ==
  \/ \E says \in {"down", "up"} : DeviceLogs(says)
  \/ \E to \in DOMAIN lines : SendBatch(to)
  \/ \E b \in net : LoseBatch(b)
  \/ \E c \in Calls, b \in net : Ingest(c, b)
  \/ \E c \in Calls : Fallback(c) \/ Step(c) \/ ActFails(c)
  \/ Tick
  \/ Crash

\* Calls run to their end, Vector's batches arrive or are given up, the
\* fallback's loop keeps coming round, and time passes.
Fairness ==
  /\ \A c \in Calls : WF_vars(Step(c))
  /\ WF_vars(\E to \in DOMAIN lines : SendBatch(to))
  /\ WF_vars(\E b \in net : LoseBatch(b) \/ \E c \in Calls : Ingest(c, b))
  /\ WF_vars(\E c \in Calls : Fallback(c))
  /\ WF_vars(Tick)

Spec == Init /\ [][Next]_vars /\ Fairness

-----------------------------------------------------------------------------
(* Properties.                                                             *)

\* The cursor "makes the two paths one stream": as long as calls do not overlap,
\* a line that Vector posts twice, that is overtaken by others, or that comes by
\* the fast path and from Loki, is evaluated once.
EvaluatedOnce == ~muddled => \A i \in Numbers : runs[i] <= 1

\* Under the same conditions the event says what the device said last, whenever
\* every line has been passed, be it because others overtook it.
EventFollowsDevice ==
  (/\ ~muddled
   /\ \A c \in Calls : call[c].step = "idle"
   /\ lines # <<>> /\ cursor = Len(lines))
  => open = (Last(lines).says = "down")

\* "When they are not [flowing], events still happen, a few seconds late": every
\* line is evaluated, by the fast path or by the fallback behind it.
EveryLineIsEvaluated == \A i \in Numbers : []((Len(lines) >= i) => <>(runs[i] > 0))
=============================================================================
