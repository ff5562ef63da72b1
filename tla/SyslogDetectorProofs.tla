------------------------- MODULE SyslogDetectorProofs -------------------------
(***************************************************************************)
(* Theorems about SyslogDetector, for any number of calls, lines, batches  *)
(* and faults: as long as calls do not overlap and nothing fails, each     *)
(* line is evaluated at most once and the event follows the device.        *)
(*                                                                         *)
(* The cursor is all the code has, so the inductive invariant says what    *)
(* the cursor, and `newest` while a call runs, mean (Sound): the lines up  *)
(* to it were evaluated at most once and none beyond it was, the event     *)
(* says what the line at it says, and what a call still has before it is   *)
(* in order, each line of it either passed already or beyond `newest`.     *)
(* That at most one call runs (Alone) is not assumed but kept: `muddled`   *)
(* is set by the step that would break it.                                 *)
(***************************************************************************)
EXTENDS Events, EventStoreProofs, SequenceTheorems, TLAPS

Active(c) == call[c].step # "idle"

\* Lines a call holds are lines the device sent.
KnownLines ==
  /\ \A c \in Calls : \A k \in DOMAIN call[c].left : call[c].left[k] <= Len(lines)
  /\ \A b \in net : b.to <= Len(lines)
  /\ cursor <= Len(lines)
  /\ \A c \in Calls : call[c].newest <= Len(lines)
  /\ \A c \in Calls : call[c].step = "act" => call[c].left # <<>>

\* What the lines up to n have come to, when the event was last set by line n.
Evaluated(n) ==
  /\ \A i \in Syslog!Numbers : runs[i] <= 1
  /\ \A i \in Syslog!Numbers : i > n => runs[i] = 0
Followed(n) == n > 0 => open = (lines[n].says = "down")

Increasing(s) == \A k, l \in DOMAIN s : k < l => s[k] < s[l]

\* What a call that runs alone has done and has before it.
CallSound(c) ==
  LET left == call[c].left
      newest == call[c].newest
  IN /\ cursor <= newest
     /\ Increasing(left)
     /\ call[c].step = "check" =>
          /\ Evaluated(newest) /\ Followed(newest)
          /\ \A k \in DOMAIN left : left[k] > cursor => left[k] > newest
     /\ call[c].step = "act" =>
          /\ Evaluated(newest - 1)
          /\ newest = left[1]

Alone == \A c, d \in Calls : Active(c) /\ Active(d) => c = d
Resting == (\A c \in Calls : ~ Active(c)) => Evaluated(cursor) /\ Followed(cursor)
Sound == Alone /\ Resting /\ \A c \in Calls : Active(c) => CallSound(c)

DInv == Syslog!TypeOK /\ KnownLines /\ (~ muddled => Sound)

-----------------------------------------------------------------------------
LEMMA EvaluatedImplied == ASSUME Syslog!DetectorAssumption, DInv PROVE Syslog!EvaluatedOnce
<1> SUFFICES ASSUME ~ muddled, NEW i \in Syslog!Numbers PROVE runs[i] <= 1
  BY DEF Syslog!EvaluatedOnce
<1>1. Sound
  BY DEF DInv
<1>2. CASE \A c \in Calls : ~ Active(c)
  BY <1>1, <1>2 DEF Sound, Resting, Evaluated
<1>3. ASSUME NEW c \in Calls, Active(c) PROVE runs[i] <= 1
  <2>1. call[c].step \in {"check", "act"}
    BY <1>3 DEF Active, DInv, Syslog!TypeOK
  <2> QED BY <1>1, <1>3, <2>1 DEF Sound, CallSound, Evaluated
<1> QED BY <1>2, <1>3

LEMMA FollowsImplied == ASSUME Syslog!DetectorAssumption, DInv PROVE Syslog!EventFollowsDevice
<1> SUFFICES ASSUME ~ muddled, \A c \in Calls : call[c].step = "idle", lines # <<>>, cursor = Len(lines)
             PROVE  open = (Syslog!Last(lines).says = "down")
  BY DEF Syslog!EventFollowsDevice
<1>1. Followed(cursor)
  BY DEF DInv, Sound, Resting, Active
<1>2. cursor > 0
  BY DEF DInv, Syslog!TypeOK
<1> QED BY <1>1, <1>2 DEF Followed, Syslog!Last

LEMMA DetectorInit == ASSUME Syslog!DetectorAssumption, Syslog!Init PROVE DInv
<1> USE DEF Syslog!Init
<1>1. Syslog!TypeOK
  <2>1. Syslog!Idle \in [step : {"idle", "check", "act"}, left : Seq(Syslog!Numbers), newest : 0..MaxLines]
    BY DEF Syslog!Idle, Syslog!DetectorAssumption
  <2>2. lines \in Seq([at : 0..MaxLineTime, says : {"down", "up"}]) /\ Len(lines) = 0
    OBVIOUS
  <2>3. /\ lineClock \in 0..MaxLineTime /\ cursor \in 0..MaxLines /\ mishaps \in 0..MaxMishaps
        /\ Len(lines) <= MaxLines /\ batched \in 0..Len(lines)
    BY <2>2 DEF Syslog!DetectorAssumption
  <2>4. runs \in [Syslog!Numbers -> 0..2]
    OBVIOUS
  <2>5. call \in [Calls -> [step : {"idle", "check", "act"}, left : Seq(Syslog!Numbers), newest : 0..MaxLines]]
    BY <2>1
  <2> QED BY <2>2, <2>3, <2>4, <2>5 DEF Syslog!TypeOK
<1>2. KnownLines
  BY DEF KnownLines, Syslog!Idle
<1>3. Sound
  BY DEF Sound, Alone, Resting, Active, Syslog!Idle, Evaluated, Followed, Syslog!Numbers, Syslog!DetectorAssumption
<1> QED BY <1>1, <1>2, <1>3 DEF DInv

-----------------------------------------------------------------------------
(* The device, Vector and the clock: the detector does not notice.         *)

\* A further line changes nothing that was said of the earlier ones.
LEMMA LogsStep ==
  ASSUME Syslog!DetectorAssumption, DInv, NEW says \in {"down", "up"}, Syslog!DeviceLogs(says)
  PROVE  DInv'
<1> DEFINE new == [at |-> lineClock, says |-> says]
<1>1. /\ lines' = Append(lines, new) /\ new \in [at : 0..MaxLineTime, says : {"down", "up"}]
      /\ lines \in Seq([at : 0..MaxLineTime, says : {"down", "up"}]) /\ Len(lines) < MaxLines
      /\ UNCHANGED <<batched, net, lineClock, heard, polled, cursor, call, muddled, open, runs, mishaps>>
  BY DEF Syslog!DeviceLogs, Syslog!detector, Syslog!outcome, DInv, Syslog!TypeOK
<1> HIDE DEF new
<1>2. /\ lines' \in Seq([at : 0..MaxLineTime, says : {"down", "up"}]) /\ Len(lines') = Len(lines) + 1
      /\ \A i \in 1..Len(lines) : lines'[i] = lines[i]
  BY <1>1, AppendProperties
<1>3. Syslog!TypeOK'
  BY <1>1, <1>2 DEF DInv, Syslog!TypeOK, Syslog!DetectorAssumption
<1>4. KnownLines'
  <2>1. Len(lines) \in Nat /\ \A n \in 0..MaxLines : n <= Len(lines) => n <= Len(lines')
    BY <1>1, <1>2 DEF Syslog!DetectorAssumption
  <2>2. ASSUME NEW c \in Calls, NEW k \in DOMAIN call[c].left PROVE call[c].left[k] \in 0..MaxLines
    <3>1. call[c].left \in Seq(Syslog!Numbers)
      BY DEF DInv, Syslog!TypeOK
    <3>2. call[c].left[k] \in Syslog!Numbers
      BY <3>1, LenProperties
    <3> QED BY <3>2 DEF Syslog!Numbers, Syslog!DetectorAssumption
  <2>3. \A b \in net : b.to \in 0..MaxLines
    BY DEF DInv, Syslog!TypeOK, Syslog!Batch, Syslog!Numbers
  <2>4. cursor \in 0..MaxLines /\ \A c \in Calls : call[c].newest \in 0..MaxLines
    BY DEF DInv, Syslog!TypeOK
  <2> QED BY <1>1, <2>1, <2>2, <2>3, <2>4 DEF DInv, KnownLines
<1>5. ASSUME ~ muddled' PROVE Sound'
  <2>1. Sound
    BY <1>1, <1>5 DEF DInv
  <2>2. \A n \in 0..MaxLines : n <= Len(lines) => (Evaluated(n) => Evaluated(n)') /\ (Followed(n) => Followed(n)')
    BY <1>1, <1>2 DEF Evaluated, Followed
  <2>3. cursor \in 0..MaxLines /\ cursor <= Len(lines)
    BY DEF DInv, Syslog!TypeOK, KnownLines
  <2>4. Alone' /\ Resting'
    BY <1>1, <2>1, <2>2, <2>3 DEF Sound, Alone, Resting, Active
  <2>5. ASSUME NEW c \in Calls, Active(c)' PROVE CallSound(c)'
    <3>1. CallSound(c)
      BY <1>1, <2>1, <2>5 DEF Sound, Active
    <3>2. call[c].newest \in 0..MaxLines /\ call[c].newest <= Len(lines)
      BY DEF DInv, Syslog!TypeOK, KnownLines
    <3>3. Evaluated(call[c].newest - 1) => Evaluated(call[c].newest - 1)'
      BY <1>1 DEF Evaluated
    <3> QED BY <1>1, <2>2, <3>1, <3>2, <3>3 DEF CallSound
  <2> QED BY <2>4, <2>5 DEF Sound
<1> QED BY <1>3, <1>4, <1>5 DEF DInv

\* Steps that leave the lines, the calls and what came of them alone.
LEMMA SoundKept ==
  ASSUME DInv, UNCHANGED <<lines, cursor, call, muddled, open, runs>>
  PROVE  ~ muddled' => Sound'
BY DEF DInv, Sound, Alone, Resting, Active, CallSound, Evaluated, Followed

LEMMA SendStep ==
  ASSUME Syslog!DetectorAssumption, DInv, NEW to \in DOMAIN lines, Syslog!SendBatch(to)
  PROVE  DInv'
<1>1. /\ batched < to /\ batched' = to /\ net' = net \cup {[from |-> batched + 1, to |-> to]}
      /\ UNCHANGED <<lines, lineClock, heard, polled, cursor, call, muddled, open, runs, mishaps>>
  BY DEF Syslog!SendBatch, Syslog!detector, Syslog!outcome
<1>2. to \in 1..Len(lines) /\ Len(lines) \in 0..MaxLines /\ batched \in 0..Len(lines)
  BY DEF DInv, Syslog!TypeOK, Syslog!DetectorAssumption
<1>3. [from |-> batched + 1, to |-> to] \in Syslog!Batch
  BY <1>1, <1>2 DEF Syslog!Batch, Syslog!Numbers, Syslog!DetectorAssumption
<1>4. Syslog!TypeOK'
  BY <1>1, <1>2, <1>3 DEF DInv, Syslog!TypeOK
<1>5. KnownLines'
  BY <1>1, <1>2 DEF DInv, KnownLines
<1> QED BY <1>1, <1>4, <1>5, SoundKept DEF DInv

LEMMA LoseStep == ASSUME Syslog!DetectorAssumption, DInv, NEW b \in net, Syslog!LoseBatch(b) PROVE DInv'
<1>1. /\ net' = net \ {b}
      /\ UNCHANGED <<lines, batched, lineClock, heard, polled, cursor, call, muddled, open, runs, mishaps>>
  BY DEF Syslog!LoseBatch, Syslog!world, Syslog!detector, Syslog!outcome
<1>2. Syslog!TypeOK' /\ KnownLines'
  BY <1>1 DEF DInv, Syslog!TypeOK, KnownLines
<1> QED BY <1>1, <1>2, SoundKept DEF DInv

LEMMA TickStep == ASSUME Syslog!DetectorAssumption, DInv, Syslog!Tick PROVE DInv'
<1>1. /\ lineClock < MaxLineTime /\ lineClock' = lineClock + 1 /\ polled' = FALSE
      /\ UNCHANGED <<lines, batched, net, heard, cursor, call, muddled, open, runs, mishaps>>
  BY DEF Syslog!Tick, Syslog!detector, Syslog!outcome
<1>2. lineClock' \in 0..MaxLineTime
  BY <1>1 DEF DInv, Syslog!TypeOK, Syslog!DetectorAssumption
<1>3. Syslog!TypeOK' /\ KnownLines'
  BY <1>1, <1>2 DEF DInv, Syslog!TypeOK, KnownLines
<1> QED BY <1>1, <1>3, SoundKept DEF DInv

-----------------------------------------------------------------------------
(* SyslogDetector.process                                                  *)

State == [step : {"idle", "check", "act"}, left : Seq(Syslog!Numbers), newest : 0..MaxLines]

\* The lines from..to, as process sorts them.
LEMMA OrderedTyped ==
  ASSUME Syslog!DetectorAssumption, NEW from \in Syslog!Numbers, NEW to \in Syslog!Numbers
  PROVE  /\ Syslog!Ordered(from, to) \in Seq(Syslog!Numbers)
         /\ \A k \in DOMAIN Syslog!Ordered(from, to) : Syslog!Ordered(from, to)[k] \in from..to
         /\ Increasing(Syslog!Ordered(from, to))
<1> DEFINE size == to - from + 1
<1>1. from \in Nat /\ to \in Nat /\ from >= 1 /\ to <= MaxLines
  BY DEF Syslog!Numbers, Syslog!DetectorAssumption
<1>2. CASE to < from
  <2>1. 1..size = {}
    BY <1>1, <1>2
  <2>2. Syslog!Ordered(from, to) = <<>>
    BY <2>1 DEF Syslog!Ordered
  <2> QED BY <2>2 DEF Increasing
<1>3. CASE from <= to
  <2>1. size \in Nat
    BY <1>1, <1>3
  <2>2. \A k \in 1..size : from + k - 1 \in from..to
    BY <1>1
  <2>3. Syslog!Ordered(from, to) \in [1..size -> Syslog!Numbers]
    <3>1. \A k \in 1..size : from + k - 1 \in Syslog!Numbers
      BY <1>1 DEF Syslog!Numbers, Syslog!DetectorAssumption
    <3>2. Syslog!Ordered(from, to) = [k \in 1..size |-> from + k - 1]
      BY DEF Syslog!Ordered
    <3> QED BY <3>1, <3>2
  <2>4. Syslog!Ordered(from, to) \in Seq(Syslog!Numbers)
    BY <2>1, <2>3
  <2> QED BY <1>1, <2>2, <2>4 DEF Increasing, Syslog!Ordered
<1> QED BY <1>1, <1>2, <1>3

\* A call's state is replaced.
LEMMA CallSet ==
  ASSUME DInv, NEW c \in Calls, NEW state \in State, call' = [call EXCEPT ![c] = state]
  PROVE  /\ call' \in [Calls -> State]
         /\ call'[c] = state /\ \A d \in Calls \ {c} : call'[d] = call[d]
BY DEF DInv, Syslog!TypeOK, State

\* A call begins: if it is not muddled by that, nobody else is at work.
LEMMA ProcessSound ==
  ASSUME Syslog!DetectorAssumption, DInv, NEW c \in Calls, ~ Active(c),
         NEW from \in Syslog!Numbers, NEW to \in Syslog!Numbers, to <= Len(lines), Syslog!Process(c, from, to),
         UNCHANGED <<Syslog!world, Syslog!outcome>>
  PROVE  /\ call' \in [Calls -> State] /\ muddled' \in BOOLEAN
         /\ (\A b \in net' : b.to <= Len(lines)) => KnownLines'
         /\ ~ muddled' => Sound'
<1> DEFINE state == [step |-> "check", left |-> Syslog!Ordered(from, to), newest |-> cursor]
<1>1. cursor \in 0..MaxLines /\ muddled \in BOOLEAN /\ lines' = lines /\ cursor' = cursor
      /\ runs' = runs /\ open' = open
  BY DEF DInv, Syslog!TypeOK, Syslog!Process, Syslog!world, Syslog!outcome
<1>2. state \in State /\ state.step = "check" /\ state.left = Syslog!Ordered(from, to) /\ state.newest = cursor
  BY <1>1, OrderedTyped DEF State
<1>3. call' = [call EXCEPT ![c] = state]
  BY DEF Syslog!Process
<1> HIDE DEF state
<1>4. /\ call' \in [Calls -> State]
      /\ call'[c] = state /\ \A d \in Calls \ {c} : call'[d] = call[d]
  BY <1>2, <1>3, CallSet
<1>5. ASSUME NEW k \in DOMAIN state.left PROVE state.left[k] <= Len(lines)
  <2>1. state.left[k] \in from..to /\ Len(lines) \in Nat /\ to \in Nat /\ from \in Nat
    BY <1>2, OrderedTyped DEF DInv, Syslog!TypeOK, Syslog!Numbers
  <2> QED BY <2>1
<1>6. (\A b \in net' : b.to <= Len(lines)) => KnownLines'
  <2>1. ASSUME NEW d \in Calls
        PROVE  /\ \A k \in DOMAIN call'[d].left : call'[d].left[k] <= Len(lines)
               /\ call'[d].newest <= Len(lines)
               /\ call'[d].step = "act" => call'[d].left # <<>>
    BY <1>2, <1>4, <1>5 DEF DInv, KnownLines
  <2> QED BY <1>1, <2>1 DEF DInv, KnownLines
<1>7. ASSUME ~ muddled' PROVE Sound'
  <2>1. ~ muddled /\ \A d \in Calls : ~ Active(d)
    BY <1>1, <1>7 DEF Syslog!Process, Active
  <2>2. Evaluated(cursor) /\ Followed(cursor)
    BY <2>1 DEF DInv, Sound, Resting
  <2>3. \A d \in Calls : Active(d)' <=> d = c
    BY <1>2, <1>4, <2>1 DEF Active
  <2>4. CallSound(c)'
    BY <1>1, <1>2, <1>4, <2>2, OrderedTyped, SMTT(30) DEF CallSound, Evaluated, Followed
  <2> QED BY <2>3, <2>4 DEF Sound, Alone, Resting
<1>8. muddled' \in BOOLEAN
  BY <1>1 DEF Syslog!Process
<1> QED BY <1>4, <1>6, <1>7, <1>8

LEMMA IngestStep ==
  ASSUME Syslog!DetectorAssumption, DInv, NEW c \in Calls, NEW b \in net, Syslog!Ingest(c, b)
  PROVE  DInv'
<1>1. /\ ~ Active(c) /\ heard' = lineClock /\ Syslog!Process(c, b.from, b.to) /\ net' \subseteq net
      /\ UNCHANGED <<Syslog!world, polled, Syslog!outcome>>
  BY DEF Syslog!Ingest, Active
<1>2. mishaps' \in 0..MaxMishaps
  BY DEF Syslog!Ingest, Syslog!Mishap, DInv, Syslog!TypeOK, Syslog!DetectorAssumption
<1>3. b.from \in Syslog!Numbers /\ b.to \in Syslog!Numbers /\ b.to <= Len(lines)
  BY DEF DInv, Syslog!TypeOK, KnownLines, Syslog!Batch
<1>4. /\ call' \in [Calls -> State] /\ muddled' \in BOOLEAN
      /\ (\A a \in net' : a.to <= Len(lines)) => KnownLines'
      /\ ~ muddled' => Sound'
  BY <1>1, <1>3, ProcessSound
<1>5. KnownLines'
  BY <1>1, <1>4 DEF DInv, KnownLines
<1>6. Syslog!TypeOK'
  BY <1>1, <1>2, <1>4 DEF DInv, Syslog!TypeOK, State, Syslog!Process, Syslog!world, Syslog!outcome
<1> QED BY <1>4, <1>5, <1>6 DEF DInv

LEMMA FallbackStep ==
  ASSUME Syslog!DetectorAssumption, DInv, NEW c \in Calls, Syslog!Fallback(c)
  PROVE  DInv'
<1>1. ~ Active(c) /\ polled' = TRUE /\ UNCHANGED <<Syslog!world, net, heard, Syslog!outcome, mishaps>>
  BY DEF Syslog!Fallback, Active
<1>2. CASE UNCHANGED Syslog!detector
  <2>1. Syslog!TypeOK' /\ KnownLines'
    BY <1>1, <1>2 DEF DInv, Syslog!TypeOK, KnownLines, Syslog!detector, Syslog!world, Syslog!outcome
  <2>2. ~ muddled' => Sound'
    BY <1>1, <1>2, SoundKept DEF Syslog!detector, Syslog!world, Syslog!outcome
  <2> QED BY <2>1, <2>2 DEF DInv
<1>3. ASSUME NEW from \in Syslog!Recent, Syslog!Process(c, from, Len(lines)) PROVE DInv'
  <2>1. from \in Syslog!Numbers /\ Len(lines) \in Syslog!Numbers
    <3>1. from \in 1..Len(lines) /\ Len(lines) \in Nat /\ Len(lines) <= MaxLines
      BY DEF Syslog!Recent, DInv, Syslog!TypeOK
    <3> QED BY <3>1 DEF Syslog!Numbers, Syslog!DetectorAssumption
  <2>2. Len(lines) <= Len(lines)
    BY <2>1 DEF Syslog!Numbers
  <2>3. /\ call' \in [Calls -> State] /\ muddled' \in BOOLEAN
        /\ (\A a \in net' : a.to <= Len(lines)) => KnownLines'
        /\ ~ muddled' => Sound'
    BY <1>1, <1>3, <2>1, <2>2, ProcessSound
  <2>4. KnownLines'
    BY <1>1, <2>3 DEF DInv, KnownLines
  <2>5. Syslog!TypeOK'
    BY <1>1, <1>3, <2>3 DEF DInv, Syslog!TypeOK, State, Syslog!Process, Syslog!world, Syslog!outcome
  <2> QED BY <2>3, <2>4, <2>5 DEF DInv
<1> QED BY <1>2, <1>3 DEF Syslog!Fallback

\* The rest of a sequence of lines in order is in order, and beyond its head.
LEMMA RestInOrder ==
  ASSUME NEW s \in Seq(Syslog!Numbers), s # <<>>
  PROVE  /\ Tail(s) \in Seq(Syslog!Numbers) /\ Head(s) = s[1] /\ s[1] \in Syslog!Numbers
         /\ \A k \in DOMAIN Tail(s) : k + 1 \in DOMAIN s /\ Tail(s)[k] = s[k + 1]
         /\ Increasing(s) => /\ Increasing(Tail(s))
                             /\ \A k \in DOMAIN Tail(s) : Tail(s)[k] > s[1]
<1>1. /\ Tail(s) \in Seq(Syslog!Numbers) /\ Len(Tail(s)) = Len(s) - 1
      /\ \A k \in 1..Len(Tail(s)) : Tail(s)[k] = s[k + 1]
      /\ Head(s) = s[1] /\ Len(s) \in Nat /\ Len(s) > 0
  BY HeadTailProperties, EmptySeq, LenProperties
<1>2. DOMAIN s = 1..Len(s) /\ DOMAIN Tail(s) = 1..Len(Tail(s)) /\ \A k \in 1..Len(s) : s[k] \in Syslog!Numbers
  BY <1>1, LenProperties
<1>3. \A k \in DOMAIN Tail(s) : k + 1 \in DOMAIN s /\ Tail(s)[k] = s[k + 1]
  BY <1>1, <1>2
<1>4. ASSUME Increasing(s) PROVE Increasing(Tail(s)) /\ \A k \in DOMAIN Tail(s) : Tail(s)[k] > s[1]
  <2>1. \A k, l \in DOMAIN Tail(s) : k < l => Tail(s)[k] < Tail(s)[l]
    BY <1>1, <1>2, <1>3, <1>4 DEF Increasing
  <2>2. ASSUME NEW k \in DOMAIN Tail(s) PROVE Tail(s)[k] > s[1]
    <3>1. 1 \in DOMAIN s /\ k + 1 \in DOMAIN s /\ 1 < k + 1
      BY <1>1, <1>2, <1>3
    <3>2. s[1] < s[k + 1]
      BY <1>4, <3>1 DEF Increasing
    <3>3. s[1] \in Nat /\ s[k + 1] \in Nat
      BY <1>2, <3>1 DEF Syslog!Numbers
    <3> QED BY <1>3, <3>2, <3>3
  <2> QED BY <2>1, <2>2 DEF Increasing
<1> QED BY <1>1, <1>2, <1>3, <1>4

\* Whatever one call does next, its lines stay lines the device sent.
LEMMA NextLines ==
  ASSUME DInv, NEW c \in Calls, NEW state \in State, call' = [call EXCEPT ![c] = state],
         UNCHANGED <<lines, net>>, cursor' <= Len(lines),
         \A k \in DOMAIN state.left : state.left[k] <= Len(lines),
         state.newest <= Len(lines),
         state.step = "act" => state.left # <<>>
  PROVE  KnownLines'
<1>1. /\ call'[c] = state /\ \A d \in Calls \ {c} : call'[d] = call[d]
  BY CallSet
<1>2. ASSUME NEW d \in Calls
      PROVE  /\ \A k \in DOMAIN call'[d].left : call'[d].left[k] <= Len(lines)
             /\ call'[d].newest <= Len(lines)
             /\ call'[d].step = "act" => call'[d].left # <<>>
  BY <1>1 DEF DInv, KnownLines
<1> QED BY <1>2 DEF DInv, KnownLines

\* When a call that is at work alone moves on, only its own state has to be looked at.
LEMMA AloneMoves ==
  ASSUME Sound, NEW c \in Calls, Active(c), Active(c)',
         \A d \in Calls \ {c} : call'[d] = call[d], CallSound(c)'
  PROVE  Sound'
<1>1. \A d \in Calls : Active(d)' <=> d = c
  BY DEF Sound, Alone, Active
<1> QED BY <1>1 DEF Sound, Alone, Resting

\* A line is passed over, or taken: what Check makes of the state of the call.
LEMMA CheckMoves ==
  ASSUME Syslog!DetectorAssumption, DInv, NEW c \in Calls, Syslog!Check(c)
  PROVE  \E i \in Syslog!Numbers, state \in State :
           /\ i = call[c].left[1] /\ call[c].left # <<>> /\ call' = [call EXCEPT ![c] = state]
           /\ IF Syslog!Passed(i)
                THEN /\ state.step = "check" /\ state.newest = call[c].newest
                     /\ state.left = Tail(call[c].left)
                ELSE /\ state.step = "act" /\ state.left = call[c].left
                     /\ state.newest = IF i > call[c].newest THEN i ELSE call[c].newest
<1>1. /\ call[c] \in State /\ call[c].left \in Seq(Syslog!Numbers) /\ call[c].left # <<>>
      /\ call[c].newest \in 0..MaxLines
  BY DEF Syslog!Check, DInv, Syslog!TypeOK, State
<1>2. PICK i \in Syslog!Numbers : i = Head(call[c].left) /\ i = call[c].left[1]
  BY <1>1, RestInOrder
<1>3. CASE Syslog!Passed(i)
  <2> DEFINE state == [call[c] EXCEPT !.left = Tail(@)]
  <2>1. call' = [call EXCEPT ![c] = state]
    BY <1>2, <1>3 DEF Syslog!Check
  <2>2. Tail(call[c].left) \in Seq(Syslog!Numbers)
    BY <1>1, RestInOrder
  <2>3. /\ state \in State /\ state.step = "check" /\ state.newest = call[c].newest
        /\ state.left = Tail(call[c].left)
    BY <1>1, <2>2 DEF Syslog!Check, State
  <2> HIDE DEF state
  <2> QED BY <1>1, <1>2, <1>3, <2>1, <2>3
<1>4. CASE ~ Syslog!Passed(i)
  <2>1. PICK n \in 0..MaxLines : n = IF i > call[c].newest THEN i ELSE call[c].newest
    BY <1>1, <1>2 DEF Syslog!Numbers, Syslog!DetectorAssumption
  <2> DEFINE state == [call[c] EXCEPT !.step = "act", !.newest = n]
  <2>2. call' = [call EXCEPT ![c] = state]
    <3>1. call' = [call EXCEPT ![c].step = "act", ![c].newest = n]
      BY <1>2, <1>4, <2>1 DEF Syslog!Check
    <3> QED BY <1>1, <3>1 DEF DInv, Syslog!TypeOK
  <2>3. /\ state \in State /\ state.step = "act" /\ state.newest = n
        /\ state.left = call[c].left
    BY <1>1, <2>1 DEF State
  <2> HIDE DEF state
  <2> QED BY <1>1, <1>2, <1>4, <2>1, <2>2, <2>3
<1> QED BY <1>3, <1>4

LEMMA CheckStep == ASSUME Syslog!DetectorAssumption, DInv, NEW c \in Calls, Syslog!Check(c) PROVE DInv'
<1> DEFINE left == call[c].left
<1>1. /\ call[c].step = "check"
      /\ UNCHANGED <<lines, batched, lineClock, net, heard, polled, cursor, muddled, open, runs, mishaps>>
  BY DEF Syslog!Check, Syslog!world, Syslog!outcome
<1>2. PICK i \in Syslog!Numbers, state \in State :
        /\ i = left[1] /\ left # <<>> /\ call' = [call EXCEPT ![c] = state]
        /\ IF Syslog!Passed(i)
             THEN /\ state.step = "check" /\ state.newest = call[c].newest
                  /\ state.left = Tail(left)
             ELSE /\ state.step = "act" /\ state.left = left
                  /\ state.newest = IF i > call[c].newest THEN i ELSE call[c].newest
  BY CheckMoves
<1>3. /\ left \in Seq(Syslog!Numbers) /\ cursor \in 0..MaxLines /\ call[c].newest \in 0..MaxLines
      /\ Len(lines) \in Nat
  BY DEF DInv, Syslog!TypeOK
<1>4. /\ 1 \in DOMAIN left /\ \A k \in DOMAIN left : left[k] \in Syslog!Numbers
      /\ \A k \in DOMAIN Tail(left) : k + 1 \in DOMAIN left /\ Tail(left)[k] = left[k + 1]
      /\ Increasing(left) => /\ Increasing(Tail(left))
                             /\ \A k \in DOMAIN Tail(left) : Tail(left)[k] > left[1]
  BY <1>2, <1>3, RestInOrder, EmptySeq, LenProperties
<1>5. call'[c] = state /\ \A d \in Calls \ {c} : call'[d] = call[d]
  BY <1>2, CallSet
<1>6. KnownLines'
  <2>1. \A k \in DOMAIN left : left[k] <= Len(lines)
    BY DEF DInv, KnownLines
  <2>2. /\ \A k \in DOMAIN state.left : state.left[k] <= Len(lines)
        /\ state.newest <= Len(lines)
        /\ state.step = "act" => state.left # <<>>
    BY <1>2, <1>4, <2>1 DEF DInv, KnownLines
  <2>3. cursor' <= Len(lines) /\ lines' = lines /\ net' = net
    BY <1>1 DEF DInv, KnownLines
  <2> QED BY <1>2, <2>2, <2>3, NextLines
<1>7. Syslog!TypeOK'
  <2>1. call' \in [Calls -> State]
    BY <1>2, CallSet
  <2> QED BY <1>1, <2>1 DEF DInv, Syslog!TypeOK, State
<1>8. ASSUME ~ muddled' PROVE Sound'
  <2>1. Sound /\ Active(c) /\ CallSound(c)
    BY <1>1, <1>8 DEF DInv, Sound, Active
  <2>2. CallSound(c)'
    <3>1. CASE Syslog!Passed(i)
      <4>1. /\ state.step = "check" /\ state.newest = call[c].newest /\ state.left = Tail(left)
        BY <1>2, <3>1
      <4>2. /\ cursor <= state.newest /\ Increasing(state.left)
            /\ Evaluated(state.newest) /\ Followed(state.newest)
        BY <1>1, <1>4, <2>1, <4>1 DEF CallSound
      <4>3. \A k \in DOMAIN state.left : state.left[k] > cursor => state.left[k] > state.newest
        BY <1>1, <1>4, <2>1, <4>1 DEF CallSound
      <4>4. Evaluated(state.newest)' /\ Followed(state.newest)'
        BY <1>1, <4>2 DEF Evaluated, Followed
      <4> QED BY <1>1, <1>5, <4>1, <4>2, <4>3, <4>4 DEF CallSound
    <3>2. CASE ~ Syslog!Passed(i)
      <4>1. i > cursor
        BY <1>3, <3>2 DEF Syslog!Passed, Syslog!Numbers
      <4>2. i > call[c].newest
        BY <1>1, <1>2, <1>4, <2>1, <4>1 DEF CallSound
      <4>3. state.newest = i
        BY <1>2, <3>2, <4>2
      <4>4. Evaluated(i - 1)
        BY <1>1, <1>3, <2>1, <4>2 DEF CallSound, Evaluated, Syslog!Numbers
      <4>5. Evaluated(i - 1)'
        BY <1>1, <4>4 DEF Evaluated
      <4>6. cursor' <= i /\ Increasing(left)
        BY <1>1, <1>3, <2>1, <4>1 DEF CallSound, Syslog!Numbers
      <4> QED BY <1>2, <1>5, <3>2, <4>3, <4>5, <4>6 DEF CallSound
    <3> QED BY <3>1, <3>2
  <2>3. Active(c)'
    BY <1>2, <1>5 DEF Active
  <2> QED BY <1>5, <2>1, <2>2, <2>3, AloneMoves
<1> QED BY <1>6, <1>7, <1>8 DEF DInv

\* Whether a line was looked at or failed, the call goes on with the next.
LEMMA MovesOn ==
  ASSUME Syslog!DetectorAssumption, DInv, NEW c \in Calls, call[c].step = "act",
         call' = [call EXCEPT ![c].step = "check", ![c].left = Tail(@)],
         UNCHANGED <<lines, net, cursor>>
  PROVE  /\ call' \in [Calls -> State] /\ KnownLines'
         /\ \A d \in Calls \ {c} : call'[d] = call[d]
         /\ call'[c].step = "check" /\ call'[c].newest = call[c].newest
         /\ call'[c].left = Tail(call[c].left)
<1> DEFINE state == [call[c] EXCEPT !.step = "check", !.left = Tail(@)]
<1>1. call[c] \in State /\ call[c].left \in Seq(Syslog!Numbers) /\ call[c].left # <<>>
  BY DEF DInv, Syslog!TypeOK, KnownLines, State
<1>2. /\ Tail(call[c].left) \in Seq(Syslog!Numbers)
      /\ \A k \in DOMAIN Tail(call[c].left) : k + 1 \in DOMAIN call[c].left
                                             /\ Tail(call[c].left)[k] = call[c].left[k + 1]
  BY <1>1, RestInOrder
<1>3. state \in State /\ state.step = "check" /\ state.left = Tail(call[c].left) /\ state.newest = call[c].newest
  BY <1>1, <1>2 DEF State
<1>4. call' = [call EXCEPT ![c] = state]
  BY <1>1 DEF DInv, Syslog!TypeOK, State
<1> HIDE DEF state
<1>5. KnownLines'
  <2>1. \A k \in DOMAIN state.left : state.left[k] <= Len(lines)
    BY <1>2, <1>3 DEF DInv, KnownLines
  <2>2. state.newest <= Len(lines) /\ cursor' <= Len(lines) /\ state.step # "act"
    BY <1>3 DEF DInv, KnownLines
  <2> QED BY <1>3, <1>4, <2>1, <2>2, NextLines
<1> QED BY <1>3, <1>4, <1>5, CallSet

LEMMA ActStep == ASSUME Syslog!DetectorAssumption, DInv, NEW c \in Calls, Syslog!Act(c) PROVE DInv'
<1>0. PICK i \in Syslog!Numbers : i = Head(call[c].left) /\ i = call[c].left[1]
  BY RestInOrder DEF Syslog!Act, DInv, Syslog!TypeOK, KnownLines
<1>1. /\ call[c].step = "act" /\ open' = (lines[i].says = "down")
      /\ runs' = [runs EXCEPT ![i] = IF @ < 2 THEN @ + 1 ELSE @]
      /\ call' = [call EXCEPT ![c].step = "check", ![c].left = Tail(@)]
      /\ UNCHANGED <<lines, batched, lineClock, net, heard, polled, cursor, muddled, mishaps>>
  BY <1>0 DEF Syslog!Act, Syslog!world
<1>2. /\ call' \in [Calls -> State] /\ KnownLines'
      /\ \A d \in Calls \ {c} : call'[d] = call[d]
      /\ call'[c].step = "check" /\ call'[c].newest = call[c].newest
      /\ call'[c].left = Tail(call[c].left)
  BY <1>1, MovesOn
<1>3. /\ call[c].left \in Seq(Syslog!Numbers) /\ call[c].left # <<>> /\ runs \in [Syslog!Numbers -> 0..2]
      /\ call[c].newest \in 0..MaxLines
  BY <1>1 DEF DInv, Syslog!TypeOK, KnownLines
<1>4. /\ i = call[c].left[1] /\ i \in Syslog!Numbers
      /\ Increasing(call[c].left) => /\ Increasing(Tail(call[c].left))
                                     /\ \A k \in DOMAIN Tail(call[c].left) : Tail(call[c].left)[k] > call[c].left[1]
  BY <1>0, <1>3, RestInOrder
<1>5. runs' \in [Syslog!Numbers -> 0..2] /\ open' \in BOOLEAN
  BY <1>1, <1>3, <1>4
<1>6. Syslog!TypeOK'
  BY <1>1, <1>2, <1>5 DEF DInv, Syslog!TypeOK, State
<1>7. ASSUME ~ muddled' PROVE Sound'
  <2>1. Sound /\ Active(c) /\ CallSound(c)
    BY <1>1, <1>7 DEF DInv, Sound, Active
  <2>2. call[c].newest = i /\ Evaluated(i - 1) /\ Increasing(call[c].left) /\ cursor <= i
    BY <1>1, <1>4, <2>1 DEF CallSound
  <2>3. runs[i] = 0
    BY <1>3, <1>4, <2>2 DEF Evaluated, Syslog!Numbers
  <2>4. \A j \in Syslog!Numbers : runs'[j] = IF j = i THEN 1 ELSE runs[j]
    BY <1>1, <1>3, <1>4, <2>3
  <2>5. Evaluated(i)'
    <3>1. \A j \in Syslog!Numbers : runs[j] <= 1 /\ (j > i - 1 => runs[j] = 0)
      BY <2>2 DEF Evaluated
    <3>2. \A j \in Syslog!Numbers : j > i => j > i - 1 /\ j # i
      BY <1>4 DEF Syslog!Numbers
    <3>3. \A j \in Syslog!Numbers : runs'[j] <= 1 /\ (j > i => runs'[j] = 0)
      BY <2>4, <3>1, <3>2
    <3> QED BY <3>3 DEF Evaluated
  <2>6. Followed(i)'
    BY <1>1 DEF Followed
  <2>7. CallSound(c)'
    BY <1>1, <1>2, <1>4, <2>2, <2>5, <2>6 DEF CallSound
  <2>8. Active(c)'
    BY <1>2 DEF Active
  <2> QED BY <1>2, <2>1, <2>7, <2>8, AloneMoves
<1> QED BY <1>2, <1>6, <1>7 DEF DInv

LEMMA ActFailsStep == ASSUME Syslog!DetectorAssumption, DInv, NEW c \in Calls, Syslog!ActFails(c) PROVE DInv'
<1>1. /\ call[c].step = "act" /\ muddled' = TRUE
      /\ call' = [call EXCEPT ![c].step = "check", ![c].left = Tail(@)]
      /\ UNCHANGED <<lines, batched, lineClock, net, heard, polled, cursor, open, runs>>
  BY DEF Syslog!ActFails, Syslog!world, Syslog!outcome
<1>2. call' \in [Calls -> State] /\ KnownLines'
  BY <1>1, MovesOn
<1>3. mishaps' \in 0..MaxMishaps
  <2>1. mishaps \in 0..MaxMishaps /\ MaxMishaps \in Nat
    BY DEF DInv, Syslog!TypeOK, Syslog!DetectorAssumption
  <2>2. mishaps < MaxMishaps /\ mishaps' = mishaps + 1
    BY DEF Syslog!ActFails, Syslog!Mishap
  <2> QED BY <2>1, <2>2
<1>4. Syslog!TypeOK'
  BY <1>1, <1>2, <1>3 DEF DInv, Syslog!TypeOK, State
<1> QED BY <1>1, <1>2, <1>4 DEF DInv

\* The end of a call that ran alone: what it saw is what the cursor means.
LEMMA FinishStep == ASSUME Syslog!DetectorAssumption, DInv, NEW c \in Calls, Syslog!Finish(c) PROVE DInv'
<1>1. /\ call[c].step = "check" /\ call[c].left = <<>> /\ cursor' = call[c].newest
      /\ call' = [call EXCEPT ![c] = Syslog!Idle]
      /\ UNCHANGED <<lines, batched, lineClock, net, heard, polled, muddled, open, runs, mishaps>>
  BY DEF Syslog!Finish, Syslog!world, Syslog!outcome
<1>2. Syslog!Idle \in State /\ Syslog!Idle.step = "idle" /\ Syslog!Idle.left = <<>> /\ Syslog!Idle.newest = 0
  BY DEF Syslog!Idle, State, Syslog!DetectorAssumption
<1>3. call[c].newest \in 0..MaxLines /\ call[c].newest <= Len(lines) /\ Len(lines) \in Nat
  BY DEF DInv, Syslog!TypeOK, KnownLines
<1>4. /\ call' \in [Calls -> State]
      /\ call'[c] = Syslog!Idle /\ \A d \in Calls \ {c} : call'[d] = call[d]
  BY <1>1, <1>2, CallSet
<1>5. KnownLines'
  <2>1. /\ \A k \in DOMAIN Syslog!Idle.left : Syslog!Idle.left[k] <= Len(lines)
        /\ Syslog!Idle.newest <= Len(lines) /\ Syslog!Idle.step # "act"
    <3>1. DOMAIN Syslog!Idle.left = {}
      BY <1>2
    <3> QED BY <1>2, <1>3, <3>1
  <2>2. cursor' <= Len(lines) /\ lines' = lines /\ net' = net
    BY <1>1, <1>3
  <2> QED BY <1>1, <1>2, <2>1, <2>2, NextLines
<1>6. Syslog!TypeOK'
  BY <1>1, <1>3, <1>4 DEF DInv, Syslog!TypeOK, State
<1>7. ASSUME ~ muddled' PROVE Sound'
  <2>1. Sound /\ Active(c) /\ CallSound(c)
    BY <1>1, <1>7 DEF DInv, Sound, Active
  <2>2. \A d \in Calls : ~ Active(d)'
    BY <1>2, <1>4, <2>1 DEF Sound, Alone, Active
  <2>3. Evaluated(cursor)' /\ Followed(cursor)'
    BY <1>1, <2>1 DEF CallSound, Evaluated, Followed
  <2> QED BY <2>2, <2>3 DEF Sound, Alone, Resting
<1> QED BY <1>5, <1>6, <1>7 DEF DInv

LEMMA ForgetStep == ASSUME Syslog!DetectorAssumption, DInv, Syslog!Crash PROVE DInv'
<1>1. /\ cursor' = 0 /\ call' = [c \in Calls |-> Syslog!Idle] /\ heard' = Syslog!Never /\ muddled' = TRUE
      /\ UNCHANGED <<lines, batched, lineClock, net, polled, open, runs>>
  BY DEF Syslog!Crash, Syslog!world, Syslog!outcome
<1>2. Syslog!Idle \in State /\ Syslog!Idle.step = "idle" /\ Syslog!Idle.left = <<>> /\ Syslog!Idle.newest = 0
  BY DEF Syslog!Idle, State, Syslog!DetectorAssumption
<1>3. mishaps' \in 0..MaxMishaps
  BY DEF Syslog!Crash, Syslog!Mishap, DInv, Syslog!TypeOK, Syslog!DetectorAssumption
<1>4. Syslog!TypeOK'
  BY <1>1, <1>2, <1>3 DEF DInv, Syslog!TypeOK, State, Syslog!DetectorAssumption
<1>5. KnownLines'
  <2>1. Len(lines) \in Nat /\ DOMAIN Syslog!Idle.left = {}
    BY <1>2 DEF DInv, Syslog!TypeOK
  <2> QED BY <1>1, <1>2, <2>1 DEF DInv, KnownLines
<1> QED BY <1>1, <1>4, <1>5 DEF DInv

-----------------------------------------------------------------------------
LEMMA DetectorStep == ASSUME Syslog!DetectorAssumption, DInv, [Syslog!Next]_(Syslog!vars) PROVE DInv'
<1>1. CASE UNCHANGED Syslog!vars
  BY <1>1, SoundKept DEF Syslog!vars, DInv, Syslog!TypeOK, KnownLines
<1>2. ASSUME NEW c \in Calls, Syslog!Fallback(c) \/ Syslog!Step(c) \/ Syslog!ActFails(c) PROVE DInv'
  BY <1>2, FallbackStep, CheckStep, ActStep, FinishStep, ActFailsStep DEF Syslog!Step
<1> QED BY <1>1, <1>2, LogsStep, SendStep, LoseStep, IngestStep, TickStep, ForgetStep DEF Syslog!Next

LEMMA DetectorInvariant ==
  ASSUME Syslog!DetectorAssumption PROVE Syslog!Init /\ [][Syslog!Next]_(Syslog!vars) => []DInv
<1>1. Syslog!Init => DInv
  BY DetectorInit
<1>2. DInv /\ [Syslog!Next]_(Syslog!vars) => DInv'
  BY DetectorStep
<1> QED BY <1>1, <1>2, PTL

\* A line that Vector posts twice, or that comes by the fast path and from Loki, is
\* evaluated once, if calls do not overlap (syslog_alerting.py), for any calls and lines.
THEOREM LinesAreEvaluatedOnce == ASSUME Syslog!DetectorAssumption PROVE Syslog!Spec => []Syslog!EvaluatedOnce
<1>1. DInv => Syslog!EvaluatedOnce
  BY EvaluatedImplied
<1> QED BY <1>1, DetectorInvariant, PTL DEF Syslog!Spec

\* Under the same conditions the event says what the device said last.
THEOREM EventFollows == ASSUME Syslog!DetectorAssumption PROVE Syslog!Spec => []Syslog!EventFollowsDevice
<1>1. DInv => Syslog!EventFollowsDevice
  BY FollowsImplied
<1> QED BY <1>1, DetectorInvariant, PTL DEF Syslog!Spec

\* Lines, batches, calls and the cursor keep their types.
THEOREM DetectorTyped == ASSUME Syslog!DetectorAssumption PROVE Syslog!Spec => []Syslog!TypeOK
<1>1. DInv => Syslog!TypeOK
  BY DEF DInv
<1> QED BY <1>1, DetectorInvariant, PTL DEF Syslog!Spec
-------------------------------------------------------------------------------
(* The event store beside the detector: a step of one leaves the variables *)
(* of the other alone.                                                     *)

LEMMA SyslogRuns == EventsSpec => Syslog!Init /\ [][Syslog!Next]_(Syslog!vars)
<1>1. EventsInit => Syslog!Init
  BY DEF EventsInit
<1>2. [EventsNext]_eventsVars => [Syslog!Next]_(Syslog!vars)
  BY DEF EventsNext, StoreStep, SyslogStep, eventsVars, lineVars, Syslog!vars
<1> QED BY <1>1, <1>2, PTL DEF EventsSpec

LEMMA StoreRuns == EventsSpec => Spec
<1>1. EventsInit => Init
  BY DEF EventsInit
<1>2. [EventsNext]_eventsVars => [Next]_vars
  BY DEF EventsNext, StoreStep, SyslogStep, eventsVars
<1> QED BY <1>1, <1>2, PTL DEF EventsSpec, Spec

\* Beside the event store too: a line that Vector posts twice, or that comes by the fast
\* path and from Loki, is evaluated once, if calls do not overlap.
THEOREM EachLineOnce == EventsSpec => []EvaluatedOnce
<1>1. DInv => EvaluatedOnce
  BY EvaluatedImplied, LinesAssumption DEF EvaluatedOnce
<1> QED BY <1>1, SyslogRuns, DetectorInvariant, LinesAssumption, PTL

\* And the event says what the device said last.
THEOREM EventsFollowDevices == EventsSpec => []EventFollowsDevice
<1>1. DInv => EventFollowsDevice
  BY FollowsImplied, LinesAssumption DEF EventFollowsDevice
<1> QED BY <1>1, SyslogRuns, DetectorInvariant, LinesAssumption, PTL

\* Rows, callers, lines, batches and cursors keep their types.
THEOREM EventsTyped == EventsSpec => []TypesOK
<1>1. TypeOK /\ DInv => TypesOK
  BY DEF DInv, TypesOK
<1>2. Spec => []TypeOK
  BY TypeCorrect
<1> QED BY <1>1, <1>2, StoreRuns, SyslogRuns, DetectorInvariant, LinesAssumption, PTL
===============================================================================
