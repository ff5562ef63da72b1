------------------------- MODULE BastionTerminalProofs -------------------------
(***************************************************************************)
(* Theorems about BastionTerminal, for any lines, policy, limits, faults   *)
(* and bounds: a console runs what was recorded, its stored transcript is  *)
(* complete when it is over, and the reason it gives for its end is true.  *)
(*                                                                         *)
(* One inductive invariant carries them, in a part for each question.      *)
(* What runs (Faithful) is counted against the stored entries only: the    *)
(* buffer holds nothing but output (Complete), so losing it loses no line. *)
(* While the worker serves, the lines that ran are the lines stored; while *)
(* it writes one, that line is the last stored and has not run.            *)
(***************************************************************************)
EXTENDS BastionTerminal, SequenceTheorems, FiniteSetTheorems, TLAPS

-----------------------------------------------------------------------------
(* The entries of a transcript.                                            *)

\* The transcript `new` is `old` and entries that are no lines of the person.
Quiet(old, new) ==
  /\ Shown(new) = Shown(old)
  /\ \A i \in Shown(old) : new[i] = old[i] /\ Nth(new, i) = Nth(old, i)

\* It is `old`, such entries, and then the line l.
Adds(old, new, l) ==
  \E k \in DOMAIN new \ Shown(old) :
    /\ Shown(new) = Shown(old) \cup {k}
    /\ new[k].what = l /\ Nth(new, k) = Cardinality(Shown(old)) + 1
    /\ \A i \in Shown(old) : new[i] = old[i] /\ Nth(new, i) = Nth(old, i)

LEMMA ShownIsFinite ==
  ASSUME NEW T \in Seq(Entry)
  PROVE  /\ IsFiniteSet(Shown(T)) /\ Cardinality(Shown(T)) \in Nat
         /\ \A i \in Shown(T) : Nth(T, i) \in Nat /\ Nth(T, i) <= Cardinality(Shown(T))
<1>1. Shown(T) \subseteq 1..Len(T) /\ Len(T) \in Nat
  BY DEF Shown
<1>2. IsFiniteSet(1..Len(T))
  BY <1>1, FS_Interval
<1>3. IsFiniteSet(Shown(T))
  BY <1>1, <1>2, FS_Subset
<1>4. ASSUME NEW i \in Shown(T) PROVE Nth(T, i) \in Nat /\ Nth(T, i) <= Cardinality(Shown(T))
  <2>1. {j \in Shown(T) : j <= i} \subseteq Shown(T)
    OBVIOUS
  <2> QED BY <1>3, <2>1, FS_Subset, FS_CardinalityType DEF Nth
<1> QED BY <1>3, <1>4, FS_CardinalityType

\* Output and notes change nothing about the lines.
LEMMA QuietGrowth ==
  ASSUME NEW T \in Seq(Entry), NEW more \in Seq(Entry),
         \A i \in DOMAIN more : more[i].stream # "in"
  PROVE  T \o more \in Seq(Entry) /\ Quiet(T, T \o more)
<1> DEFINE U == T \o more
<1>1. /\ U \in Seq(Entry) /\ Len(U) = Len(T) + Len(more) /\ Len(T) \in Nat /\ Len(more) \in Nat
      /\ \A i \in 1..Len(U) : U[i] = IF i <= Len(T) THEN T[i] ELSE more[i - Len(T)]
  BY ConcatProperties
<1> HIDE DEF U
<1>2. Shown(U) = Shown(T)
  <2>1. ASSUME NEW i \in 1..Len(U) PROVE i \in Shown(U) <=> i \in Shown(T)
    <3>1. CASE i <= Len(T)
      BY <1>1, <3>1 DEF Shown
    <3>2. CASE i > Len(T)
      <4>1. i - Len(T) \in DOMAIN more /\ U[i] = more[i - Len(T)]
        BY <1>1, <3>2
      <4> QED BY <1>1, <3>2, <4>1 DEF Shown
    <3> QED BY <1>1, <3>1, <3>2
  <2>2. Shown(U) \subseteq 1..Len(U) /\ Shown(T) \subseteq 1..Len(U)
    BY <1>1 DEF Shown
  <2> QED BY <2>1, <2>2
<1>3. \A i \in Shown(T) : U[i] = T[i] /\ Nth(U, i) = Nth(T, i)
  <2>1. \A i \in Shown(T) : i \in 1..Len(T) /\ i \in 1..Len(U)
    BY <1>1 DEF Shown
  <2> QED BY <1>1, <1>2, <2>1 DEF Nth
<1> QED BY <1>1, <1>2, <1>3 DEF Quiet, U

\* A line that is stored is the last.
LEMMA LineGrowth ==
  ASSUME NEW T \in Seq(Entry), NEW l, In(l) \in Entry
  PROVE  T \o <<In(l)>> \in Seq(Entry) /\ Adds(T, T \o <<In(l)>>, l)
<1> DEFINE U == T \o <<In(l)>>
           k == Len(T) + 1
<1>1. /\ U \in Seq(Entry) /\ Len(U) = k /\ Len(T) \in Nat /\ k \in 1..Len(U)
      /\ \A i \in 1..Len(T) : U[i] = T[i]
      /\ U[k] = In(l)
  <2>1. <<In(l)>> \in Seq(Entry) /\ Len(<<In(l)>>) = 1 /\ <<In(l)>>[1] = In(l)
    OBVIOUS
  <2> QED BY <2>1, ConcatProperties
<1> HIDE DEF U
<1>2. Shown(T) \subseteq 1..Len(T)
  BY DEF Shown
<1>3. Shown(U) = Shown(T) \cup {k} /\ k \notin Shown(T)
  <2>1. In(l).stream = "in" /\ In(l).what = l
    BY DEF In
  <2>2. DOMAIN U = 1..k /\ DOMAIN T = 1..Len(T)
    BY <1>1
  <2> QED BY <1>1, <1>2, <2>1, <2>2 DEF Shown
<1>4. ASSUME NEW i \in Shown(T) PROVE U[i] = T[i] /\ Nth(U, i) = Nth(T, i)
  <2>1. i \in 1..Len(T)
    BY <1>2
  <2>2. {j \in Shown(U) : j <= i} = {j \in Shown(T) : j <= i}
    BY <1>1, <1>3, <2>1
  <2> QED BY <1>1, <2>1, <2>2 DEF Nth
<1>5. Nth(U, k) = Cardinality(Shown(T)) + 1
  <2>1. {j \in Shown(U) : j <= k} = Shown(T) \cup {k}
    BY <1>1, <1>2, <1>3
  <2> QED BY <1>3, <2>1, ShownIsFinite, FS_AddElement DEF Nth
<1>6. U[k].what = l /\ k \in DOMAIN U
  BY <1>1 DEF In
<1> QED BY <1>1, <1>3, <1>4, <1>5, <1>6 DEF Adds, U

LEMMA QuietThenLine ==
  ASSUME NEW S, NEW T, NEW U, NEW l, Quiet(S, T), Adds(T, U, l)
  PROVE  Adds(S, U, l)
BY DEF Quiet, Adds

LEMMA QuietTwice ==
  ASSUME NEW S, NEW T, NEW U, Quiet(S, T), Quiet(T, U) PROVE Quiet(S, U)
BY DEF Quiet

\* The lines of a transcript count from one.
LEMMA NthIsPositive == ASSUME NEW T \in Seq(Entry), NEW i \in Shown(T) PROVE Nth(T, i) >= 1
<1>1. i \in 1..Len(T)
  BY DEF Shown
<1>2. i \in {j \in Shown(T) : j <= i} /\ {j \in Shown(T) : j <= i} \subseteq Shown(T)
  BY <1>1
<1>3. IsFiniteSet({j \in Shown(T) : j <= i})
  BY <1>2, ShownIsFinite, FS_Subset
<1>4. Cardinality({j \in Shown(T) : j <= i}) # 0
  BY <1>2, <1>3, FS_EmptySet
<1> QED BY <1>4, ShownIsFinite DEF Nth

\* The line that was added is the last, the others are what and where they were.
LEMMA LinesAfterAdding ==
  ASSUME NEW S \in Seq(Entry), NEW T \in Seq(Entry), NEW l, Adds(S, T, l),
         NEW n, n = Cardinality(Shown(S))
  PROVE  /\ n \in Nat /\ Cardinality(Shown(T)) = n + 1
         /\ \A i \in Shown(T) : Nth(T, i) = n + 1 => T[i].what = l
         /\ \A i \in Shown(T) : Nth(T, i) <= n =>
              i \in Shown(S) /\ T[i] = S[i] /\ Nth(T, i) = Nth(S, i)
<1>1. n \in Nat /\ IsFiniteSet(Shown(S)) /\ \A i \in Shown(S) : Nth(S, i) \in Nat /\ Nth(S, i) <= n
  BY ShownIsFinite
<1>2. PICK k \in DOMAIN T \ Shown(S) :
        /\ Shown(T) = Shown(S) \cup {k}
        /\ T[k].what = l /\ Nth(T, k) = n + 1
        /\ \A i \in Shown(S) : T[i] = S[i] /\ Nth(T, i) = Nth(S, i)
  BY DEF Adds
<1>3. Cardinality(Shown(T)) = n + 1
  BY <1>1, <1>2, FS_AddElement
<1>4. ASSUME NEW i \in Shown(T)
      PROVE  \/ Nth(T, i) = n + 1 /\ T[i].what = l
             \/ /\ i \in Shown(S) /\ T[i] = S[i] /\ Nth(T, i) = Nth(S, i)
                /\ Nth(T, i) \in Nat /\ Nth(T, i) <= n
  <2>1. i = k \/ i \in Shown(S)
    BY <1>2, <1>4
  <2> QED BY <1>1, <1>2, <2>1
<1> QED BY <1>1, <1>3, <1>4

-----------------------------------------------------------------------------
(* The inductive invariant.                                                *)

Serving == ws = "serve" /\ fin["ws"] = "no"
Writing == ws \in {"write", "enter"}

\* A _finish has written its note, which emptied the buffer.
Noted == hung \/ \E t \in Threads : fin[t] = "hang"

\* Where the threads are.
Control ==
  /\ Writing => fin["ws"] = "no"
  /\ ws = "enter" => mode = "full" /\ pending = "empty"
  /\ timer /\ mode = "full" => astray
  /\ reader = "record" => out > 0
  /\ reader \in {"loop", "record", "dead"} => fin["reader"] = "no"
  /\ \A t \in Threads : fin[t] \in {"note", "hang"} => closed
  /\ hung => closed

\* Each line that ran, or is about to, was a message.
Budget == Len(ran) + (IF Writing THEN 1 ELSE 0) <= written

\* A thread that is about to end the session has a true reason.
Honest ==
  /\ EndReasonIsHonest
  /\ why \notin {"browser closed", "ended by admin"}
  /\ why = "device disconnected" => dropped
  /\ fin["ws"] = "mark" => gone \/ dropped \/ hiccup
  /\ fin["ws"] = "check" => gone \/ dropped \/ hiccup \/ closed

\* The buffer holds output, and after the last note at most what the reader held.
Complete ==
  /\ \A i \in DOMAIN buf : buf[i] = Out
  /\ Noted => \/ buf = <<>>
              \/ Len(buf) = 1 /\ fin["reader"] = "no" /\ reader \in {"loop", "done"}

\* The lines that ran are those stored, but for one that waits to be written:
\* `line`, or what the person typed while nothing else changed it.
Count == Cardinality(Shown(chunks))
Waiting(l) == l # "empty" /\ \A i \in Shown(chunks) : Nth(chunks, i) = Count => chunks[i].what = l

Faithful ==
  /\ \A i \in Shown(chunks) : Nth(chunks, i) <= Len(ran) => ran[Nth(chunks, i)] = chunks[i].what
  /\ Count \in {Len(ran), Len(ran) + 1}
  /\ Serving => Count = Len(ran)
  /\ Writing => Count = Len(ran) + 1
  /\ ws = "write" => Waiting(line)
  /\ ws = "enter" /\ ~ closed /\ ~ dropped => Waiting(typed)
  /\ Serving /\ mode = "full" /\ ~ closed /\ ~ dropped => typed = pending

\* A read-only session runs, and is about to run, accepted lines.
Permitted ==
  mode = "readonly" => /\ \A i \in DOMAIN ran : ran[i] \in Allowed
                       /\ ws = "write" => line \in Allowed

BInv == TypeOK /\ Control /\ Budget /\ Honest /\ Complete /\ (~ astray => Faithful) /\ Permitted

-----------------------------------------------------------------------------
(* The recorder.                                                           *)

LEMMA EntriesTyped ==
  /\ Out \in Entry /\ Out.stream # "in" /\ \A l \in Typed : In(l) \in Entry
  /\ \A about \in {"refused", "cut", "ended"} : Note(about) \in Entry /\ Note(about).stream # "in"
BY DEF Out, Entry, In, Note, Typed

\* What writing the buffer, or failing to, makes of the stored entries.
LEMMA BufferWritten ==
  ASSUME TypeOK, NEW buffer \in Seq(Entry), \A i \in DOMAIN buffer : buffer[i] = Out,
         NEW kept \in BOOLEAN
  PROVE  LET stored == IF kept THEN chunks \o buffer ELSE chunks
         IN  stored \in Seq(Entry) /\ Quiet(chunks, stored)
<1>1. chunks \in Seq(Entry)
  BY DEF TypeOK
<1>2. chunks \o buffer \in Seq(Entry) /\ Quiet(chunks, chunks \o buffer)
  BY <1>1, QuietGrowth, EntriesTyped
<1>3. Quiet(chunks, chunks)
  BY DEF Quiet
<1> QED BY <1>1, <1>2, <1>3

LEMMA StoreEffect ==
  ASSUME BInv, NEW entry \in Entry, NEW stored \in BOOLEAN, Store(entry, stored)
  PROVE  /\ buf' = <<>> /\ hiccup' \in BOOLEAN /\ (hiccup \/ ~ stored => hiccup')
         /\ chunks' \in Seq(Entry)
         /\ entry.stream # "in" \/ ~ stored => Quiet(chunks, chunks')
         /\ \A l \in Typed : entry = In(l) /\ stored => Adds(chunks, chunks', l)
<1>1. PICK kept \in BOOLEAN :
        /\ chunks' = (IF kept THEN chunks \o buf ELSE chunks) \o (IF stored THEN <<entry>> ELSE <<>>)
        /\ hiccup' = (hiccup \/ ~ stored \/ ~ kept)
  BY DEF Store, Outcomes
<1> DEFINE middle == IF kept THEN chunks \o buf ELSE chunks
<1>2. middle \in Seq(Entry) /\ Quiet(chunks, middle)
  BY BufferWritten DEF BInv, TypeOK, Complete
<1>3. buf' = <<>> /\ hiccup' \in BOOLEAN /\ (hiccup \/ ~ stored => hiccup')
  BY <1>1 DEF Store, BInv, TypeOK
<1>4. chunks' = middle \o (IF stored THEN <<entry>> ELSE <<>>)
  BY <1>1
<1> HIDE DEF middle
<1>5. CASE ~ stored
  <2>1. chunks' = middle
    BY <1>2, <1>4, <1>5, ConcatEmptySeq
  <2> QED BY <1>2, <1>3, <1>5, <2>1
<1>6. CASE stored
  <2>1. chunks' = middle \o <<entry>> /\ <<entry>> \in Seq(Entry) /\ chunks' \in Seq(Entry)
    BY <1>2, <1>4, <1>6, ConcatProperties
  <2>2. ASSUME entry.stream # "in" PROVE Quiet(chunks, chunks')
    <3>1. \A i \in DOMAIN <<entry>> : <<entry>>[i].stream # "in"
      BY <2>2
    <3>2. Quiet(middle, chunks')
      BY <1>2, <2>1, <3>1, QuietGrowth
    <3> QED BY <1>2, <3>2, QuietTwice
  <2>3. ASSUME NEW l \in Typed, entry = In(l) PROVE Adds(chunks, chunks', l)
    <3>1. Adds(middle, chunks', l)
      BY <1>2, <2>1, <2>3, LineGrowth
    <3> QED BY <1>2, <3>1, QuietThenLine
  <2> QED BY <1>3, <1>6, <2>1, <2>2, <2>3
<1> QED BY <1>5, <1>6

LEMMA FlushEffect ==
  ASSUME BInv, NEW buffer \in Seq(Entry), \A i \in DOMAIN buffer : buffer[i] = Out, FlushOrNot(buffer)
  PROVE  /\ buf' \in {buffer, <<>>} /\ buf' \in Seq(Entry) /\ \A i \in DOMAIN buf' : buf'[i] = Out
         /\ hiccup' \in BOOLEAN /\ (hiccup => hiccup')
         /\ chunks' \in Seq(Entry) /\ Quiet(chunks, chunks')
<1> DEFINE Goal == /\ buf' \in {buffer, <<>>}
                   /\ hiccup' \in BOOLEAN /\ (hiccup => hiccup')
                   /\ chunks' \in Seq(Entry) /\ Quiet(chunks, chunks')
<1>1. CASE buf' = buffer /\ UNCHANGED <<chunks, hiccup>>
  BY <1>1 DEF BInv, TypeOK, Quiet
<1>2. ASSUME NEW kept \in BOOLEAN, buf' = <<>>, chunks' = IF kept THEN chunks \o buffer ELSE chunks,
             hiccup' = (hiccup \/ ~ kept)
      PROVE  Goal
  BY <1>2, BufferWritten DEF BInv, TypeOK
<1>3. \A kept \in Outcomes : kept \in BOOLEAN
  BY DEF Outcomes
<1>4. Goal
  <2>1. ASSUME NEW kept \in Outcomes, buf' = <<>>, chunks' = IF kept THEN chunks \o buffer ELSE chunks,
               hiccup' = (hiccup \/ ~ kept)
        PROVE  Goal
    BY <1>2, <1>3, <2>1
  <2>2. CASE ~ (buf' = buffer /\ UNCHANGED <<chunks, hiccup>>)
    <3>1. PICK kept \in Outcomes : /\ buf' = <<>> /\ hiccup' = (hiccup \/ ~ kept)
                                   /\ chunks' = IF kept THEN chunks \o buffer ELSE chunks
      BY <2>2, Zenon DEF FlushOrNot
    <3> QED BY <2>1, <3>1
  <2>3. CASE buf' = buffer /\ UNCHANGED <<chunks, hiccup>>
    BY <1>1, <2>3
  <2> QED BY <2>2, <2>3
<1>5. buf' \in Seq(Entry) /\ \A i \in DOMAIN buf' : buf'[i] = Out
  <2>1. CASE buf' = buffer
    BY <2>1
  <2>2. CASE buf' = <<>>
    BY <2>2, EmptySeq
  <2> QED BY <1>4, <2>1, <2>2
<1> QED BY <1>4, <1>5

-----------------------------------------------------------------------------
(* What becomes of the lines that ran.                                     *)

\* Nothing is recorded and nothing runs; the worker may give up what it was writing.
LEMMA FaithfulKept ==
  ASSUME BInv, Faithful, Quiet(chunks, chunks'), ran' = ran,
         Writing' => ws' = ws,
         Serving' => Serving,
         ws' = "write" => line' = line,
         ws' = "enter" /\ ~ closed' /\ ~ dropped' => ~ closed /\ ~ dropped /\ typed' = typed,
         Serving' /\ mode' = "full" /\ ~ closed' /\ ~ dropped' => typed' = pending'
  PROVE  Faithful'
<1>1. Count' = Count /\ Shown(chunks)' = Shown(chunks)
  BY DEF Count, Quiet
<1>2. \A i \in Shown(chunks) : chunks'[i] = chunks[i] /\ Nth(chunks, i)' = Nth(chunks, i)
  BY DEF Quiet
<1>3. \A l : Waiting(l) => Waiting(l)'
  BY <1>1, <1>2 DEF Waiting
<1>4. ws' = "write" => Waiting(line)'
  BY <1>3 DEF Faithful, Writing, Waiting
<1>5. ws' = "enter" /\ ~ closed' /\ ~ dropped' => Waiting(typed)'
  BY <1>3 DEF Faithful, Writing, Waiting
<1> QED BY <1>1, <1>2, <1>4, <1>5 DEF Faithful, Writing

\* A line is recorded and waits to be written.
LEMMA FaithfulRecorded ==
  ASSUME BInv, Faithful, Serving, NEW l, l # "empty", Adds(chunks, chunks', l), chunks' \in Seq(Entry),
         ran' = ran, Writing',
         ws' = "write" => line' = l,
         ws' = "enter" /\ ~ closed' /\ ~ dropped' => typed' = l
  PROVE  Faithful'
<1>1. PICK n : n = Count /\ n = Len(ran)
  BY DEF Faithful
<1>2. chunks \in Seq(Entry)
  BY DEF BInv, TypeOK
<1>3. /\ n \in Nat /\ Count' = n + 1
      /\ \A i \in Shown(chunks') : Nth(chunks', i) = n + 1 => chunks'[i].what = l
      /\ \A i \in Shown(chunks') : Nth(chunks', i) <= n =>
           i \in Shown(chunks) /\ chunks'[i] = chunks[i] /\ Nth(chunks', i) = Nth(chunks, i)
  BY <1>1, <1>2, LinesAfterAdding DEF Count
<1>5. (ws' = "write" => Waiting(line)') /\ (ws' = "enter" /\ ~ closed' /\ ~ dropped' => Waiting(typed)')
  BY <1>3 DEF Waiting
<1>6. \A i \in Shown(chunks') : Nth(chunks', i) <= n => ran[Nth(chunks', i)] = chunks'[i].what
  BY <1>1, <1>3 DEF Faithful
<1> QED BY <1>1, <1>3, <1>5, <1>6 DEF Faithful, Serving, Writing

\* The line that waited runs.
LEMMA FaithfulRun ==
  ASSUME BInv, Faithful, Writing, NEW l \in Typed \ {"empty"}, Waiting(l), chunks' = chunks,
         ran' = Append(ran, l), ws' = "serve",
         Serving' /\ mode' = "full" /\ ~ closed' /\ ~ dropped' => typed' = pending'
  PROVE  Faithful'
<1>1. chunks \in Seq(Entry) /\ ran \in Seq(Typed \ {"empty"})
  BY DEF BInv, TypeOK
<1>2. PICK n \in Nat : n = Len(ran) /\ Count = n + 1
  BY <1>1 DEF Faithful, Writing
<1>3. Len(ran') = n + 1 /\ ran'[n + 1] = l /\ \A m \in 1..n : ran'[m] = ran[m]
  BY <1>1, <1>2, AppendProperties
<1>4. ASSUME NEW i \in Shown(chunks) PROVE Nth(chunks, i) \in 1..n + 1
  <2>1. Nth(chunks, i) \in Nat /\ Nth(chunks, i) <= Count /\ Nth(chunks, i) >= 1
    BY <1>1, ShownIsFinite, NthIsPositive DEF Count
  <2> QED BY <1>2, <2>1
<1>5. ASSUME NEW i \in Shown(chunks) PROVE ran'[Nth(chunks, i)] = chunks[i].what
  <2>1. CASE Nth(chunks, i) = n + 1
    BY <1>2, <1>3, <2>1 DEF Waiting
  <2>2. CASE Nth(chunks, i) # n + 1
    <3>1. PICK m \in 1..n : m = Nth(chunks, i)
      BY <1>4, <2>2
    <3>2. m <= Len(ran)
      BY <1>2
    <3>3. ran[m] = chunks[i].what
      BY <3>1, <3>2 DEF Faithful
    <3> QED BY <1>3, <3>1, <3>3
  <2> QED BY <2>1, <2>2
<1>6. Count' = n + 1
  BY <1>2 DEF Count
<1> QED BY <1>3, <1>5, <1>6 DEF Faithful, Writing, Serving

-----------------------------------------------------------------------------
LEMMA InitHolds == ASSUME Init PROVE BInv
<1> USE DEF Init
<1>1. chunks = <<>> /\ buf = <<>> /\ ran = <<>> /\ DOMAIN chunks = {} /\ DOMAIN buf = {} /\ DOMAIN ran = {}
  OBVIOUS
<1>2. TypeOK
  <2>1. /\ mode \in {"full", "readonly"} /\ {typed, pending, line} \subseteq Typed
        /\ ws = "serve" /\ reader = "loop" /\ late = "no" /\ {reason, why} = {"none"}
        /\ \A flag \in {dropped, gone, astray, timer, truncated, hiccup, closed, hung} : flag \in BOOLEAN
        /\ fin \in [Threads -> {"no", "check", "mark", "note", "hang", "done"}]
    BY DEF Typed
  <2>2. /\ out \in Nat /\ printed \in 0..MaxPrinted /\ written \in 0..MaxWritten
        /\ buf \in Seq(Entry) /\ chunks \in Seq(Entry) /\ ran \in Seq(Typed \ {"empty"})
        /\ Len(ran) <= MaxWritten
    BY TerminalAssumption
  <2> QED BY <2>1, <2>2 DEF TypeOK
<1>3. Control /\ Budget
  BY DEF Control, Budget, Writing, Threads
<1>4. Honest /\ Complete /\ Permitted
  BY <1>1 DEF Honest, EndReasonIsHonest, Complete, Noted, Permitted, Threads
<1>5. Faithful
  <2>1. Shown(chunks) = {} /\ Count = 0 /\ Len(ran) = 0
    BY <1>1, FS_EmptySet DEF Shown, Count
  <2> QED BY <2>1 DEF Faithful, Writing
<1> QED BY <1>2, <1>3, <1>4, <1>5 DEF BInv

-----------------------------------------------------------------------------
(* The device.                                                             *)

LEMMA CountsTyped ==
  ASSUME TypeOK
  PROVE  /\ out \in Nat /\ printed \in 0..MaxPrinted /\ written \in 0..MaxWritten
         /\ MaxPrinted \in Nat /\ MaxWritten \in Nat /\ MaxRecord \in Nat
         /\ ran \in Seq(Typed \ {"empty"}) /\ Len(ran) \in Nat
<1>1. MaxPrinted \in Nat /\ MaxWritten \in Nat /\ MaxRecord \in Nat
  BY TerminalAssumption
<1>2. out \in Nat /\ printed \in 0..MaxPrinted /\ written \in 0..MaxWritten
  BY DEF TypeOK
<1>3. ran \in Seq(Typed \ {"empty"})
  BY DEF TypeOK
<1> QED BY <1>1, <1>2, <1>3, LenProperties

\* Steps that leave the recording and the lines that ran alone, and end nothing.
LEMMA NothingRecorded ==
  ASSUME BInv, UNCHANGED <<buf, chunks, ran, reader, why, hung, fin, closed, reason, gone, hiccup>>,
         dropped => dropped'
  PROVE  Honest' /\ Complete' /\ Quiet(chunks, chunks')
<1>1. Honest'
  BY DEF BInv, Honest, EndReasonIsHonest
<1>2. Complete'
  BY DEF BInv, Complete, Noted
<1> QED BY <1>1, <1>2 DEF Quiet

LEMMA DevicePrintsStep == ASSUME BInv, DevicePrints PROVE BInv'
<1>1. /\ out' = out + 1 /\ printed' = printed + 1 /\ printed < MaxPrinted
      /\ UNCHANGED <<mode, typed, ran, dropped, ws, line, written, pending, astray, timer, gone, late,
                     reader, why, buf, chunks, truncated, hiccup, closed, reason, hung, fin>>
  BY DEF DevicePrints, Prints, person, reading, recording, ending
<1>2. out \in Nat /\ out' \in Nat /\ out' > 0 /\ printed' \in 0..MaxPrinted
  BY <1>1, CountsTyped DEF BInv
<1>2a. TypeOK'
  BY <1>1, <1>2 DEF BInv, TypeOK
<1>3. Control' /\ Budget'
  BY <1>1, <1>2 DEF BInv, Control, Budget, Writing
<1>4. ~ astray' => Faithful'
  BY <1>1, NothingRecorded, FaithfulKept DEF BInv, Faithful, Writing, Serving
<1> QED BY <1>1, <1>2a, <1>3, <1>4, NothingRecorded DEF BInv, Permitted

LEMMA DeviceDropsStep == ASSUME BInv, DeviceDrops PROVE BInv'
<1>1. /\ dropped' = TRUE
      /\ UNCHANGED <<mode, typed, out, printed, ran, ws, line, written, pending, astray, timer, gone, late,
                     reader, why, buf, chunks, truncated, hiccup, closed, reason, hung, fin>>
  BY DEF DeviceDrops, device, person, reading, recording, ending
<1>2. TypeOK'
  BY <1>1 DEF BInv, TypeOK
<1>2a. Control' /\ Budget'
  BY <1>1 DEF BInv, Control, Budget, Writing
<1>3. ~ astray' => Faithful'
  BY <1>1, NothingRecorded, FaithfulKept DEF BInv, Writing, Serving
<1> QED BY <1>1, <1>2, <1>2a, <1>3, NothingRecorded DEF BInv, Permitted

LEMMA TimePassesStep == ASSUME BInv, TimePasses PROVE BInv'
<1>1. /\ late' \in Limits
      /\ UNCHANGED <<mode, typed, out, printed, ran, dropped, ws, line, written, pending, astray, timer, gone,
                     reader, why, buf, chunks, truncated, hiccup, closed, reason, hung, fin>>
  BY DEF TimePasses, device, person, reading, recording, ending
<1>2. TypeOK'
  BY <1>1, TerminalAssumption DEF BInv, TypeOK
<1>2a. Control' /\ Budget'
  BY <1>1 DEF BInv, Control, Budget, Writing
<1>3. ~ astray' => Faithful'
  BY <1>1, NothingRecorded, FaithfulKept DEF BInv, Faithful, Writing, Serving
<1> QED BY <1>1, <1>2, <1>2a, <1>3, NothingRecorded DEF BInv, Permitted

LEMMA TimerStep == ASSUME BInv, TimerFires PROVE BInv'
<1>1. /\ timer /\ timer' = FALSE /\ typed' \in {typed, "empty"}
      /\ UNCHANGED <<mode, out, printed, ran, dropped, ws, line, written, pending, astray, gone, late,
                     reader, why, buf, chunks, truncated, hiccup, closed, reason, hung, fin>>
  BY DEF TimerFires, reading, recording, ending
<1>2. TypeOK'
  <2>1. typed \in Typed /\ "empty" \in Typed
    BY DEF BInv, TypeOK, Typed
  <2>2. typed' \in Typed /\ timer' \in BOOLEAN
    BY <1>1, <2>1
  <2> QED BY <1>1, <2>2 DEF BInv, TypeOK
<1>2a. Control' /\ Budget'
  BY <1>1 DEF BInv, Control, Budget, Writing
<1>3. ~ astray' => Faithful'
  <2>1. ~ astray => mode # "full"
    BY <1>1 DEF BInv, Control
  <2> QED BY <1>1, <2>1, NothingRecorded, FaithfulKept DEF BInv, Control, Writing, Serving
<1> QED BY <1>1, <1>2, <1>2a, <1>3, NothingRecorded DEF BInv, Permitted

-----------------------------------------------------------------------------
(* The WebSocket's worker.                                                 *)

FinSteps == {"no", "check", "mark", "note", "hang", "done"}

\* The worker goes on, or it leaves: because the session is over, because the device
\* has gone, or because the transcript could not be written.
Goes(step) ==
  \/ ws' = step /\ fin' = fin
  \/ ws' = "serve" /\ fin' = [fin EXCEPT !["ws"] = "check"] /\ (closed \/ dropped \/ hiccup')

LEMMA WorkerMoves ==
  ASSUME BInv, fin["ws"] = "no", NEW step \in {"serve", "write", "enter"}, Goes(step),
         UNCHANGED <<mode, dropped, gone, reader, why, closed, reason, hung>>,
         out' \in Nat, out' >= out, hiccup => hiccup',
         step = "enter" => mode = "full" /\ pending' = "empty",
         timer' /\ mode = "full" => astray'
  PROVE  /\ Control' /\ Honest' /\ (Noted' <=> Noted) /\ fin' \in [Threads -> FinSteps]
         /\ fin'["reader"] = fin["reader"] /\ ws' \in {"serve", step}
         /\ Writing' => ws' = step /\ fin' = fin
<1>1. fin \in [Threads -> FinSteps] /\ out \in Nat
  BY DEF BInv, TypeOK, FinSteps
<1>2. /\ fin' \in [Threads -> FinSteps] /\ \A t \in Threads \ {"ws"} : fin'[t] = fin[t]
      /\ fin'["ws"] \in {"no", "check"} /\ (fin'["ws"] = "check" => closed \/ dropped \/ hiccup')
      /\ ws' \in {"serve", step} /\ (Writing' => ws' = step /\ fin' = fin)
  BY <1>1 DEF Goes, FinSteps, Threads, Writing
<1>3. reader = "record" => out' > 0
  BY <1>1 DEF BInv, Control
<1>4. Control'
  BY <1>2, <1>3 DEF BInv, Control, Threads, Writing
<1>5. Honest'
  BY <1>2 DEF BInv, Honest, EndReasonIsHonest, Threads
<1>6. Noted' <=> Noted
  BY <1>2 DEF Noted, Threads
<1> QED BY <1>2, <1>4, <1>5, <1>6 DEF Threads

LEMMA CompleteKept ==
  ASSUME BInv, Noted' => Noted,
         buf' = <<>> \/ (UNCHANGED <<buf, reader>> /\ fin'["reader"] = fin["reader"])
  PROVE  Complete'
BY DEF BInv, Complete

\* A message counts.
LEMMA MessageCounts ==
  ASSUME BInv, Message
  PROVE  /\ written' = written + 1 /\ written' \in 0..MaxWritten /\ late' \in {"no", "idle", "cap"}
         /\ Serving /\ UNCHANGED <<mode, dropped, gone, reader, why>>
         /\ ran' = ran /\ ws' \in {"serve", "write", "enter"} => Budget'
<1>1. /\ written' = written + 1 /\ written < MaxWritten /\ late' \in {"no", late}
      /\ Serving /\ UNCHANGED <<mode, dropped, gone, reader, why>>
  BY DEF Message, Serving, reading
<1>2. written' \in 0..MaxWritten
  BY <1>1, CountsTyped DEF BInv
<1>3. ASSUME ran' = ran PROVE Budget'
  BY <1>1, <1>3, CountsTyped DEF BInv, Budget, Serving, Writing
<1> QED BY <1>1, <1>2, <1>3 DEF BInv, TypeOK

\* What a message makes of the device when nothing is recorded: nothing runs.
LEMMA KeysSent ==
  ASSUME BInv, Message, Goes("serve"), UNCHANGED <<ran, buf, chunks, hiccup, truncated, closed, reason, hung, line>>,
         typed' \in Typed, pending' \in Typed, timer' \in BOOLEAN, astray' \in BOOLEAN,
         out' \in Nat, out' >= out, printed' \in 0..MaxPrinted,
         timer' /\ mode = "full" => astray', astray => astray',
         mode = "full" /\ ~ closed /\ ~ dropped /\ ~ astray' => (typed = pending => typed' = pending')
  PROVE  BInv'
<1>1. /\ written' \in 0..MaxWritten /\ late' \in {"no", "idle", "cap"} /\ Serving /\ fin["ws"] = "no"
      /\ UNCHANGED <<mode, dropped, gone, reader, why>>
  BY MessageCounts DEF Serving
<1>2. /\ Control' /\ Honest' /\ (Noted' <=> Noted) /\ fin' \in [Threads -> FinSteps]
      /\ fin'["reader"] = fin["reader"] /\ ws' = "serve"
  BY <1>1, WorkerMoves
<1>3. TypeOK'
  BY <1>1, <1>2 DEF BInv, TypeOK, FinSteps
<1>4. Budget'
  BY <1>2, MessageCounts
<1>5. Complete'
  BY <1>1, <1>2, CompleteKept
<1>6. ASSUME ~ astray' PROVE Faithful'
  <2>1. Faithful /\ Quiet(chunks, chunks')
    BY <1>6 DEF BInv, Quiet
  <2>2. Serving' /\ mode' = "full" /\ ~ closed' /\ ~ dropped' => typed' = pending'
    BY <1>1, <1>6, <2>1 DEF Faithful
  <2> QED BY <1>1, <1>2, <2>1, <2>2, FaithfulKept DEF Writing
<1>7. Permitted'
  BY <1>1, <1>2 DEF BInv, Permitted
<1> QED BY <1>2, <1>3, <1>4, <1>5, <1>6, <1>7 DEF BInv

\* What can come of a write to the channel.
LEMMA TypeKeysStep == ASSUME BInv, NEW l \in Lines, TypeKeys(l) PROVE BInv'
<1>1. /\ Message /\ mode = "full" /\ pending' = Join(pending, l)
      /\ UNCHANGED <<ran, out, printed, line, astray, timer, buf, chunks, truncated, hiccup, closed, reason, hung>>
      /\ Goes("serve")
      /\ \/ typed' = Join(typed, l)
         \/ (closed \/ dropped) /\ typed' = typed
  BY DEF TypeKeys, Sends, Next_, Leave, Goes, device, recording
<1>2. typed' \in Typed /\ pending' \in Typed
  BY <1>1 DEF BInv, TypeOK, Join, Typed
<1>3. /\ timer' \in BOOLEAN /\ astray' \in BOOLEAN /\ out \in Nat /\ printed' \in 0..MaxPrinted
      /\ (timer' /\ mode = "full" => astray')
  BY <1>1 DEF BInv, TypeOK, Control
<1> QED BY <1>1, <1>2, <1>3, KeysSent

LEMMA CtrlCStep == ASSUME BInv, CtrlC PROVE BInv'
<1>1. /\ Message /\ astray' = (astray \/ pending # "empty")
      /\ UNCHANGED <<ran, out, printed, line, pending, timer, buf, chunks, truncated, hiccup, closed, reason, hung>>
      /\ Goes("serve")
      /\ \/ typed' = "empty"
         \/ (closed \/ dropped) /\ typed' = typed
  BY DEF CtrlC, Sends, Next_, Leave, Goes, device, recording
<1>2. typed' \in Typed /\ pending' \in Typed
  BY <1>1 DEF BInv, TypeOK, Typed
<1>3. /\ timer' \in BOOLEAN /\ astray' \in BOOLEAN /\ out \in Nat /\ printed' \in 0..MaxPrinted
      /\ (timer' /\ mode = "full" => astray')
  BY <1>1 DEF BInv, TypeOK, Control
<1>4. ~ closed /\ ~ dropped /\ ~ astray' => typed' = pending'
  BY <1>1
<1>5. out' \in Nat /\ out' >= out
  <2>1. out' = out
    BY <1>1
  <2> QED BY <1>3, <2>1
<1>6. astray => astray'
  BY <1>1
<1> QED BY <1>1, <1>2, <1>3, <1>4, <1>5, <1>6, KeysSent

LEMMA HelpStep == ASSUME BInv, NEW l \in Lines, Help(l) PROVE BInv'
<1>1. /\ Message /\ astray' = (astray \/ mode = "full") /\ timer' = (timer \/ (~ closed /\ ~ dropped))
      /\ UNCHANGED <<ran, line, pending, buf, chunks, truncated, hiccup, closed, reason, hung>>
      /\ Goes("serve") /\ typed' \in {typed, l}
      /\ \/ UNCHANGED <<out, printed>>
         \/ printed < MaxPrinted /\ out' = out + 1 /\ printed' = printed + 1
  BY DEF Help, Sends, Next_, Leave, Goes, Prints, device, recording
<1>2. typed' \in Typed /\ pending' \in Typed
  BY <1>1 DEF BInv, TypeOK, Typed
<1>3. out \in Nat /\ out' \in Nat /\ out' >= out /\ printed' \in 0..MaxPrinted
  BY <1>1, CountsTyped DEF BInv
<1>4. timer' \in BOOLEAN /\ astray' \in BOOLEAN /\ (timer' /\ mode = "full" => astray')
  BY <1>1 DEF BInv, TypeOK, Control
<1> QED BY <1>1, <1>2, <1>3, <1>4, KeysSent

\* A line that is recorded, or a refusal, or neither: nothing is written yet.
LEMMA LineStored ==
  ASSUME BInv, Message, NEW step \in {"serve", "write", "enter"}, Goes(step),
         UNCHANGED <<typed, out, printed, ran, astray, timer, truncated, closed, reason, hung>>,
         line' \in Typed, pending' \in Typed,
         buf' = <<>>, hiccup' \in BOOLEAN, hiccup => hiccup', chunks' \in Seq(Entry),
         step = "enter" => mode = "full" /\ pending' = "empty",
         step = "write" /\ mode = "readonly" => line' \in Allowed,
         \/ step = "serve" /\ Quiet(chunks, chunks') /\ (Serving' => pending' = pending)
         \/ /\ ws' = step /\ fin' = fin
            /\ \E l \in Typed \ {"empty"} :
                 /\ Adds(chunks, chunks', l)
                 /\ \/ step = "write" /\ line' = l
                    \/ step = "enter" /\ pending = l
  PROVE  BInv'
<1>1. /\ written' = written + 1 /\ written' \in 0..MaxWritten /\ late' \in {"no", "idle", "cap"}
      /\ Serving /\ fin["ws"] = "no" /\ UNCHANGED <<mode, dropped, gone, reader, why>>
  BY MessageCounts DEF Serving
<1>2. out' \in Nat /\ out' >= out /\ (timer' /\ mode = "full" => astray')
  <2>1. out \in Nat
    BY CountsTyped DEF BInv
  <2> QED BY <2>1 DEF BInv, Control
<1>3. /\ Control' /\ Honest' /\ (Noted' <=> Noted) /\ fin' \in [Threads -> FinSteps]
      /\ fin'["reader"] = fin["reader"] /\ ws' \in {"serve", step}
      /\ Writing' => ws' = step /\ fin' = fin
  BY <1>1, <1>2, WorkerMoves
<1>4. TypeOK'
  <2>1. buf' \in Seq(Entry)
    OBVIOUS
  <2>2. ws' \in {"serve", "write", "enter", "left"} /\ fin' \in [Threads -> FinSteps]
    BY <1>3
  <2> QED BY <1>1, <2>1, <2>2 DEF BInv, TypeOK, FinSteps
<1>5. Budget'
  BY <1>3, MessageCounts
<1>6. Complete'
  BY <1>3, CompleteKept
<1>7. ASSUME ~ astray' PROVE Faithful'
  <2>1. Faithful
    BY <1>7 DEF BInv
  <2>2. CASE step = "serve" /\ Quiet(chunks, chunks') /\ (Serving' => pending' = pending)
    <3>1. Serving' /\ mode' = "full" /\ ~ closed' /\ ~ dropped' => typed' = pending'
      BY <1>1, <2>1, <2>2 DEF Faithful
    <3> QED BY <1>1, <1>3, <2>1, <2>2, <3>1, FaithfulKept DEF Writing
  <2>3. ASSUME NEW l \in Typed \ {"empty"}, ws' = step, fin' = fin, Adds(chunks, chunks', l),
               \/ step = "write" /\ line' = l
               \/ step = "enter" /\ pending = l
        PROVE  Faithful'
    <3>1. Writing' /\ l # "empty"
      BY <2>3 DEF Writing
    <3>2. ws' = "write" => line' = l
      BY <2>3
    <3>3. ws' = "enter" /\ ~ closed' /\ ~ dropped' => typed' = l
      BY <1>1, <2>1, <2>3 DEF Faithful
    <3> QED BY <1>1, <2>1, <2>3, <3>1, <3>2, <3>3, FaithfulRecorded
  <2> QED BY <2>2, <2>3
<1>8. Permitted'
  BY <1>1, <1>3 DEF BInv, Permitted
<1> QED BY <1>3, <1>4, <1>5, <1>6, <1>7, <1>8 DEF BInv

LEMMA SubmitStep == ASSUME BInv, NEW l \in Lines, Submit(l) PROVE BInv'
<1> DEFINE refused == mode = "readonly" /\ l \notin Allowed
<1>1. PICK stored \in BOOLEAN :
        /\ Message /\ Store(IF refused THEN Note("refused") ELSE In(l), stored)
        /\ IF ~ stored THEN ws' = "serve" /\ Leave /\ UNCHANGED line
           ELSE IF refused THEN Next_("serve") /\ UNCHANGED line
                ELSE Next_("write") /\ line' = l
        /\ UNCHANGED <<typed, out, printed, ran, pending, astray, timer, truncated, closed, reason, hung>>
  BY DEF Submit, device
<1>2. l \in Typed \ {"empty"} /\ Note("refused") \in Entry /\ In(l) \in Entry /\ Note("refused").stream # "in"
  BY TerminalAssumption, EntriesTyped DEF Typed
<1>3. /\ buf' = <<>> /\ hiccup' \in BOOLEAN /\ (hiccup \/ ~ stored => hiccup') /\ chunks' \in Seq(Entry)
      /\ refused \/ ~ stored => Quiet(chunks, chunks')
      /\ ~ refused /\ stored => Adds(chunks, chunks', l)
  <2>1. CASE refused
    <3>1. Store(Note("refused"), stored)
      BY <1>1, <2>1
    <3> QED BY <1>2, <2>1, <3>1, StoreEffect
  <2>2. CASE ~ refused
    <3>1. Store(In(l), stored)
      BY <1>1, <2>2
    <3> QED BY <1>2, <2>2, <3>1, StoreEffect
  <2> QED BY <2>1, <2>2
<1>4. l \in Typed /\ line \in Typed /\ line' \in {line, l} /\ pending' = pending /\ pending \in Typed
  BY <1>1, <1>2 DEF BInv, TypeOK
<1>5. CASE stored /\ ~ refused
  <2>1. Goes("write") /\ ws' = "write" /\ fin' = fin /\ line' = l
    BY <1>1, <1>5 DEF Next_, Goes
  <2> HIDE DEF refused
  <2>2. mode = "readonly" => line' \in Allowed
    BY <1>5, <2>1 DEF refused
  <2> QED BY <1>1, <1>2, <1>3, <1>4, <1>5, <2>1, <2>2, LineStored
<1>6. CASE refused \/ ~ stored
  <2>1. Goes("serve")
    BY <1>1, <1>3, <1>6 DEF Next_, Goes, Leave
  <2> HIDE DEF refused
  <2> QED BY <1>1, <1>3, <1>4, <1>6, <2>1, LineStored
<1> QED BY <1>5, <1>6

LEMMA PressEnterStep == ASSUME BInv, PressEnter PROVE BInv'
<1>1. PICK stored \in BOOLEAN :
        /\ Message /\ mode = "full" /\ pending # "empty" /\ pending' = "empty" /\ Store(In(pending), stored)
        /\ IF stored THEN Next_("enter") ELSE ws' = "serve" /\ Leave
        /\ UNCHANGED <<typed, out, printed, ran, line, astray, timer, truncated, closed, reason, hung>>
  BY DEF PressEnter, device
<1>2. pending \in Typed /\ pending \in Typed \ {"empty"} /\ In(pending) \in Entry /\ line' \in Typed /\ pending' \in Typed
  BY <1>1, EntriesTyped DEF BInv, TypeOK, Typed
<1>3. /\ buf' = <<>> /\ hiccup' \in BOOLEAN /\ (hiccup \/ ~ stored => hiccup') /\ chunks' \in Seq(Entry)
      /\ ~ stored => Quiet(chunks, chunks')
      /\ stored => Adds(chunks, chunks', pending)
  BY <1>1, <1>2, StoreEffect
<1>4. CASE stored
  <2>1. Goes("enter") /\ ws' = "enter" /\ fin' = fin
    BY <1>1, <1>4 DEF Next_, Goes
  <2> QED BY <1>1, <1>2, <1>3, <1>4, <2>1, LineStored
<1>5. CASE ~ stored
  <2>1. Goes("serve") /\ ~ Serving'
    <3>1. fin \in [Threads -> FinSteps]
      BY DEF BInv, TypeOK, FinSteps
    <3> QED BY <1>1, <1>3, <1>5, <3>1 DEF Goes, Leave, Serving, Threads
  <2> QED BY <1>1, <1>2, <1>3, <1>5, <2>1, LineStored
<1> QED BY <1>4, <1>5

\* The line that waited is written: it runs, or the worker leaves.
LEMMA LineWritten ==
  ASSUME BInv, Writing, NEW l \in Typed, mode = "readonly" => l \in Allowed,
         UNCHANGED <<mode, dropped, written, gone, pending, timer, late, reader, why,
                     buf, chunks, truncated, hiccup, closed, reason, hung>>,
         line' \in Typed, astray' \in BOOLEAN, astray => astray',
         \/ /\ ws' = "serve" /\ fin' = [fin EXCEPT !["ws"] = "check"] /\ (closed \/ dropped)
            /\ UNCHANGED <<typed, out, printed, ran>>
         \/ /\ ws' = "serve" /\ fin' = fin /\ ~ closed /\ ~ dropped /\ Runs(l)
            /\ ~ astray' => Waiting(l) /\ pending = "empty"
  PROVE  BInv'
<1>1. fin["ws"] = "no" /\ fin \in [Threads -> FinSteps] /\ Goes("serve")
  BY DEF BInv, TypeOK, Control, FinSteps, Goes
<1>2. out \in Nat /\ out' \in Nat /\ out' >= out /\ printed' \in 0..MaxPrinted /\ typed' \in Typed
  <2>1. \/ UNCHANGED <<typed, out, printed>>
        \/ typed' = "empty" /\ UNCHANGED <<out, printed>>
        \/ typed' = "empty" /\ printed < MaxPrinted /\ out' = out + 1 /\ printed' = printed + 1
    BY DEF Runs, Prints
  <2>2. typed' \in Typed
    BY <2>1 DEF BInv, TypeOK, Typed
  <2> QED BY <2>1, <2>2, CountsTyped DEF BInv
<1>3. timer' /\ mode = "full" => astray'
  BY DEF BInv, Control
<1>4. /\ Control' /\ Honest' /\ (Noted' <=> Noted) /\ fin' \in [Threads -> FinSteps]
      /\ fin'["reader"] = fin["reader"] /\ ws' = "serve"
  BY <1>1, <1>2, <1>3, WorkerMoves
<1>5. /\ ran' \in Seq(Typed \ {"empty"}) /\ Len(ran') <= Len(ran) + 1
      /\ mode = "readonly" => \A i \in DOMAIN ran' : ran'[i] \in Allowed
  <2>1. CASE ran' = ran
    BY <2>1, CountsTyped DEF BInv, Permitted
  <2>2. CASE ran' = Append(ran, l) /\ l # "empty"
    <3>1. ran \in Seq(Typed \ {"empty"}) /\ l \in Typed \ {"empty"}
      BY <2>2, CountsTyped DEF BInv
    <3>2. /\ ran' \in Seq(Typed \ {"empty"}) /\ Len(ran') = Len(ran) + 1 /\ Len(ran) \in Nat
          /\ \A i \in 1..Len(ran) : ran'[i] = ran[i]
          /\ ran'[Len(ran) + 1] = l
      BY <2>2, <3>1, AppendProperties, LenProperties
    <3>3. ASSUME mode = "readonly", NEW i \in DOMAIN ran' PROVE ran'[i] \in Allowed
      <4>1. i = Len(ran) + 1 \/ i \in DOMAIN ran
        BY <3>1, <3>2
      <4>2. CASE i \in DOMAIN ran
        BY <3>1, <3>2, <3>3, <4>2 DEF BInv, Permitted
      <4> QED BY <3>2, <3>3, <4>1, <4>2
    <3> QED BY <3>2, <3>3
  <2> QED BY <2>1, <2>2 DEF Runs
<1>6. Len(ran) + 1 <= written /\ Len(ran) \in Nat /\ Len(ran') \in Nat /\ written \in 0..MaxWritten /\ MaxWritten \in Nat
  BY <1>5, CountsTyped, LenProperties DEF BInv, Budget
<1>7. Budget' /\ Len(ran') <= MaxWritten
  BY <1>4, <1>5, <1>6 DEF Budget, Writing
<1>8. TypeOK'
  BY <1>2, <1>4, <1>5, <1>7 DEF BInv, TypeOK, FinSteps
<1>9. Complete'
  BY <1>4, CompleteKept
<1>10. ASSUME ~ astray' PROVE Faithful'
  <2>1. Faithful /\ Quiet(chunks, chunks')
    BY <1>10 DEF BInv, Quiet
  <2>2. CASE ran' = ran /\ ~ Serving'
    BY <1>4, <2>1, <2>2, FaithfulKept DEF Writing
  <2>3. CASE fin' = fin /\ ~ closed /\ ~ dropped /\ Runs(l) /\ Waiting(l) /\ pending = "empty"
    <3>1. l \in Typed \ {"empty"} /\ ran' = Append(ran, l) /\ typed' = pending'
      BY <2>3 DEF Runs, Waiting
    <3> QED BY <1>4, <2>1, <2>3, <3>1, FaithfulRun
  <2>4. CASE fin' = [fin EXCEPT !["ws"] = "check"] /\ ran' = ran
    <3>1. fin'["ws"] = "check"
      BY <1>1, <2>4 DEF Threads
    <3> QED BY <2>2, <2>4, <3>1 DEF Serving
  <2> QED BY <1>10, <2>3, <2>4
<1>11. Permitted'
  BY <1>4, <1>5 DEF Permitted
<1> QED BY <1>4, <1>7, <1>8, <1>9, <1>10, <1>11 DEF BInv

LEMMA WriteLineStep == ASSUME BInv, WriteLine PROVE BInv'
<1>1. /\ ws = "write" /\ line' = "empty" /\ astray' = (astray \/ pending # "empty")
      /\ UNCHANGED <<mode, dropped, written, gone, pending, timer, late, reader, why,
                     buf, chunks, truncated, hiccup, closed, reason, hung>>
      /\ \/ /\ ws' = "serve" /\ fin' = [fin EXCEPT !["ws"] = "check"] /\ (closed \/ dropped)
            /\ UNCHANGED <<typed, out, printed, ran>>
         \/ ws' = "serve" /\ fin' = fin /\ ~ closed /\ ~ dropped /\ Runs(line)
  BY DEF WriteLine, Sends, Next_, Leave, device, reading, recording
<1>2. Writing /\ line \in Typed /\ line' \in Typed /\ astray' \in BOOLEAN /\ (mode = "readonly" => line \in Allowed)
  BY <1>1 DEF BInv, TypeOK, Typed, Writing, Permitted
<1>3. ~ astray' => Waiting(line) /\ pending = "empty"
  BY <1>1 DEF BInv, Faithful
<1>4. astray => astray'
  BY <1>1
<1> QED BY <1>1, <1>2, <1>3, <1>4, LineWritten

LEMMA WriteEnterStep == ASSUME BInv, WriteEnter PROVE BInv'
<1>1. /\ ws = "enter" /\ UNCHANGED <<line, astray>>
      /\ UNCHANGED <<mode, dropped, written, gone, pending, timer, late, reader, why,
                     buf, chunks, truncated, hiccup, closed, reason, hung>>
      /\ \/ /\ ws' = "serve" /\ fin' = [fin EXCEPT !["ws"] = "check"] /\ (closed \/ dropped)
            /\ UNCHANGED <<typed, out, printed, ran>>
         \/ ws' = "serve" /\ fin' = fin /\ ~ closed /\ ~ dropped /\ Runs(typed)
  BY DEF WriteEnter, Sends, Next_, Leave, device, person, reading, recording
<1>2. Writing /\ typed \in Typed /\ line' \in Typed /\ astray' \in BOOLEAN /\ mode = "full" /\ pending = "empty"
  BY <1>1 DEF BInv, TypeOK, Control, Writing
<1>3. ~ astray' /\ ~ closed /\ ~ dropped => Waiting(typed)
  BY <1>1 DEF BInv, Faithful
<1> QED BY <1>1, <1>2, <1>3, LineWritten

LEMMA BrowserLeavesStep == ASSUME BInv, BrowserLeaves PROVE BInv'
<1>1. /\ ws = "serve" /\ fin["ws"] = "no" /\ gone' = TRUE /\ fin' = [fin EXCEPT !["ws"] = "check"]
      /\ UNCHANGED <<mode, typed, out, printed, ran, dropped, ws, line, written, pending, astray, timer, late,
                     reader, why, buf, chunks, truncated, hiccup, closed, reason, hung>>
  BY DEF BrowserLeaves, Leave, device, person, reading, recording
<1>2. fin \in [Threads -> FinSteps]
  BY DEF BInv, TypeOK, FinSteps
<1>3. /\ fin' \in [Threads -> FinSteps] /\ fin'["ws"] = "check" /\ \A t \in Threads \ {"ws"} : fin'[t] = fin[t]
  BY <1>1, <1>2 DEF FinSteps, Threads
<1>4. TypeOK'
  BY <1>1, <1>3 DEF BInv, TypeOK, FinSteps
<1>5. Control' /\ Budget' /\ Honest' /\ (Noted' <=> Noted)
  BY <1>1, <1>3 DEF BInv, Control, Budget, Honest, EndReasonIsHonest, Noted, Writing, Threads
<1>6. Complete'
  BY <1>1, <1>3, <1>5, CompleteKept DEF Threads
<1>7. ~ astray' => Faithful'
  BY <1>1, <1>3, FaithfulKept DEF BInv, Quiet, Writing, Serving
<1> QED BY <1>1, <1>4, <1>5, <1>6, <1>7 DEF BInv, Permitted

-----------------------------------------------------------------------------
(* The reader.                                                             *)

\* The reader changes nothing about the lines that ran.
LEMMA ReaderFaithful ==
  ASSUME BInv, Quiet(chunks, chunks'),
         UNCHANGED <<mode, typed, ran, dropped, ws, line, pending, astray, closed>>,
         fin'["ws"] = fin["ws"]
  PROVE  /\ ~ astray' => Faithful'
         /\ Permitted'
<1>1. ~ astray' => Faithful'
  BY FaithfulKept DEF BInv, Faithful, Writing, Serving
<1> QED BY <1>1 DEF BInv, Permitted

\* It looks at `closed`, or receives a piece, or returns.
LEMMA ReaderLooks ==
  ASSUME BInv, ReaderStops \/ Receives \/ ReaderReturns
  PROVE  BInv'
<1>1. /\ UNCHANGED <<mode, typed, out, printed, ran, dropped, ws, line, written, pending, astray, timer, gone, late,
                     why, buf, chunks, truncated, hiccup, closed, reason, hung, fin>>
      /\ \/ reader = "loop" /\ closed /\ reader' = "done"
         \/ reader = "loop" /\ ~ closed /\ out > 0 /\ reader' = "record"
         \/ reader = "finish" /\ fin["reader"] = "done" /\ reader' = "done"
  BY DEF ReaderStops, Receives, ReaderReturns, device, person, recording, ending
<1>2. TypeOK'
  BY <1>1 DEF BInv, TypeOK
<1>3. Budget' /\ Honest'
  BY <1>1 DEF BInv, Budget, Writing, Honest, EndReasonIsHonest
<1>4. Control'
  BY <1>1 DEF BInv, Control, Writing
<1>5. Noted => closed
  BY DEF BInv, Control, Noted
<1>6. Complete'
  BY <1>1, <1>5 DEF BInv, Complete, Noted
<1>7. Quiet(chunks, chunks')
  BY <1>1 DEF Quiet
<1> QED BY <1>1, <1>2, <1>3, <1>4, <1>6, <1>7, ReaderFaithful DEF BInv

LEMMA RecordsOutputStep == ASSUME BInv, RecordsOutput PROVE BInv'
<1>1. /\ reader = "record" /\ out' = out - 1
      /\ UNCHANGED <<mode, typed, printed, ran, dropped, ws, line, written, pending, astray, timer, gone, late,
                     why, closed, reason, hung, fin>>
  BY DEF RecordsOutput, person, ending
<1>2. out \in Nat /\ out > 0 /\ fin["reader"] = "no" /\ buf \in Seq(Entry) /\ \A i \in DOMAIN buf : buf[i] = Out
  BY <1>1 DEF BInv, TypeOK, Control, Complete
<1>3. out' \in Nat
  BY <1>1, <1>2
<1> DEFINE Stored == /\ buf' \in Seq(Entry) /\ (\A i \in DOMAIN buf' : buf'[i] = Out)
                     /\ buf = <<>> => buf' = <<>> \/ Len(buf') = 1
                     /\ hiccup' \in BOOLEAN /\ (hiccup => hiccup')
                     /\ chunks' \in Seq(Entry) /\ Quiet(chunks, chunks')
                     /\ truncated' \in BOOLEAN /\ reader' \in {"loop", "dead"}
                     /\ reader' = "dead" => buf' = <<>>
<1>4. Stored
  <2>1. CASE truncated /\ reader' = "loop" /\ UNCHANGED recording
    BY <1>2, <2>1 DEF recording, Quiet, BInv, TypeOK
  <2>2. CASE FlushOrNot(Append(buf, Out)) /\ reader' = "loop" /\ UNCHANGED truncated
    <3>1. PICK buffer \in Seq(Entry) : /\ buffer = Append(buf, Out) /\ Len(buffer) = Len(buf) + 1
                                       /\ \A i \in DOMAIN buffer : buffer[i] = Out
      <4>1. Out \in Entry
        BY EntriesTyped
      <4>2. /\ Append(buf, Out) \in Seq(Entry) /\ Len(Append(buf, Out)) = Len(buf) + 1 /\ Len(buf) \in Nat
            /\ \A i \in 1..Len(buf) : Append(buf, Out)[i] = buf[i]
            /\ Append(buf, Out)[Len(buf) + 1] = Out
        BY <1>2, <4>1, AppendProperties, LenProperties
      <4>3. \A i \in 1..Len(buf) + 1 : Append(buf, Out)[i] = Out
        BY <1>2, <4>2
      <4>4. DOMAIN Append(buf, Out) = 1..Len(buf) + 1
        BY <4>2
      <4> HIDE DEF Out
      <4> QED BY <4>2, <4>3, <4>4, Zenon
    <3>2. /\ buf' \in {buffer, <<>>} /\ buf' \in Seq(Entry) /\ (\A i \in DOMAIN buf' : buf'[i] = Out)
          /\ hiccup' \in BOOLEAN /\ (hiccup => hiccup')
          /\ chunks' \in Seq(Entry) /\ Quiet(chunks, chunks')
      BY <2>2, <3>1, FlushEffect
    <3>3. buf = <<>> => buf' = <<>> \/ Len(buf') = 1
      BY <3>1, <3>2
    <3> QED BY <2>2, <3>2, <3>3 DEF BInv, TypeOK
  <2>3. ASSUME NEW stored \in BOOLEAN, truncated' = TRUE, Store(Note("cut"), stored),
               reader' = IF stored THEN "loop" ELSE "dead"
        PROVE  Stored
    <3>1. Note("cut") \in Entry /\ Note("cut").stream # "in"
      BY EntriesTyped
    <3>2. /\ buf' = <<>> /\ hiccup' \in BOOLEAN /\ (hiccup => hiccup')
          /\ chunks' \in Seq(Entry) /\ Quiet(chunks, chunks')
      BY <2>3, <3>1, StoreEffect
    <3> QED BY <2>3, <3>2
  <2> QED BY <2>1, <2>2, <2>3 DEF RecordsOutput
<1> HIDE DEF Stored
<1>5. TypeOK'
  BY <1>1, <1>3, <1>4 DEF BInv, TypeOK, Stored
<1>6. Budget'
  BY <1>1 DEF BInv, Budget, Writing
<1>7. Control'
  BY <1>1, <1>2, <1>4 DEF BInv, Control, Writing, Stored
<1>8. Honest'
  BY <1>1, <1>4 DEF BInv, Honest, EndReasonIsHonest, Stored
<1>9. Complete'
  <2>1. Noted' <=> Noted
    BY <1>1 DEF Noted
  <2>2. Noted => buf = <<>>
    BY <1>1 DEF BInv, Complete
  <2> QED BY <1>1, <1>2, <1>4, <2>1, <2>2 DEF Complete, Stored
<1>10. (~ astray' => Faithful') /\ Permitted'
  BY <1>1, <1>4, ReaderFaithful DEF Stored
<1> QED BY <1>5, <1>6, <1>7, <1>8, <1>9, <1>10 DEF BInv

\* The reader has a reason to end the session: it is true of the device.
LEMMA HearsNothingStep == ASSUME BInv, HearsNothing PROVE BInv'
<1>1. /\ reader = "loop" /\ ~ closed /\ FlushOrNot(buf)
      /\ UNCHANGED <<mode, typed, out, printed, ran, dropped, ws, line, written, pending, astray, timer, gone, late,
                     truncated, closed, reason, hung>>
      /\ \/ /\ reader' = "finish" /\ fin' = [fin EXCEPT !["reader"] = "check"]
            /\ why' = (IF dropped \/ hung THEN "device disconnected" ELSE late)
            /\ dropped \/ hung \/ late # "no"
         \/ UNCHANGED <<reader, why, fin>>
  BY DEF HearsNothing, device, person, reading
<1>2. fin \in [Threads -> FinSteps] /\ fin["reader"] = "no" /\ ~ hung /\ ~ Noted
  BY <1>1 DEF BInv, TypeOK, Control, FinSteps, Noted
<1>3. /\ buf' \in Seq(Entry) /\ \A i \in DOMAIN buf' : buf'[i] = Out
      /\ hiccup' \in BOOLEAN /\ (hiccup => hiccup')
      /\ chunks' \in Seq(Entry) /\ Quiet(chunks, chunks')
  BY <1>1, FlushEffect DEF BInv, TypeOK, Complete
<1>4. /\ fin' \in [Threads -> FinSteps] /\ \A t \in Threads \ {"reader"} : fin'[t] = fin[t]
      /\ fin'["reader"] \in {"no", "check"} /\ (reader' # "finish" => reader' = "loop" /\ fin'["reader"] = "no")
      /\ reader' \in {"loop", "finish"}
  BY <1>1, <1>2 DEF FinSteps, Threads
<1>5. /\ why' \in {"none", "device disconnected", "idle", "cap"}
      /\ why' = "device disconnected" => dropped \/ why' = why
  BY <1>1, <1>2 DEF BInv, TypeOK, Honest
<1>6. TypeOK'
  BY <1>1, <1>3, <1>4, <1>5 DEF BInv, TypeOK, FinSteps
<1>7. Budget'
  BY <1>1 DEF BInv, Budget, Writing
<1>8. Control'
  BY <1>1, <1>2, <1>4 DEF BInv, Control, Writing, Threads
<1>9. Honest'
  BY <1>1, <1>3, <1>4, <1>5 DEF BInv, Honest, EndReasonIsHonest, Threads
<1>10. Complete'
  <2>1. ~ Noted'
    BY <1>1, <1>2, <1>4 DEF Noted, Threads
  <2> QED BY <1>3, <2>1 DEF Complete
<1>11. (~ astray' => Faithful') /\ Permitted'
  BY <1>1, <1>3, <1>4, ReaderFaithful DEF Threads
<1> QED BY <1>6, <1>7, <1>8, <1>9, <1>10, <1>11 DEF BInv

-----------------------------------------------------------------------------
(* _finish, on whichever thread.                                           *)

\* Where a thread is in its _finish changes nothing about the lines that ran:
\* the worker only leaves.
LEMMA FinishFaithful ==
  ASSUME BInv, Quiet(chunks, chunks'), NEW t \in Threads, NEW then \in FinSteps \ {"no"},
         fin' = [fin EXCEPT ![t] = then], t = "ws" => fin["ws"] # "no",
         ws' = ws \/ ws' = "left", closed => closed',
         UNCHANGED <<mode, typed, ran, dropped, line, pending, astray>>
  PROVE  /\ ~ astray' => Faithful'
         /\ Permitted'
<1>1. fin \in [Threads -> FinSteps]
  BY DEF BInv, TypeOK, FinSteps
<1>2. Serving' => Serving
  BY <1>1 DEF Serving, Threads
<1>3. ASSUME ~ astray' PROVE Faithful'
  <2>1. Faithful
    BY <1>3 DEF BInv
  <2>2. Serving' /\ mode' = "full" /\ ~ closed' /\ ~ dropped' => typed' = pending'
    BY <1>2, <2>1 DEF Faithful
  <2>3. Writing' => ws' = ws
    BY DEF Writing
  <2>4. ws' = "enter" /\ ~ closed' /\ ~ dropped' => ~ closed /\ ~ dropped /\ typed' = typed
    OBVIOUS
  <2>5. ws' = "write" => line' = line
    OBVIOUS
  <2> QED BY <1>2, <2>1, <2>2, <2>3, <2>4, <2>5, FaithfulKept
<1> QED BY <1>3 DEF BInv, Permitted

\* What every step of a _finish leaves alone.
LEMMA FinishFrame ==
  ASSUME BInv, NEW t \in Threads, NEW step, NEW then \in FinSteps, At(t, step, then)
  PROVE  /\ UNCHANGED <<mode, typed, out, printed, ran, dropped, line, written, pending, astray, timer, gone, late,
                        reader, why>>
         /\ fin[t] = step /\ fin' = [fin EXCEPT ![t] = then] /\ fin \in [Threads -> FinSteps]
         /\ fin' \in [Threads -> FinSteps] /\ fin'[t] = then /\ \A u \in Threads \ {t} : fin'[u] = fin[u]
<1>1. fin \in [Threads -> FinSteps]
  BY DEF BInv, TypeOK, FinSteps
<1>2. fin[t] = step /\ fin' = [fin EXCEPT ![t] = then]
  BY DEF At
<1> QED BY <1>1, <1>2 DEF At, device, person, reading

LEMMA FinishCheckStep == ASSUME BInv, NEW t \in Threads, FinishCheck(t) PROVE BInv'
<1>1. PICK then \in {"done", "mark"} : /\ At(t, IF t = "admin" THEN "no" ELSE "check", then)
                                       /\ then = IF closed THEN "done" ELSE "mark"
  BY DEF FinishCheck
<1>2. /\ ws' = (IF t = "ws" /\ closed THEN "left" ELSE ws)
      /\ UNCHANGED <<buf, chunks, truncated, hiccup, closed, reason, hung>>
  BY DEF FinishCheck, recording
<1>3. /\ UNCHANGED <<mode, typed, out, printed, ran, dropped, line, written, pending, astray, timer, gone, late,
                     reader, why>>
      /\ fin[t] = (IF t = "admin" THEN "no" ELSE "check") /\ fin' = [fin EXCEPT ![t] = then]
      /\ fin' \in [Threads -> FinSteps] /\ fin'[t] = then /\ \A u \in Threads \ {t} : fin'[u] = fin[u]
  BY <1>1, FinishFrame DEF FinSteps
<1>4. t = "ws" => ws \notin {"write", "enter"}
  BY <1>3 DEF BInv, Control, Writing
<1>5. TypeOK'
  BY <1>2, <1>3 DEF BInv, TypeOK, FinSteps
<1>6. Budget' /\ Control'
  BY <1>1, <1>2, <1>3, <1>4 DEF BInv, Budget, Control, Writing, Threads
<1>7. Honest'
  BY <1>1, <1>2, <1>3 DEF BInv, Honest, EndReasonIsHonest, Threads
<1>8. Complete'
  <2>1. Noted' => Noted
    BY <1>1, <1>2, <1>3 DEF Noted, Threads
  <2>2. t = "reader" => reader \notin {"loop", "record", "dead"}
    BY <1>3 DEF BInv, Control
  <2>3. fin'["reader"] = fin["reader"] \/ (t = "reader" /\ fin["reader"] = "check")
    BY <1>3 DEF Threads
  <2>4. ASSUME Noted, fin["reader"] # "no" PROVE buf = <<>>
    BY <2>4 DEF BInv, Complete
  <2> QED BY <1>2, <1>3, <2>1, <2>3, <2>4 DEF BInv, Complete
<1>9. Quiet(chunks, chunks')
  BY <1>2 DEF Quiet
<1>10. (~ astray' => Faithful') /\ Permitted'
  BY <1>1, <1>2, <1>3, <1>9, FinishFaithful DEF FinSteps
<1> QED BY <1>5, <1>6, <1>7, <1>8, <1>10 DEF BInv

\* The session ends, for this thread's reason.
LEMMA FinishMarkStep == ASSUME BInv, NEW t \in Threads, FinishMark(t) PROVE BInv'
<1>1. /\ At(t, "mark", "note") /\ closed' = TRUE /\ reason' = Because(t)
      /\ UNCHANGED <<ws, buf, chunks, truncated, hiccup, hung>>
  BY DEF FinishMark, recording
<1>2. /\ UNCHANGED <<mode, typed, out, printed, ran, dropped, line, written, pending, astray, timer, gone, late,
                     reader, why>>
      /\ fin[t] = "mark" /\ fin' = [fin EXCEPT ![t] = "note"]
      /\ fin' \in [Threads -> FinSteps] /\ fin'[t] = "note" /\ \A u \in Threads \ {t} : fin'[u] = fin[u]
  BY <1>1, FinishFrame DEF FinSteps
<1>3. /\ t = "ws" => reason' = "browser closed"
      /\ t = "admin" => reason' = "ended by admin"
      /\ t = "reader" => reason' = why
      /\ t \in {"ws", "reader", "admin"}
  BY <1>1 DEF Because, Threads
<1>4. TypeOK'
  <2>1. reason' \in {"none", "browser closed", "device disconnected", "idle", "cap", "ended by admin"}
    BY <1>3 DEF BInv, TypeOK
  <2> QED BY <1>1, <1>2, <2>1 DEF BInv, TypeOK, FinSteps
<1>5. Budget' /\ Control'
  BY <1>1, <1>2 DEF BInv, Budget, Control, Writing, Threads
<1>6. Honest'
  BY <1>1, <1>2, <1>3 DEF BInv, Honest, EndReasonIsHonest, Threads, TypeOK
<1>7. Complete'
  <2>1. Noted' => Noted
    BY <1>1, <1>2 DEF Noted, Threads
  <2>2. fin["reader"] # "no" \/ fin'["reader"] = fin["reader"]
    BY <1>2 DEF Threads
  <2> QED BY <1>1, <1>2, <2>1, <2>2 DEF BInv, Complete
<1>8. Quiet(chunks, chunks')
  BY <1>1 DEF Quiet
<1>9. (~ astray' => Faithful') /\ Permitted'
  BY <1>1, <1>2, <1>8, FinishFaithful DEF FinSteps
<1> QED BY <1>4, <1>5, <1>6, <1>7, <1>9 DEF BInv

\* The note empties the buffer.
LEMMA FinishNoteStep == ASSUME BInv, NEW t \in Threads, FinishNote(t) PROVE BInv'
<1>1. PICK stored \in BOOLEAN : Store(Note("ended"), stored)
  BY DEF FinishNote
<1>2. At(t, "note", "hang") /\ UNCHANGED <<ws, truncated, closed, reason, hung>>
  BY DEF FinishNote
<1>3. /\ UNCHANGED <<mode, typed, out, printed, ran, dropped, line, written, pending, astray, timer, gone, late,
                     reader, why>>
      /\ fin[t] = "note" /\ fin' = [fin EXCEPT ![t] = "hang"]
      /\ fin' \in [Threads -> FinSteps] /\ fin'[t] = "hang" /\ \A u \in Threads \ {t} : fin'[u] = fin[u]
  BY <1>2, FinishFrame DEF FinSteps
<1>4. /\ buf' = <<>> /\ hiccup' \in BOOLEAN /\ (hiccup => hiccup') /\ chunks' \in Seq(Entry)
      /\ Quiet(chunks, chunks')
  BY <1>1, StoreEffect, EntriesTyped
<1>5. TypeOK'
  <2>1. buf' \in Seq(Entry)
    BY <1>4
  <2> QED BY <1>2, <1>3, <1>4, <2>1 DEF BInv, TypeOK, FinSteps
<1>6. Budget' /\ Control'
  BY <1>2, <1>3 DEF BInv, Budget, Control, Writing, Threads
<1>7. Honest'
  BY <1>2, <1>3, <1>4 DEF BInv, Honest, EndReasonIsHonest, Threads
<1>8. Complete'
  BY <1>4 DEF Complete
<1>9. (~ astray' => Faithful') /\ Permitted'
  BY <1>2, <1>3, <1>4, FinishFaithful DEF FinSteps
<1> QED BY <1>5, <1>6, <1>7, <1>8, <1>9 DEF BInv

LEMMA FinishHangStep == ASSUME BInv, NEW t \in Threads, FinishHang(t) PROVE BInv'
<1>1. /\ At(t, "hang", "done") /\ hung' = TRUE /\ ws' = (IF t = "ws" THEN "left" ELSE ws)
      /\ UNCHANGED <<buf, chunks, truncated, hiccup, closed, reason>>
  BY DEF FinishHang, recording
<1>2. /\ UNCHANGED <<mode, typed, out, printed, ran, dropped, line, written, pending, astray, timer, gone, late,
                     reader, why>>
      /\ fin[t] = "hang" /\ fin' = [fin EXCEPT ![t] = "done"]
      /\ fin' \in [Threads -> FinSteps] /\ fin'[t] = "done" /\ \A u \in Threads \ {t} : fin'[u] = fin[u]
  BY <1>1, FinishFrame DEF FinSteps
<1>3. (t = "ws" => ws \notin {"write", "enter"}) /\ closed
  BY <1>2 DEF BInv, Control, Writing
<1>4. TypeOK'
  BY <1>1, <1>2 DEF BInv, TypeOK, FinSteps
<1>5. Budget' /\ Control'
  BY <1>1, <1>2, <1>3 DEF BInv, Budget, Control, Writing, Threads
<1>6. Honest'
  BY <1>1, <1>2 DEF BInv, Honest, EndReasonIsHonest, Threads
<1>7. Complete'
  <2>1. Noted
    BY <1>2 DEF Noted
  <2>2. fin["reader"] # "no" \/ fin'["reader"] = fin["reader"]
    BY <1>2 DEF Threads
  <2> QED BY <1>1, <1>2, <2>1, <2>2 DEF BInv, Complete
<1>8. Quiet(chunks, chunks')
  BY <1>1 DEF Quiet
<1>9. (~ astray' => Faithful') /\ Permitted'
  BY <1>1, <1>2, <1>8, FinishFaithful DEF FinSteps
<1> QED BY <1>4, <1>5, <1>6, <1>7, <1>9 DEF BInv

-----------------------------------------------------------------------------
LEMMA StepHolds == ASSUME BInv, [Next]_vars PROVE BInv'
<1>1. CASE UNCHANGED vars
  <2>0. /\ UNCHANGED <<mode, typed, out, printed, dropped, ran, ws, line, written, gone, pending, astray>>
        /\ UNCHANGED <<timer, late, reader, why, buf, chunks, truncated, hiccup, closed, reason, hung, fin>>
    BY <1>1 DEF vars
  <2>1. TypeOK' /\ Control' /\ Budget'
    <3>1. TypeOK'
      BY <2>0 DEF BInv, TypeOK
    <3>2. Control' /\ Budget'
      BY <2>0 DEF BInv, Control, Budget, Writing
    <3> QED BY <3>1, <3>2
  <2>2. Honest' /\ Complete' /\ Permitted'
    <3>1. Honest'
      <4>1. /\ reason' = reason /\ dropped' = dropped /\ gone' = gone /\ hiccup' = hiccup
            /\ fin' = fin /\ why' = why /\ closed' = closed
        BY <1>1 DEF vars
      <4> QED BY <4>1 DEF BInv, Honest, EndReasonIsHonest
    <3>2. Complete'
      BY <1>1 DEF vars, BInv, Complete, Noted
    <3>3. Permitted'
      <4>1. mode' = mode /\ ran' = ran /\ ws' = ws /\ line' = line
        BY <1>1 DEF vars
      <4> QED BY <4>1 DEF BInv, Permitted
    <3> QED BY <3>1, <3>2, <3>3
  <2>3. Quiet(chunks, chunks')
    BY <1>1 DEF vars, Quiet
  <2>4. ~ astray' => Faithful'
    BY <1>1, <2>3, ReaderFaithful DEF vars
  <2> QED BY <2>1, <2>2, <2>4 DEF BInv
<1>2. ASSUME NEW l \in Lines, Submit(l) \/ TypeKeys(l) \/ Help(l) PROVE BInv'
  BY <1>2, SubmitStep, TypeKeysStep, HelpStep
<1>3. CASE PressEnter \/ CtrlC \/ TimerFires \/ BrowserLeaves \/ Worker
  BY <1>3, PressEnterStep, CtrlCStep, TimerStep, BrowserLeavesStep, WriteLineStep, WriteEnterStep DEF Worker
<1>4. CASE DevicePrints \/ DeviceDrops \/ TimePasses \/ Reader
  BY <1>4, DevicePrintsStep, DeviceDropsStep, TimePassesStep, ReaderLooks, RecordsOutputStep, HearsNothingStep
     DEF Reader
<1>5. ASSUME NEW t \in Threads, Finish(t) PROVE BInv'
  BY <1>5, FinishCheckStep, FinishMarkStep, FinishNoteStep, FinishHangStep DEF Finish
<1> QED BY <1>1, <1>2, <1>3, <1>4, <1>5 DEF Next

LEMMA TerminalInvariant == Spec => []BInv
<1>1. Init => BInv
  BY InitHolds
<1>2. BInv /\ [Next]_vars => BInv'
  BY StepHolds
<1> QED BY <1>1, <1>2, PTL DEF Spec

\* Lines, threads, the buffer and the transcript keep their types.
THEOREM TerminalTyped == Spec => []TypeOK
<1>1. BInv => TypeOK
  BY DEF BInv
<1> QED BY <1>1, TerminalInvariant, PTL

\* "What runs is exactly what was checked" (bastion.py, submit_line), for any lines,
\* policy and number of messages, whatever fails: the buffer holds no lines, so what
\* the transcript shows is what is stored.
THEOREM RunsOnlyWhatWasRecorded == Spec => []RunsWhatWasRecorded
<1>1. ASSUME BInv PROVE RunsWhatWasRecorded
  <2>1. chunks \in Seq(Entry) /\ buf \in Seq(Entry) /\ \A i \in DOMAIN buf : buf[i].stream # "in"
    BY <1>1, EntriesTyped DEF BInv, TypeOK, Complete
  <2>2. Quiet(chunks, Transcript)
    BY <2>1, QuietGrowth DEF Transcript
  <2>3. ASSUME ~ astray PROVE Faithful
    BY <1>1, <2>3 DEF BInv
  <2>4. ~ astray => Cardinality(Shown(Transcript)) \in {Len(ran), Len(ran) + 1}
    BY <2>2, <2>3 DEF Quiet, Faithful, Count
  <2>5. ASSUME ~ astray, NEW i \in Shown(Transcript), Nth(Transcript, i) <= Len(ran)
        PROVE  ran[Nth(Transcript, i)] = Transcript[i].what
    BY <2>2, <2>3, <2>5 DEF Quiet, Faithful
  <2>6. mode = "readonly" => \A i \in DOMAIN ran : ran[i] \in Allowed
    BY <1>1 DEF BInv, Permitted
  <2> QED BY <2>4, <2>5, <2>6 DEF RunsWhatWasRecorded
<1> QED BY <1>1, TerminalInvariant, PTL

\* A session that is over left nothing in the buffer, but for the one piece the reader
\* had in its hands when another thread ended it (_finish and _read_loop).
THEOREM RecordIsComplete == Spec => []EndedRecordIsComplete
<1>1. ASSUME BInv PROVE EndedRecordIsComplete
  BY <1>1 DEF BInv, Complete, Noted, Over, EndedRecordIsComplete
<1> QED BY <1>1, TerminalInvariant, PTL

\* The end reason of a session's row is true, whichever threads raced to end it.
THEOREM ReasonIsHonest == Spec => []EndReasonIsHonest
<1>1. BInv => EndReasonIsHonest
  BY DEF BInv, Honest
<1> QED BY <1>1, TerminalInvariant, PTL
===============================================================================
