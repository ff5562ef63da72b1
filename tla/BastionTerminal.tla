---------------------------- MODULE BastionTerminal ----------------------------
(***************************************************************************)
(* One live console session (webui/bastion.py, and its WebSocket in        *)
(* webui/app.py) once the device has been dialled: what the person sends,  *)
(* what the device gets to run, what the recording keeps, how it ends.     *)
(*                                                                         *)
(* Four threads share the session: the WebSocket's worker, the reader of   *)
(* the SSH channel, the timer of a help request, and an admin's request    *)
(* that ends the session.  A write to the channel is one step (it is sent  *)
(* under _send_lock), and so is a call of the recorder (under its lock).   *)
(* Everything else interleaves, _finish included: it tests _closed in one  *)
(* step and sets it in another.                                            *)
(***************************************************************************)
EXTENDS Naturals, Sequences, FiniteSets

CONSTANTS
  Lines,       \* what a person may type
  Allowed,     \* the lines check_line accepts
  Limits,      \* which of "idle" and "cap" is set: zero switches a limit off
  MaxRecord,   \* max_record_bytes, in pieces of output
  Faults,      \* {"hiccup"} if writing the transcript may fail
  MaxWritten,  \* bound: lines submitted and help asked for
  MaxPrinted   \* bound: pieces the device prints

ASSUME TerminalAssumption ==
  /\ Allowed \subseteq Lines /\ {"empty", "mixed"} \cap Lines = {}
  /\ MaxRecord \in Nat /\ MaxWritten \in Nat /\ MaxPrinted \in Nat
  /\ Faults \subseteq {"hiccup"} /\ Limits \subseteq {"idle", "cap"}

VARIABLES
  mode,       \* "full" or "readonly"
  typed,      \* the device's input line, not yet entered
  out,        \* pieces the device printed and the reader has not recorded
  printed,    \* how many pieces it printed
  dropped,    \* the device ended the connection
  ran,        \* history: the lines the device ran
  ws,         \* the WebSocket's worker: "serve", "write", "enter" or "left"
  line,       \* the line it has recorded and writes next
  written,    \* how much the person sent
  gone,       \* the browser left
  pending,    \* the LineAssembler's idea of the device's input line
  astray,     \* history: something else than keystrokes changed that line
  timer,      \* a help request's timer is running
  late,       \* which limit has passed: "no", "idle" or "cap"
  reader,     \* the reader: "loop", "record", "finish", "done" or "dead"
  why,        \* the reason it has found for ending the session
  buf,        \* Recorder._buf
  chunks,     \* bastion_chunks
  truncated,  \* Recorder.truncated
  hiccup,     \* history: a write of the transcript failed
  closed,     \* _closed
  reason,     \* end_reason
  hung,       \* _hard_close was done
  fin         \* per thread that may end the session, where its _finish is

vars == <<mode, typed, out, printed, dropped, ran, ws, line, written, gone, pending, astray,
          timer, late, reader, why, buf, chunks, truncated, hiccup, closed, reason, hung, fin>>

device == <<typed, out, printed, ran>>
person == <<line, written, pending, astray, timer>>
recording == <<buf, chunks, truncated, hiccup>>
ending == <<closed, reason, hung, fin>>
reading == <<reader, why>>

Threads == {"ws", "reader", "admin"}
Typed == Lines \cup {"empty", "mixed"}

\* Entries of the transcript.
In(l) == [stream |-> "in", what |-> l]
Out == [stream |-> "out", what |-> "empty"]
Note(about) == [stream |-> "note", what |-> about]
Entry == [stream : {"in", "out", "note"}, what : Typed \cup {"refused", "cut", "ended"}]

TypeOK ==
  /\ mode \in {"full", "readonly"}
  /\ typed \in Typed /\ pending \in Typed /\ line \in Typed
  /\ out \in Nat /\ buf \in Seq(Entry) /\ chunks \in Seq(Entry)
  /\ printed \in 0..MaxPrinted /\ written \in 0..MaxWritten
  /\ ran \in Seq(Typed \ {"empty"}) /\ Len(ran) <= MaxWritten
  /\ ws \in {"serve", "write", "enter", "left"}
  /\ reader \in {"loop", "record", "finish", "done", "dead"}
  /\ late \in {"no", "idle", "cap"}
  /\ \A flag \in {dropped, gone, astray, timer, truncated, hiccup, closed, hung} : flag \in BOOLEAN
  /\ {reason, why} \subseteq {"none", "browser closed", "device disconnected", "idle", "cap",
                              "ended by admin"}
  /\ fin \in [Threads -> {"no", "check", "mark", "note", "hang", "done"}]

Init ==
  /\ mode \in {"full", "readonly"}
  /\ typed = "empty" /\ out = 0 /\ printed = 0 /\ dropped = FALSE /\ ran = <<>>
  /\ ws = "serve" /\ line = "empty" /\ written = 0 /\ gone = FALSE
  /\ pending = "empty" /\ astray = FALSE /\ timer = FALSE /\ late = "no"
  /\ reader = "loop" /\ why = "none"
  /\ buf = <<>> /\ chunks = <<>> /\ truncated = FALSE /\ hiccup = FALSE
  /\ closed = FALSE /\ reason = "none" /\ hung = FALSE
  /\ fin = [t \in Threads |-> "no"]

-----------------------------------------------------------------------------
(* The recorder.                                                           *)

\* Bound: the writes of one call may fail.
Outcomes == IF "hiccup" \in Faults /\ ~hiccup THEN BOOLEAN ELSE {TRUE}

\* line and note: the buffer first, "to keep the transcript in order".  A
\* failure to write the buffer is logged, one to write the entry is raised.
Store(entry, stored) ==
  /\ stored \in Outcomes
  /\ buf' = <<>>
  /\ \E kept \in Outcomes :
       /\ kept \/ buf # <<>>
       /\ chunks' = (IF kept THEN chunks \o buf ELSE chunks)
                    \o (IF stored THEN <<entry>> ELSE <<>>)
       /\ hiccup' = (hiccup \/ ~stored \/ ~kept)

\* The buffer is written when it is big enough or old enough.
FlushOrNot(buffer) ==
  \/ buf' = buffer /\ UNCHANGED <<chunks, hiccup>>
  \/ /\ buf' = <<>>
     /\ \E kept \in Outcomes : /\ chunks' = IF kept THEN chunks \o buffer ELSE chunks
                               /\ hiccup' = (hiccup \/ ~kept)

\* Until it stops recording it has taken every piece it was given, stored or not.
Recorded == printed - out

-----------------------------------------------------------------------------
(* The device.  What it does once the session has ended makes no           *)
(* difference any more, and neither does the clock.                        *)

Prints ==
  IF printed < MaxPrinted
    THEN out' = out + 1 /\ printed' = printed + 1
    ELSE UNCHANGED <<out, printed>>

\* It prints something nobody asked for.
DevicePrints ==
  /\ ~dropped /\ ~closed /\ printed < MaxPrinted
  /\ Prints
  /\ UNCHANGED <<mode, typed, ran, dropped, ws, person, gone, late, reading, recording, ending>>

DeviceDrops ==
  /\ ~dropped /\ ~closed
  /\ dropped' = TRUE
  /\ UNCHANGED <<mode, device, ws, person, gone, late, reading, recording, ending>>

\* The line that is entered runs, and the device answers.
Runs(l) ==
  /\ typed' = "empty"
  /\ ran' = IF l = "empty" THEN ran ELSE Append(ran, l)
  /\ Prints

-----------------------------------------------------------------------------
(* The WebSocket's worker.  After each message it leaves if the session    *)
(* has ended.  Any error but a BastionError makes it leave at once.        *)

Message ==
  /\ ws = "serve" /\ fin["ws"] = "no"
  /\ written < MaxWritten
  /\ written' = written + 1
  /\ late' = IF late = "idle" THEN "no" ELSE late
  /\ UNCHANGED <<mode, dropped, gone, reading>>

Leave == fin' = [fin EXCEPT !["ws"] = "check"]
Next_(step) ==
  /\ ws' = step
  /\ IF closed /\ step = "serve" THEN Leave ELSE UNCHANGED fin

\* What a write to the channel comes to: refused by _write, failed, or done.
Sends(done) ==
  /\ UNCHANGED <<closed, reason, hung>>
  /\ \/ closed /\ Next_("serve") /\ UNCHANGED device
     \/ ~closed /\ dropped /\ ws' = "serve" /\ Leave /\ UNCHANGED device
     \/ ~closed /\ ~dropped /\ Next_("serve") /\ done

\* submit_line: a read-only session refuses what the policy does not accept,
\* and says so in the transcript; other lines are recorded, then written.
Submit(l) ==
  /\ Message
  /\ \E stored \in BOOLEAN :
       /\ Store(IF mode = "readonly" /\ l \notin Allowed THEN Note("refused") ELSE In(l), stored)
       /\ IF ~stored
            THEN ws' = "serve" /\ Leave /\ UNCHANGED line
            ELSE IF mode = "readonly" /\ l \notin Allowed
              THEN Next_("serve") /\ UNCHANGED line
              ELSE Next_("write") /\ line' = l
  /\ UNCHANGED <<device, pending, astray, timer, truncated, closed, reason, hung>>

\* Seeded fault: the line is written without the Ctrl-U before it.
WriteLineUnwiped ==
  /\ ws = "write"
  /\ Sends(Runs(IF typed = "empty" THEN line ELSE "mixed"))
  /\ line' = "empty"
  /\ UNCHANGED <<mode, dropped, written, gone, pending, astray, timer, late, reading, recording>>

\* Ctrl-U, the line, Enter: "what runs is exactly what was checked".
WriteLine ==
  /\ ws = "write"
  /\ Sends(Runs(line))
  /\ line' = "empty"
  /\ astray' = (astray \/ pending # "empty")
  /\ UNCHANGED <<mode, dropped, written, gone, pending, timer, late, reading, recording>>

\* send_raw, full mode: keystrokes go straight through.
Join(l, more) == IF l = "empty" THEN more ELSE "mixed"

TypeKeys(l) ==
  /\ mode = "full" /\ Message
  /\ pending' = Join(pending, l)
  /\ Sends(typed' = Join(typed, l) /\ UNCHANGED <<out, printed, ran>>)
  /\ UNCHANGED <<line, astray, timer, recording>>

\* Enter: the assembled line is recorded, then the key is written.
PressEnter ==
  /\ mode = "full" /\ Message
  /\ pending # "empty" /\ pending' = "empty"
  /\ \E stored \in BOOLEAN :
       /\ Store(In(pending), stored)
       /\ IF stored THEN Next_("enter") ELSE ws' = "serve" /\ Leave
  /\ UNCHANGED <<device, line, astray, timer, truncated, closed, reason, hung>>

WriteEnter ==
  /\ ws = "enter"
  /\ Sends(Runs(typed))
  /\ UNCHANGED <<mode, dropped, person, gone, late, reading, recording>>

\* send_key: Ctrl-C abandons the device's line.
CtrlC ==
  /\ Message
  /\ Sends(typed' = "empty" /\ UNCHANGED <<out, printed, ran>>)
  /\ astray' = (astray \/ pending # "empty")
  /\ UNCHANGED <<line, pending, timer, recording>>

\* help_request: Ctrl-U, the partial line, "?".  The line stays in the device
\* until the timer wipes it 1.2 s later.
Help(l) ==
  /\ Message
  /\ Sends(typed' = l /\ Prints /\ UNCHANGED ran)
  /\ timer' = (timer \/ (~closed /\ ~dropped))
  /\ astray' = (astray \/ mode = "full")
  /\ UNCHANGED <<line, pending, recording>>

TimerFires ==
  /\ timer /\ timer' = FALSE
  /\ typed' = IF closed \/ dropped THEN typed ELSE "empty"
  /\ UNCHANGED <<mode, out, printed, ran, dropped, ws, line, written, gone, pending, astray, late,
                 reading, recording, ending>>

\* The browser leaves while the worker waits for a message.
BrowserLeaves ==
  /\ ws = "serve" /\ fin["ws"] = "no"
  /\ gone' = TRUE
  /\ Leave
  /\ UNCHANGED <<mode, device, dropped, ws, person, late, reading, recording, closed, reason, hung>>

-----------------------------------------------------------------------------
(* The reader.                                                             *)

\* A limit passes: nothing was sent for idle_seconds, or max_seconds are over.
TimePasses ==
  /\ late' \in Limits
  /\ late # "cap" /\ late' # late /\ ~closed
  /\ UNCHANGED <<mode, device, dropped, ws, person, gone, reading, recording, ending>>

ReaderStops ==
  /\ reader = "loop" /\ closed
  /\ reader' = "done"
  /\ UNCHANGED <<mode, device, dropped, ws, person, gone, late, why, recording, ending>>

\* Seeded fault: a recv that timed out is taken for output.
ReceivesAlways ==
  /\ reader = "loop" /\ ~closed
  /\ reader' = "record"
  /\ UNCHANGED <<mode, device, dropped, ws, person, gone, late, why, recording, ending>>

\* recv returned a piece; it is counted and goes to the recorder.
Receives ==
  /\ reader = "loop" /\ ~closed /\ out > 0
  /\ reader' = "record"
  /\ UNCHANGED <<mode, device, dropped, ws, person, gone, late, why, recording, ending>>

\* Recorder.output.  Past the limit a note takes the output's place; a failure
\* to write that note is raised, and takes the reader with it.
RecordsOutput ==
  /\ reader = "record"
  /\ out' = out - 1
  /\ \/ truncated /\ reader' = "loop" /\ UNCHANGED recording
     \/ /\ ~truncated /\ Recorded < MaxRecord
        /\ FlushOrNot(Append(buf, Out))
        /\ reader' = "loop" /\ UNCHANGED truncated
     \/ /\ ~truncated /\ Recorded >= MaxRecord
        /\ truncated' = TRUE
        /\ \E stored \in BOOLEAN : /\ Store(Note("cut"), stored)
                                   /\ reader' = IF stored THEN "loop" ELSE "dead"
  /\ UNCHANGED <<mode, typed, printed, ran, dropped, ws, person, gone, late, why, ending>>

\* recv returned nothing: an old buffer is written, and only now the reader
\* asks whether the device has gone or a limit has passed.
HearsNothing ==
  /\ reader = "loop" /\ ~closed /\ out = 0
  /\ FlushOrNot(buf)
  /\ IF dropped \/ hung \/ late # "no"
       THEN /\ reader' = "finish" /\ fin' = [fin EXCEPT !["reader"] = "check"]
            /\ why' = IF dropped \/ hung THEN "device disconnected" ELSE late
       ELSE UNCHANGED <<reading, fin>>
  /\ UNCHANGED <<mode, device, dropped, ws, person, gone, late, truncated, closed, reason, hung>>

ReaderReturns ==
  /\ reader = "finish" /\ fin["reader"] = "done"
  /\ reader' = "done"
  /\ UNCHANGED <<mode, device, dropped, ws, person, gone, late, why, recording, ending>>

-----------------------------------------------------------------------------
(* _finish, on whichever thread.                                           *)

Because(t) ==
  CASE t = "ws" -> "browser closed"
    [] t = "admin" -> "ended by admin"
    [] t = "reader" -> why

At(t, step, then) ==
  /\ fin[t] = step
  /\ fin' = [fin EXCEPT ![t] = then]
  /\ UNCHANGED <<mode, device, dropped, person, gone, late, reading>>

\* An admin may ask at any time.
FinishCheck(t) ==
  /\ At(t, IF t = "admin" THEN "no" ELSE "check", IF closed THEN "done" ELSE "mark")
  /\ ws' = IF t = "ws" /\ closed THEN "left" ELSE ws
  /\ UNCHANGED <<recording, closed, reason, hung>>

\* Seeded fault: the connection is hung up before the session counts as closed.
FinishMarkLate(t) ==
  /\ At(t, "mark", "note")
  /\ hung' = TRUE
  /\ reason' = Because(t)
  /\ UNCHANGED <<ws, recording, closed>>

FinishMark(t) ==
  /\ At(t, "mark", "note")
  /\ closed' = TRUE
  /\ reason' = Because(t)
  /\ UNCHANGED <<ws, recording, hung>>

\* Seeded fault: nothing flushes the buffer at the end.
FinishNoteUnflushed(t) ==
  /\ At(t, "note", "hang")
  /\ \E stored \in Outcomes :
       /\ chunks' = IF stored THEN Append(chunks, Note("ended")) ELSE chunks
       /\ hiccup' = (hiccup \/ ~stored)
  /\ UNCHANGED buf
  /\ UNCHANGED <<ws, truncated, closed, reason, hung>>

\* The last note and the last flush; whatever they raise is logged.
FinishNote(t) ==
  /\ At(t, "note", "hang")
  /\ \E stored \in BOOLEAN : Store(Note("ended"), stored)
  /\ UNCHANGED <<ws, truncated, closed, reason, hung>>

FinishHang(t) ==
  /\ At(t, "hang", "done")
  /\ hung' = TRUE
  /\ ws' = IF t = "ws" THEN "left" ELSE ws
  /\ UNCHANGED <<recording, closed, reason>>

Finish(t) == FinishCheck(t) \/ FinishMark(t) \/ FinishNote(t) \/ FinishHang(t)

-----------------------------------------------------------------------------

Worker == WriteLine \/ WriteEnter
Reader == ReaderStops \/ Receives \/ RecordsOutput \/ HearsNothing \/ ReaderReturns

Next ==
  \/ \E l \in Lines : Submit(l) \/ TypeKeys(l) \/ Help(l)
  \/ PressEnter \/ CtrlC \/ TimerFires
  \/ BrowserLeaves \/ Worker
  \/ DevicePrints \/ DeviceDrops
  \/ TimePasses \/ Reader
  \/ \E t \in Threads : Finish(t)

Spec == Init /\ [][Next]_vars

-----------------------------------------------------------------------------
(* Properties.                                                             *)

Transcript == chunks \o buf

\* Which entries are lines of the person, and the how manieth an entry is.
Shown(entries) == {i \in DOMAIN entries : entries[i].stream = "in"}
Nth(entries, i) == Cardinality({j \in Shown(entries) : j <= i})

\* "What runs is exactly what was checked": whatever help left in the device's
\* input line, and whenever its timer fires, the device runs the lines the
\* transcript shows, in that order, whole, and in a read-only session only
\* lines the policy accepted.  That includes a transcript whose writes fail: what
\* cannot be recorded does not run.  The last line recorded may not have run: it
\* is about to be written, or the session ended first.
RunsWhatWasRecorded ==
  /\ ~astray =>
       /\ Cardinality(Shown(Transcript)) \in {Len(ran), Len(ran) + 1}
       /\ \A i \in Shown(Transcript) :
            Nth(Transcript, i) <= Len(ran) => ran[Nth(Transcript, i)] = Transcript[i].what
  /\ mode = "readonly" => \A i \in DOMAIN ran : ran[i] \in Allowed

Over == closed /\ hung /\ reader \in {"done", "dead"}

\* A session the reader ended is stored completely; one that another thread
\* ended misses at most the one piece the reader had in its hands.
EndedRecordIsComplete ==
  Over /\ ~hiccup => \/ buf = <<>>
                     \/ fin["reader"] = "no" /\ Len(buf) = 1

\* The end reason is true: the device had gone if it says so, an admin had asked;
\* "browser closed" also stands for a write that failed because the device had
\* gone or the recording failed.
EndReasonIsHonest ==
  /\ reason = "device disconnected" => dropped
  /\ reason = "browser closed" => gone \/ dropped \/ hiccup
  /\ reason = "ended by admin" => fin["admin"] # "no"
=============================================================================
