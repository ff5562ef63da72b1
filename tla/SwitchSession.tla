----------------------------- MODULE SwitchSession -----------------------------
(***************************************************************************)
(* SwitchSSH: the interactive sessions to the devices.  run() connects     *)
(* when it has to, walks through the platform's login, sends one command   *)
(* and reads up to the next prompt; what it read until its timeout it      *)
(* returns as the answer.  All sessions share the handshake semaphore.     *)
(*                                                                         *)
(* Output is a chunk per answered line: whose it is, and the prompt it     *)
(* ends with.  The device answers whenever it likes.                       *)
(***************************************************************************)
EXTENDS Naturals, Sequences, FiniteSets

CONSTANTS
  Sessions,     \* SwitchSSH objects, each used by one thread at a time
  PlatformOf,   \* their platforms
  Permits,      \* of _connect_semaphore: 4 in the code
  Retries,      \* attempts of connect: 2 in the code
  Resends,      \* tries of run: 2 in the code
  MaxRuns,      \* bound: calls of run, per session
  MaxMishaps    \* bound: channels that die or are closed by another thread

SessionAssumption ==
  /\ PlatformOf \in [Sessions -> {"os9", "junos", "opnsense"}]
  /\ {Permits, Retries, Resends} \subseteq Nat \ {0} /\ IsFiniteSet(Sessions)

VARIABLES
  permits,      \* _connect_semaphore
  call,         \* per session: where its run() is
  chan,         \* _chan: none, open, or dead at the other end
  mode,         \* the prompt the device is at
  owed,         \* lines sent that the device has not answered
  inbox,        \* chunks that have arrived and are not read
  buf,          \* what the read under way has: whose chunks, and the last prompt
  runs,         \* calls of run so far: their commands are numbered
  answers,      \* per session: the command and what was returned for it
  impatient,    \* a read was ended by the clock while the device still had to answer
  mishaps

switchVars == <<permits, call, chan, mode, owed, inbox, buf, runs, answers, impatient, mishaps>>
wire == <<mode, owed, inbox>>

Prompts == {"user", "priv", "password", "shell", "cli", "menu", "root"}
FirstPrompt(s) == CASE PlatformOf[s] = "os9" -> "user" [] PlatformOf[s] = "junos" -> "shell" [] OTHER -> "menu"

\* PROMPT_RE: the prompts of OPNsense and of the Junos shell are not among them.
PROMPT_RE == {"user", "priv", "cli"}

\* _connect_os9, _connect_junos, _connect_opnsense: what is sent, the prompts the
\* read stops at, and those without which the login is given up.
Login(s) ==
  CASE PlatformOf[s] = "os9" ->
         << [send |-> "login", until |-> PROMPT_RE, need |-> {}],
            [send |-> "enable", until |-> PROMPT_RE \cup {"password"}, need |-> {"priv", "password"}],
            [send |-> "secret", until |-> PROMPT_RE, need |-> {"priv"}],
            [send |-> "terminal length 0", until |-> PROMPT_RE, need |-> {}] >>
    [] PlatformOf[s] = "junos" ->
         << [send |-> "login", until |-> {"shell"}, need |-> {}],
            [send |-> "cli", until |-> PROMPT_RE, need |-> {"user", "cli"}],
            [send |-> "set cli", until |-> PROMPT_RE, need |-> {}] >>
    [] OTHER ->
         << [send |-> "login", until |-> {"menu"}, need |-> {}],
            [send |-> "8", until |-> {"root"}, need |-> {"root"}] >>

\* Only a device that asks for the enable password is sent one.
StepAfter(s, i, got) == IF PlatformOf[s] = "os9" /\ i = 2 /\ got # "password" THEN 4 ELSE i + 1

\* run() reads up to _prompt_re, which only OPNsense changes.
Until(s) == IF call[s].at = "login" THEN Login(s)[call[s].step].until
            ELSE IF PlatformOf[s] = "opnsense" THEN {"root"} ELSE PROMPT_RE

Idle == [at |-> "idle", attempt |-> 0, try |-> 0, step |-> 0]
Nothing == [of |-> {}, end |-> "none"]

Init ==
  /\ permits = Permits
  /\ call = [s \in Sessions |-> Idle]
  /\ chan = [s \in Sessions |-> "none"]
  /\ mode = [s \in Sessions |-> FirstPrompt(s)]
  /\ owed = [s \in Sessions |-> <<>>] /\ inbox = [s \in Sessions |-> <<>>]
  /\ buf = [s \in Sessions |-> Nothing]
  /\ runs = [s \in Sessions |-> 0]
  /\ answers = [s \in Sessions |-> [to |-> 0, of |-> {0}]]
  /\ impatient = [s \in Sessions |-> FALSE]
  /\ mishaps = 0

-----------------------------------------------------------------------------
(* The device, and what happens to the channel behind the client's back.   *)

UnchangedByDevice == UNCHANGED <<permits, call, buf, runs, answers, impatient>>

\* What a line does to the prompt: a login line does what it is for, or is refused.
After(prompt, line) ==
  CASE prompt = "user" /\ line = "enable"     -> {"password", "priv", "user"}
    [] prompt = "password"                    -> IF line = "secret" THEN {"priv", "user"} ELSE {"user"}
    [] prompt = "shell" /\ line = "cli"       -> {"cli", "shell"}
    [] prompt = "menu" /\ line = "8"          -> {"root", "menu"}
    [] OTHER                                  -> {prompt}

\* The device answers the oldest line.  A Junos pager asks first, and is answered
\* with a space; the marker is cut out of what was read.
Answer(s) ==
  /\ chan[s] = "open" /\ owed[s] # <<>>
  /\ \E prompt \in After(mode[s], Head(owed[s]).line) :
       /\ mode' = [mode EXCEPT ![s] = prompt]
       /\ inbox' = [inbox EXCEPT ![s] = Append(@, [of |-> Head(owed[s]).no, end |-> prompt])]
  /\ owed' = [owed EXCEPT ![s] = Tail(@)]
  /\ UNCHANGED <<chan, mishaps>> /\ UnchangedByDevice

Mishap == mishaps < MaxMishaps /\ mishaps' = mishaps + 1

Dies(s) ==
  /\ chan[s] = "open" /\ Mishap
  /\ chan' = [chan EXCEPT ![s] = "dead"]
  /\ UNCHANGED wire /\ UnchangedByDevice

-----------------------------------------------------------------------------
(* run.  `finally` releases the permit however the login ends.             *)

Goto(s, at) == call' = [call EXCEPT ![s].at = at]
NewChannel(s, state, first, lines) ==
  /\ chan' = [chan EXCEPT ![s] = state]
  /\ mode' = [mode EXCEPT ![s] = first]
  /\ owed' = [owed EXCEPT ![s] = lines]
  /\ inbox' = [inbox EXCEPT ![s] = <<>>]
Close(s) == NewChannel(s, "none", FirstPrompt(s), <<>>)
ReleasePermit == permits' = permits + 1
Raise(s) == call' = [call EXCEPT ![s] = Idle]
UnchangedHistory == UNCHANGED <<runs, answers, impatient, mishaps>>

Connected(s) == chan[s] = "open"

Run(s) ==
  /\ call[s].at = "idle" /\ runs[s] < MaxRuns[s]
  /\ runs' = [runs EXCEPT ![s] = @ + 1]
  /\ call' = [call EXCEPT ![s] = [Idle EXCEPT !.at = IF Connected(s) THEN "send" ELSE "acquire",
                                              !.attempt = 1, !.try = 1]]
  /\ UNCHANGED <<permits, chan, wire, buf, answers, impatient, mishaps>>

\* A turn at the semaphore, or thirty seconds without one.
Acquire(s) ==
  /\ call[s].at = "acquire"
  /\ Close(s)
  /\ \/ permits > 0 /\ permits' = permits - 1 /\ Goto(s, "handshake")
     \/ permits = 0 /\ UNCHANGED permits /\ Raise(s)
  /\ UNCHANGED buf /\ UnchangedHistory

\* connect goes round for what looks transient, and gives up at the last attempt.
TryAgainForEver(s) == Goto(s, "acquire")
TryAgain(s) ==
  IF call[s].attempt < Retries
  THEN call' = [call EXCEPT ![s] = [call[s] EXCEPT !.at = "acquire", !.attempt = @ + 1]]
  ELSE Raise(s)

SendLogin(s, step) ==
  /\ owed' = [owed EXCEPT ![s] = Append(@, [no |-> 0, line |-> Login(s)[step].send])]
  /\ call' = [call EXCEPT ![s] = [@ EXCEPT !.at = "login", !.step = step]]
  /\ buf' = [buf EXCEPT ![s] = Nothing]

Handshake(s) ==
  /\ call[s].at = "handshake"
  /\ \/ /\ NewChannel(s, "open", FirstPrompt(s), <<[no |-> 0, line |-> "login"]>>)
        /\ call' = [call EXCEPT ![s] = [@ EXCEPT !.at = "login", !.step = 1]]
        /\ buf' = [buf EXCEPT ![s] = Nothing]
        /\ UNCHANGED permits
     \/ ReleasePermit /\ Close(s) /\ TryAgain(s) /\ UNCHANGED buf
  /\ UnchangedHistory

Reading(s) == call[s].at \in {"login", "read"}

ReadChunk(s) ==
  /\ Reading(s) /\ chan[s] # "none" /\ inbox[s] # <<>>
  /\ buf' = [buf EXCEPT ![s] = [of |-> @.of \cup {Head(inbox[s]).of}, end |-> Head(inbox[s]).end]]
  /\ inbox' = [inbox EXCEPT ![s] = Tail(@)]
  /\ UNCHANGED <<permits, call, chan, mode, owed>> /\ UnchangedHistory

\* The read returns at a prompt with nothing behind it, or when its time is up,
\* with whatever it has.  A channel that has died only looks quiet.
AtPrompt(s) == buf[s].end \in Until(s) /\ inbox[s] = <<>>
Hopeless(s) == inbox[s] = <<>> /\ (owed[s] = <<>> \/ chan[s] = "dead") /\ ~AtPrompt(s)
ReadReturns(s) ==
  /\ Reading(s) /\ chan[s] # "none"
  /\ impatient' = [impatient EXCEPT ![s] = @ \/ ~(AtPrompt(s) \/ Hopeless(s))]

\* A step of the login is over: it goes on, is given up, or the next line cannot
\* be sent.  Giving up raises the error connect does not retry, and closes nothing.
LoginReturns(s) ==
  /\ call[s].at = "login" /\ ReadReturns(s)
  /\ LET step == call[s].step
         next == StepAfter(s, step, buf[s].end)
         need == Login(s)[step].need
     IN CASE need # {} /\ buf[s].end \notin need -> ReleasePermit /\ Raise(s) /\ UNCHANGED <<chan, wire, buf>>
          [] (need = {} \/ buf[s].end \in need) /\ next > Len(Login(s)) ->
               ReleasePermit /\ Goto(s, "send") /\ UNCHANGED <<chan, wire, buf>>
          [] OTHER -> IF chan[s] = "open"
                      THEN SendLogin(s, next) /\ UNCHANGED <<permits, chan, mode, inbox>>
                      ELSE ReleasePermit /\ Close(s) /\ TryAgain(s) /\ UNCHANGED buf
  /\ UNCHANGED <<runs, answers, mishaps>>

SendOnOldBuffer(s) ==
  /\ call[s].at = "send" /\ chan[s] = "open"
  /\ owed' = [owed EXCEPT ![s] = Append(@, [no |-> runs[s], line |-> "show"])]
  /\ Goto(s, "read")
  /\ UNCHANGED <<permits, chan, mode, inbox, buf>> /\ UnchangedHistory

Send(s) ==
  /\ call[s].at = "send" /\ chan[s] = "open"
  /\ owed' = [owed EXCEPT ![s] = Append(@, [no |-> runs[s], line |-> "show"])]
  /\ buf' = [buf EXCEPT ![s] = Nothing]
  /\ Goto(s, "read")
  /\ UNCHANGED <<permits, chan, mode, inbox>> /\ UnchangedHistory

\* Sending to a dead channel raises: reconnect and send again, once.
SendFails(s) ==
  /\ call[s].at = "send" /\ chan[s] = "dead"
  /\ Close(s)
  /\ IF call[s].try < Resends
     THEN call' = [call EXCEPT ![s] = [call[s] EXCEPT !.at = "acquire", !.try = @ + 1, !.attempt = 1]]
     ELSE Raise(s)
  /\ UNCHANGED <<permits, buf>> /\ UnchangedHistory

RunReturns(s) ==
  /\ call[s].at = "read" /\ ReadReturns(s)
  /\ answers' = [answers EXCEPT ![s] = [to |-> runs[s], of |-> buf[s].of]]
  /\ Raise(s)
  /\ UNCHANGED <<permits, chan, wire, buf, runs, mishaps>>

\* Another thread closes the session (the device is updated, deleted, reloaded):
\* whatever touches it next finds None, which nothing here catches.
ClosedElsewhere(s) ==
  /\ chan[s] # "none" /\ Mishap
  /\ Close(s)
  /\ UNCHANGED <<permits, call, buf, runs, answers, impatient>>

FindsNone(s) ==
  /\ call[s].at \in {"login", "send", "read"} /\ chan[s] = "none"
  /\ IF call[s].at = "login" THEN ReleasePermit ELSE UNCHANGED permits
  /\ Raise(s)
  /\ UNCHANGED <<chan, wire, buf>> /\ UnchangedHistory

Client(s) ==
  \/ Acquire(s) \/ Handshake(s) \/ LoginReturns(s)
  \/ Send(s) \/ SendFails(s) \/ ReadChunk(s) \/ RunReturns(s) \/ FindsNone(s)

Rest ==
  /\ \A s \in Sessions : call[s].at = "idle"
  /\ UNCHANGED switchVars

Next ==
  \/ \E s \in Sessions : Run(s) \/ Client(s) \/ Answer(s) \/ Dies(s) \/ ClosedElsewhere(s)
  \/ Rest

\* Threads run, and every wait of the client has a timeout.
Fairness == \A s \in Sessions : WF_switchVars(Client(s))
Spec == Init /\ [][Next]_switchVars /\ Fairness

-----------------------------------------------------------------------------
(* Properties.                                                             *)

TypeOK ==
  /\ permits \in 0..Permits
  /\ \A s \in Sessions :
       /\ call[s].at \in {"idle", "acquire", "handshake", "login", "send", "read"}
       /\ chan[s] \in {"none", "open", "dead"} /\ mode[s] \in Prompts
       /\ call[s].attempt <= Retries /\ call[s].try <= Resends

\* As long as the device answers in time, run() returns what the device said to
\* this very command, or raises ("read the response back up to the next prompt").
AnswersItsCommand ==
  \A s \in Sessions : ~impatient[s] => answers[s].of \subseteq {answers[s].to}

\* run() ends: retries, reconnects and reads are all bounded.
RunsEnd == \A s \in Sessions : call[s].at # "idle" ~> call[s].at = "idle"
=============================================================================
