------------------------------- MODULE EventBus -------------------------------
(***************************************************************************)
(* The event bus and what listens to it: emitters put envelopes on a       *)
(* bounded queue, a worker thread hands each to the subscribers, and       *)
(* saving the settings replaces the subscribers while all of this runs.    *)
(* The webhook dispatcher posts an envelope to every enabled row that      *)
(* wants it, again until it is answered; the push notifier pages every     *)
(* browser the severity concerns.                                          *)
(*                                                                         *)
(* The columns that only a page shows (last_status, failures) are left     *)
(* out; that their updates can fail is not.  There is no action for a      *)
(* browser that subscribes: the handler reads two fields its request does  *)
(* not have and answers 500, so rows are older than this version.          *)
(***************************************************************************)
EXTENDS Naturals, FiniteSets, Sequences, SequencesExt

CONSTANTS
  Emitters,      \* threads that emit: requests, detectors, timers
  Admins,        \* requests that save the settings
  Hooks,         \* rows of webhooks
  Browsers,      \* rows of push_subscriptions
  Severities,    \* ranks, a set of numbers
  QueueSize,     \* maxsize of the queue: 10000 in the code
  Attempts,      \* length of RETRY_DELAYS: 3 in the code
  MaxEnvelopes,  \* bound: envelopes emitted
  MaxWorkers,    \* bound: worker threads
  MaxEdits       \* bound: edits of rows and saves of the settings

VARIABLES
  queue,         \* EventBus._queue
  worker,        \* EventBus._worker, 0 before the first emit
  work,          \* per worker thread: what it is doing
  emitting,      \* per emitter that found no worker alive: the statement it is at
  raced,         \* two emitters have been at that at once
  put,           \* envelopes put on the queue so far
  dropped,       \* EventBus.dropped
  subscribers,   \* EventBus._subscribers
  wiring,        \* per admin: the statement of _wire_event_bus it is at
  crossed,       \* history: two admins have been at that at once
  dispatcher,    \* WEBHOOK_DISPATCHER
  notifier,      \* PUSH_NOTIFIER
  made,          \* subscriber objects made so far: the latest has this number
  webhooks,      \* the enabled rows: per hook the events it wants
  browsers,      \* the rows: per browser its preferences
  heard,         \* per receiver: what reached it, and whether that was acknowledged
  edits          \* counts edits, for their bound

busRows == <<webhooks, browsers>>
busWires == <<subscribers, wiring, crossed, dispatcher, notifier, made>>
emitters == <<emitting, raced>>
vars == <<queue, worker, work, emitters, put, dropped, busWires, busRows, heard, edits>>

Events == {"raised", "resolved"}
Envelopes == [event : Events, severity : Severities]
Queued == [n : 1..MaxEnvelopes, envelope : Envelopes]
Threads == 1..MaxWorkers
Receivers == Hooks \cup Browsers
Subscribers == [kind : {"hooks", "push"}, made : Nat]
Prefs == [min : Severities, resolved : BOOLEAN]
Gone == [min |-> 0, resolved |-> FALSE]

Unborn == [at |-> "unborn"]
Made == [at |-> "made"]
Waiting == [at |-> "get"]
Idle == {Unborn, Made, Waiting}

BusAssumption ==
  /\ IsFiniteSet(Emitters) /\ Hooks \cap Browsers = {}
  /\ Severities \subseteq Nat /\ {QueueSize, Attempts, MaxEnvelopes, MaxWorkers, MaxEdits} \subseteq Nat

Init ==
  /\ queue = <<>> /\ put = 0 /\ dropped = 0 /\ worker = 0
  /\ work = [w \in Threads |-> Unborn]
  /\ emitting = [e \in Emitters |-> "no"] /\ raced = FALSE
  /\ dispatcher = 1 /\ notifier = 2 /\ made = 2
  /\ subscribers = <<[kind |-> "hooks", made |-> 1], [kind |-> "push", made |-> 2]>>
  /\ wiring = [a \in Admins |-> "idle"] /\ crossed = FALSE
  /\ webhooks = [h \in Hooks |-> Events]
  /\ browsers \in [Browsers -> Prefs]
  /\ heard = [r \in Receivers |-> <<>>]
  /\ edits = 0

-----------------------------------------------------------------------------
(* emit: look for the worker, make one and start it if there is none, put. *)
(* None of this is under the lock.  A thread may see the worker of another *)
(* before it is started, and start what is by then another's worker.       *)

NeverAlive == FALSE  \* seeded fault: every emit starts a worker
Alive == worker # 0 /\ work[worker] \notin {Unborn, Made}

\* Seeded fault: the queue has no maxsize.
PutUnbounded ==
  /\ \E v \in Envelopes : queue' = Append(queue, [n |-> put + 1, envelope |-> v])
  /\ put' = put + 1 /\ UNCHANGED dropped

PutNowait ==
  IF Len(queue) < QueueSize
  THEN /\ \E v \in Envelopes : queue' = Append(queue, [n |-> put + 1, envelope |-> v])
       /\ put' = put + 1 /\ UNCHANGED dropped
  ELSE dropped' = dropped + 1 /\ UNCHANGED <<queue, put>>

UnderWay == {e \in Emitters : emitting[e] # "no"}

Emit(e) ==
  /\ emitting[e] = "no" /\ put + dropped + Cardinality(UnderWay) < MaxEnvelopes
  /\ IF Alive THEN PutNowait /\ UNCHANGED emitters
     ELSE /\ emitting' = [emitting EXCEPT ![e] = "make"]
          /\ raced' = (raced \/ UnderWay # {})
          /\ UNCHANGED <<queue, put, dropped>>
  /\ UNCHANGED <<worker, work, busWires, busRows, heard, edits>>

MakeWorker(e) ==
  /\ emitting[e] = "make"
  /\ \E w \in Threads :
       /\ work[w] = Unborn /\ \A u \in Threads : u < w => work[u] # Unborn
       /\ work' = [work EXCEPT ![w] = Made]
       /\ worker' = w
  /\ emitting' = [emitting EXCEPT ![e] = "start"]
  /\ UNCHANGED <<raced, queue, put, dropped, busWires, busRows, heard, edits>>

\* A thread that another has started cannot be started again: emit raises.
StartWorker(e) ==
  /\ emitting[e] = "start"
  /\ IF work[worker] = Made THEN work' = [work EXCEPT ![worker] = Waiting] /\ PutNowait
     ELSE UNCHANGED <<work, queue, put, dropped>>
  /\ emitting' = [emitting EXCEPT ![e] = "no"]
  /\ UNCHANGED <<raced, worker, busWires, busRows, heard, edits>>

-----------------------------------------------------------------------------
(* _drain: take an envelope and a copy of the subscribers, call each; what *)
(* one raises is logged and the next is called.                            *)

UnchangedByWorker == UNCHANGED <<worker, emitters, put, dropped, busWires, edits>>
Working(w, state) == work' = [work EXCEPT ![w] = state]

\* The worker calls the next subscriber, or waits for the next envelope.
CallNext(item, todo) ==
  IF todo = <<>> THEN Waiting
  ELSE [at |-> Head(todo).kind, item |-> item, todo |-> Tail(todo)]

Take(w) ==
  /\ work[w].at = "get" /\ queue # <<>>
  /\ queue' = Tail(queue)
  /\ Working(w, CallNext(Head(queue), subscribers))
  /\ UNCHANGED <<busRows, heard>> /\ UnchangedByWorker

Return(w) == Working(w, CallNext(work[w].item, work[w].todo))
Uncaught(w) == Working(w, Unborn)  \* seeded fault: the thread ends
\* except Exception, around each call.
Caught(w) == Return(w)

\* A subscriber goes on with the rows that are left to it, or returns.
Proceed(w, state) == IF state.left = {} THEN Return(w) ELSE Working(w, state)

\* Loading the rows raises.  Both subscribers start with it.
Raises(w) ==
  /\ work[w].at \in {"hooks", "push"}
  /\ Caught(w)
  /\ UNCHANGED <<queue, busRows, heard>> /\ UnchangedByWorker

Wanting(event) == {h \in Hooks : event \in webhooks[h]}

\* WebhookDispatcher.__call__ loads the rows, then posts to one after the other.
LoadHooks(w) ==
  /\ work[w].at = "hooks"
  /\ Proceed(w, [at |-> "post", item |-> work[w].item, todo |-> work[w].todo,
                 left |-> Wanting(work[w].item.envelope.event), tries |-> 0])
  /\ UNCHANGED <<queue, busRows, heard>> /\ UnchangedByWorker

Hear(r, w, ok) == heard' = [heard EXCEPT ![r] = Append(@, [n |-> work[w].item.n, ok |-> ok])]

\* deliver: an answer of 2xx ends it, one of 4xx (but 429) too; after anything
\* else - refused, a timeout, 5xx - it tries again.  The receiver may well have
\* heard what nobody answered for.
Post(w) ==
  /\ work[w].at = "post"
  /\ LET h == CHOOSE x \in work[w].left : TRUE
         settled == [work[w] EXCEPT !.left = @ \ {h}, !.tries = 0]
         again == IF work[w].tries + 1 < Attempts THEN [work[w] EXCEPT !.tries = @ + 1]
                  ELSE settled
     IN \/ Hear(h, w, TRUE) /\ Proceed(w, settled)
        \/ UNCHANGED heard /\ Proceed(w, settled)
        \/ UNCHANGED heard /\ Proceed(w, again)
        \/ Hear(h, w, FALSE) /\ Proceed(w, again)
  /\ UNCHANGED <<queue, busRows>> /\ UnchangedByWorker

\* PushNotifier.__call__: a device hears the end of what it would have been told about.
Concerns(envelope, prefs) ==
  /\ prefs # Gone
  /\ envelope.severity >= prefs.min
  /\ envelope.event = "resolved" => prefs.resolved

LoadBrowsers(w) ==
  /\ work[w].at = "push"
  /\ Proceed(w, [at |-> "page", item |-> work[w].item, todo |-> work[w].todo,
                 left |-> {b \in Browsers : Concerns(work[w].item.envelope, browsers[b])}])
  /\ UNCHANGED <<queue, busRows, heard>> /\ UnchangedByWorker

\* One page: it arrives, or the service says the browser is gone and the row is
\* removed, or it fails.  Then the row is updated, and when that raises, the
\* browsers that are left are not paged: nothing here catches it.
Page(w) ==
  /\ work[w].at = "page"
  /\ LET b == CHOOSE x \in work[w].left : TRUE
         on == [work[w] EXCEPT !.left = @ \ {b}]
     IN \/ Hear(b, w, TRUE) /\ (Proceed(w, on) \/ Caught(w)) /\ UNCHANGED busRows
        \/ /\ browsers' = [browsers EXCEPT ![b] = Gone] /\ Proceed(w, on)
           /\ UNCHANGED <<heard, webhooks>>
        \/ (Proceed(w, on) \/ Caught(w)) /\ UNCHANGED <<heard, busRows>>
  /\ UNCHANGED queue /\ UnchangedByWorker

-----------------------------------------------------------------------------
(* _wire_event_bus, statement by statement, in each request that saves.    *)

UnchangedByWiring == UNCHANGED <<queue, worker, work, emitters, put, dropped, busRows, heard>>
\* An object is subscribed once, when it is made.
At(kind, object) == {i \in DOMAIN subscribers : subscribers[i] = [kind |-> kind, made |-> object]}
Without(kind, object) ==
  IF At(kind, object) = {} THEN subscribers
  ELSE RemoveAt(subscribers, CHOOSE i \in At(kind, object) : TRUE)

RemoveDispatcher(a) ==
  /\ wiring[a] = "idle" /\ edits < MaxEdits
  /\ subscribers' = Without("hooks", dispatcher)
  /\ edits' = edits + 1
  /\ wiring' = [wiring EXCEPT ![a] = "removePush"]
  /\ crossed' = (crossed \/ \E other \in Admins : wiring[other] # "idle")
  /\ UNCHANGED <<dispatcher, notifier, made>> /\ UnchangedByWiring

RemoveNotifier(a) ==
  /\ wiring[a] = "removePush"
  /\ subscribers' = Without("push", notifier)
  /\ wiring' = [wiring EXCEPT ![a] = "addHooks"]
  /\ UNCHANGED <<crossed, dispatcher, notifier, made, edits>> /\ UnchangedByWiring

AddDispatcher(a) ==
  /\ wiring[a] = "addHooks"
  /\ made' = made + 1 /\ dispatcher' = made'
  /\ subscribers' = Append(subscribers, [kind |-> "hooks", made |-> made'])
  /\ wiring' = [wiring EXCEPT ![a] = "addPush"]
  /\ UNCHANGED <<crossed, notifier, edits>> /\ UnchangedByWiring

AddNotifier(a) ==
  /\ wiring[a] = "addPush"
  /\ made' = made + 1 /\ notifier' = made'
  /\ subscribers' = Append(subscribers, [kind |-> "push", made |-> made'])
  /\ wiring' = [wiring EXCEPT ![a] = "idle"]
  /\ UNCHANGED <<crossed, dispatcher, edits>> /\ UnchangedByWiring

-----------------------------------------------------------------------------
(* The pages that edit rows: a webhook is created, changed, disabled or    *)
(* deleted; a browser changes its preferences or leaves.                   *)

Edit == edits < MaxEdits /\ edits' = edits + 1

EditHook(h) ==
  /\ Edit
  /\ \E wanted \in SUBSET Events : webhooks' = [webhooks EXCEPT ![h] = wanted]
  /\ UNCHANGED <<queue, worker, work, emitters, put, dropped, busWires, browsers, heard>>

EditBrowser(b) ==
  /\ Edit
  /\ browsers[b] # Gone
  /\ \E prefs \in Prefs \cup {Gone} : browsers' = [browsers EXCEPT ![b] = prefs]
  /\ UNCHANGED <<queue, worker, work, emitters, put, dropped, busWires, webhooks, heard>>

-----------------------------------------------------------------------------

Emitter(e) == Emit(e) \/ MakeWorker(e) \/ StartWorker(e)
Worker(w) ==
  \/ Take(w) \/ Raises(w)
  \/ LoadHooks(w) \/ Post(w)
  \/ LoadBrowsers(w) \/ Page(w)
Admin(a) == RemoveDispatcher(a) \/ RemoveNotifier(a) \/ AddDispatcher(a) \/ AddNotifier(a)

\* Everyone waits for the world, so that a deadlock is a real one.
Rest ==
  /\ queue = <<>> \/ ~Alive
  /\ UnderWay = {}
  /\ \A w \in Threads : work[w] \in Idle
  /\ \A a \in Admins : wiring[a] = "idle"
  /\ UNCHANGED vars

Next ==
  \/ \E e \in Emitters : Emitter(e)
  \/ \E w \in Threads : Worker(w)
  \/ \E a \in Admins : Admin(a)
  \/ \E h \in Hooks : EditHook(h)
  \/ \E b \in Browsers : EditBrowser(b)
  \/ Rest

\* The threads run, and each post and page has a timeout.
Fairness == \A w \in Threads : WF_vars(Worker(w))
Spec == Init /\ [][Next]_vars /\ Fairness

-----------------------------------------------------------------------------
(* Properties.                                                             *)

\* What a worker has in hand: its envelope and the subscribers to call after this one.
Handing ==
  [at : {"hooks", "push"}, item : Queued, todo : Seq(Subscribers)]
    \cup [at : {"page"}, item : Queued, todo : Seq(Subscribers), left : SUBSET Browsers]
    \cup [at : {"post"}, item : Queued, todo : Seq(Subscribers), left : SUBSET Hooks, tries : 0..Attempts]

TypeOK ==
  /\ queue \in Seq(Queued) /\ Len(queue) <= QueueSize
  /\ put \in Nat /\ dropped \in Nat /\ edits \in Nat /\ raced \in BOOLEAN /\ crossed \in BOOLEAN
  /\ worker \in 0..MaxWorkers /\ work \in [Threads -> Idle \cup Handing]
  /\ emitting \in [Emitters -> {"no", "make", "start"}]
  /\ wiring \in [Admins -> {"idle", "removePush", "addHooks", "addPush"}]
  /\ subscribers \in Seq(Subscribers) /\ {dispatcher, notifier, made} \subseteq Nat
  /\ webhooks \in [Hooks -> SUBSET Events] /\ browsers \in [Browsers -> Prefs \cup {Gone}]
  /\ heard \in [Receivers -> Seq([n : 1..MaxEnvelopes, ok : BOOLEAN])]

\* Every receiver hears the envelopes in the order they were put, the end of an
\* event never before its beginning - unless two emitters raced to start the
\* first worker (events.py:86), which leaves two of them.  And once a receiver
\* has acknowledged an envelope it never hears that one again, whatever is
\* retried, raced or reconfigured ("exactly once per transition") - unless two
\* reconfigurations overlapped (app.py:888), which leaves two subscribers of a kind.
HeardInOrder ==
  \A r \in Receivers : \A i, j \in DOMAIN heard[r] :
    i < j => /\ ~raced => heard[r][i].n <= heard[r][j].n
             /\ ~crossed /\ heard[r][i].ok => heard[r][i].n # heard[r][j].n

\* Every envelope on the queue is handed to the subscribers and done with,
\* whatever the subscribers raise ("a subscriber that fails is logged").
Pending(n) ==
  \/ \E i \in DOMAIN queue : queue[i].n = n
  \/ \E w \in Threads : work[w] \notin Idle /\ work[w].item.n = n

EveryEnvelopeIsHandled == \A n \in 1..MaxEnvelopes : Pending(n) ~> ~Pending(n)
=============================================================================
