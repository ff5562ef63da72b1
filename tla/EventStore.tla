------------------------------ MODULE EventStore ------------------------------
(***************************************************************************)
(* webui/eventstore.py on top of common/db.py: the `events` table and the  *)
(* threads that raise, resolve, expire and prune events.                   *)
(*                                                                         *)
(* Every SQL statement is one atomic step, because Database runs each one  *)
(* under its lock and commits it before the lock is released.  Nothing     *)
(* holds a lock BETWEEN the statements of one raise_event, one expire or   *)
(* one resolve_open, nor between a commit and the hook that announces it,  *)
(* so the steps of different callers interleave freely.  The callers are   *)
(* the threads of app.py: the fast-path workers, the Loki fallback, the    *)
(* SSH reconciler, the timers and the HTTP requests.                       *)
(***************************************************************************)
EXTENDS Integers, FiniteSets

CONSTANTS
  Signatures,  \* signature_for(kind, device, subject)
  Callers,     \* threads using the store
  NoNotice,    \* "no hook to call"
  Window,      \* REOPEN_WITHIN_SECONDS, in ticks
  Ttl,         \* ttl_seconds of a timer-resolved kind, in ticks
  Keep,        \* retention of resolved events, in ticks
  Faults,      \* which of "lostAck", "dbError" and "crash" may happen
  MaxTime,     \* bound: the clock stops there
  MaxId,       \* bound: no new episode is begun past this row id
  MaxNews      \* bound: no new episode after this many hooks of a signature

ASSUME StoreAssumption ==
  /\ Window \in Nat /\ Ttl \in Nat \ {0} /\ Keep \in Nat
  /\ MaxTime \in Nat /\ MaxId \in Nat /\ MaxNews \in Nat
  /\ Faults \subseteq {"lostAck", "dbError", "crash"}
  /\ NoNotice \notin [sig : Signatures, news : {"raised", "resolved"}]

VARIABLES
  events,  \* the table: rows [id, sig, seen (last_seen_at), resolved (resolved_at)]
  nextId,  \* the SERIAL behind events.id
  now,     \* the database clock
  pc,      \* per caller, the statement it runs next
  work,    \* per caller, the signatures it has still to raise or resolve
  by,      \* per caller, who resolves: "timer" for expire, "other" otherwise
  owes,    \* per caller, the hook it calls next, its commit being done
  sent     \* per signature, hooks called so far, per kind

vars == <<events, nextId, now, pc, work, by, owes, sent>>

News == {"raised", "resolved"}
Notices == [sig : Signatures, news : News]
Null == -1
Row == [id : Nat, sig : Signatures, seen : Nat, resolved : Nat \cup {Null}]
RaiseSteps == {"reopen", "insert", "rebump"}
Steps == RaiseSteps \cup {"idle", "sweep", "hook"}

Init ==
  /\ events = {}
  /\ nextId = 1
  /\ now = 0
  /\ pc = [c \in Callers |-> "idle"]
  /\ work = [c \in Callers |-> {}]
  /\ by = [c \in Callers |-> "other"]
  /\ owes = [c \in Callers |-> NoNotice]
  /\ sent = [s \in Signatures |-> [n \in News |-> 0]]

-----------------------------------------------------------------------------
(* The table.                                                              *)

OpenRows(s) == {r \in events : r.sig = s /\ r.resolved = Null}

\* UPDATE ... SET last_seen_at = now() WHERE signature = s AND resolved_at IS NULL
Bumped(s) ==
  {IF r \in OpenRows(s) THEN [r EXCEPT !.seen = now] ELSE r : r \in events}

\* Seeded fault: the sub-select without its NOT EXISTS.
ReturningUnguarded(s) ==
  {r \in events : r.sig = s /\ r.resolved # Null /\ r.resolved > now - Window}

\* What the re-open's sub-select accepts, before ORDER BY id DESC LIMIT 1.
Returning(s) ==
  {r \in events : /\ r.sig = s
                  /\ r.resolved # Null
                  /\ r.resolved > now - Window
                  /\ OpenRows(s) = {}}

\* Seeded fault: ORDER BY id, without the DESC.
Oldest(rows) == CHOOSE r \in rows : \A q \in rows : r.id <= q.id

Newest(rows) == CHOOSE r \in rows : \A q \in rows : q.id <= r.id

Reopened(s) ==
  LET row == Newest(Returning(s))
  IN  (events \ {row}) \cup {[row EXCEPT !.resolved = Null, !.seen = now]}

\* Seeded fault: last_seen_at without its DEFAULT now().
InsertedUnseen(s) ==
  events \cup {[id |-> nextId, sig |-> s, seen |-> Null, resolved |-> Null]}

\* INSERT ... ON CONFLICT (signature) WHERE resolved_at IS NULL DO NOTHING
Inserted(s) ==
  events \cup {[id |-> nextId, sig |-> s, seen |-> now, resolved |-> Null]}

\* UPDATE ... SET resolved_at = now() WHERE signature = s AND resolved_at IS NULL
Resolved(s) ==
  {IF r \in OpenRows(s) THEN [r EXCEPT !.resolved = now] ELSE r : r \in events}

-----------------------------------------------------------------------------
(* Where a caller goes next.                                               *)

Goto(c, step, rest) ==
  /\ pc' = [pc EXCEPT ![c] = step]
  /\ work' = [work EXCEPT ![c] = rest]
  /\ UNCHANGED owes

\* Back to the loop over the selected rows, or to the caller's caller.
Continue(c, rest) == Goto(c, IF rest = {} THEN "idle" ELSE "sweep", rest)

\* The statement returned a row: its hook is called next, outside the lock.
Announce(c, s, n, rest) ==
  /\ pc' = [pc EXCEPT ![c] = "hook"]
  /\ work' = [work EXCEPT ![c] = rest]
  /\ owes' = [owes EXCEPT ![c] = [sig |-> s, news |-> n]]

\* The COMMIT went through but its acknowledgement was lost.  _with_reconnect
\* reconnects and runs the statement again, which now finds nothing to do; or
\* the reconnect fails too and the exception leaves the call.
AckLost == "lostAck" \in Faults

-----------------------------------------------------------------------------
(* raise_event                                                             *)

\* raise_event's first statement: bump what is open and return, else go on.
RaiseEvent(c, s) ==
  /\ pc[c] = "idle"
  /\ IF OpenRows(s) # {}
       THEN /\ events' = Bumped(s)
            /\ UNCHANGED <<pc, work, owes>>
       ELSE /\ nextId <= MaxId
            /\ sent[s]["raised"] + sent[s]["resolved"] < MaxNews
            /\ Goto(c, "reopen", {s})
            /\ UNCHANGED events
  /\ UNCHANGED <<nextId, now, by, sent>>

\* Seeded fault: a re-open is no news.
ReopenQuietly(c, s) ==
  /\ pc[c] = "reopen" /\ s \in work[c]
  /\ IF Returning(s) = {}
       THEN Goto(c, "insert", work[c]) /\ UNCHANGED events
       ELSE Goto(c, "idle", {}) /\ events' = Reopened(s)
  /\ UNCHANGED <<nextId, now, by, sent>>

\* Else re-open what closed recently.  Every exception is swallowed here and
\* read as "nothing to re-open".
Reopen(c, s) ==
  /\ pc[c] = "reopen" /\ s \in work[c]
  /\ \/ /\ Returning(s) = {}
        /\ Goto(c, "insert", work[c])
        /\ UNCHANGED events
     \/ /\ Returning(s) # {}
        /\ events' = Reopened(s)
        /\ \/ Announce(c, s, "raised", {})
           \/ AckLost /\ Goto(c, "insert", work[c])
  /\ UNCHANGED <<nextId, now, by, sent>>

\* Else start a new episode, unless someone opened it in between.
Insert(c, s) ==
  /\ pc[c] = "insert" /\ s \in work[c]
  /\ nextId' = nextId + 1
  /\ \/ /\ OpenRows(s) # {}
        /\ Goto(c, "rebump", work[c])
        /\ UNCHANGED events
     \/ /\ OpenRows(s) = {}
        /\ events' = Inserted(s)
        /\ \/ Announce(c, s, "raised", {})
           \/ AckLost /\ Goto(c, "rebump", work[c])
           \/ AckLost /\ Goto(c, "idle", {})
  /\ UNCHANGED <<now, by, sent>>

\* The insert hit an open row: count the report there, quietly.
Rebump(c, s) ==
  /\ pc[c] = "rebump" /\ s \in work[c]
  /\ events' = Bumped(s)
  /\ Goto(c, "idle", {})
  /\ UNCHANGED <<nextId, now, by, sent>>

-----------------------------------------------------------------------------
(* resolve, resolve_id, resolve_open and expire                            *)

\* Seeded fault: the hook is called whether or not the UPDATE returned a row.
ResolveRowAlways(c, s, rest) ==
  /\ events' = Resolved(s)
  /\ Announce(c, s, "resolved", rest)
  /\ UNCHANGED <<nextId, now, by, sent>>

\* One resolve(signature), `rest` being what the loop around it has left.
ResolveRow(c, s, rest) ==
  /\ events' = Resolved(s)
  /\ IF OpenRows(s) # {}
       THEN \/ Announce(c, s, "resolved", rest)
            \/ AckLost /\ Continue(c, rest)
            \/ AckLost /\ Goto(c, "idle", {})
       ELSE Continue(c, rest)
  /\ UNCHANGED <<nextId, now, by, sent>>

\* A detector, the reconciler or the silence check resolves one signature.
Resolve(c, s) == pc[c] = "idle" /\ ResolveRow(c, s, {})

\* The SELECTs hand over signatures; nothing is remembered of the rows.
Select(c, sigs, who) ==
  /\ pc[c] = "idle" /\ sigs # {}
  /\ by' = [by EXCEPT ![c] = who]
  /\ Goto(c, "sweep", sigs)
  /\ UNCHANGED <<events, nextId, now, sent>>

\* expire: the open events of a kind not reported again for Ttl.
Silent(s) == \E r \in OpenRows(s) : r.seen < now - Ttl
Expire(c) == Select(c, {s \in Signatures : Silent(s)}, "timer")

\* resolve_open: the open events a kind, a device or a rule selects.
ResolveOpen(c) ==
  \E sigs \in SUBSET {s \in Signatures : OpenRows(s) # {}} : Select(c, sigs, "other")

\* resolve_id: the signature of one row, if that row is open.
ResolveId(c) ==
  \E r \in events : r.resolved = Null /\ Select(c, {r.sig}, "other")

\* The loop body shared by the three: resolve by signature, whatever row that is now.
ResolveNext(c) ==
  /\ pc[c] = "sweep"
  /\ \E s \in work[c] : ResolveRow(c, s, work[c] \ {s})

-----------------------------------------------------------------------------
(* Hooks, retention, time and failures                                     *)

\* on_raised / on_resolved: the transition goes onto the event bus.
Hook(c) ==
  /\ pc[c] = "hook"
  /\ sent' = [sent EXCEPT ![owes[c].sig][owes[c].news] = @ + 1]
  /\ pc' = [pc EXCEPT ![c] = IF work[c] = {} THEN "idle" ELSE "sweep"]
  /\ owes' = [owes EXCEPT ![c] = NoNotice]
  /\ UNCHANGED <<events, nextId, now, work, by>>

\* Seeded fault: retention by last_seen_at, open or not.
PruneBySeen ==
  /\ events' = {r \in events : r.seen >= now - Keep}
  /\ UNCHANGED <<nextId, now, pc, work, by, owes, sent>>

Prune ==
  /\ events' = {r \in events : r.resolved = Null \/ r.resolved >= now - Keep}
  /\ UNCHANGED <<nextId, now, pc, work, by, owes, sent>>

Tick ==
  /\ now < MaxTime
  /\ now' = now + 1
  /\ UNCHANGED <<events, nextId, pc, work, by, owes, sent>>

\* The statement raised without effect.  Only the re-open catches it.
DbError(c) ==
  /\ "dbError" \in Faults
  /\ \/ pc[c] = "reopen" /\ Goto(c, "insert", work[c])
     \/ pc[c] \in {"insert", "rebump", "sweep"} /\ Goto(c, "idle", {})
  /\ UNCHANGED <<events, nextId, now, by, sent>>

\* The process dies and starts again: the table stays, the threads do not.
Crash ==
  /\ "crash" \in Faults
  /\ pc' = [c \in Callers |-> "idle"]
  /\ work' = [c \in Callers |-> {}]
  /\ owes' = [c \in Callers |-> NoNotice]
  /\ UNCHANGED <<events, nextId, now, by, sent>>

-----------------------------------------------------------------------------

Call(c) ==
  \/ \E s \in Signatures : RaiseEvent(c, s) \/ Resolve(c, s)
  \/ Expire(c)
  \/ ResolveOpen(c)
  \/ ResolveId(c)

Step(c) ==
  \/ \E s \in Signatures : Reopen(c, s) \/ Insert(c, s) \/ Rebump(c, s)
  \/ ResolveNext(c)
  \/ Hook(c)

Next ==
  \/ \E c \in Callers : Call(c) \/ Step(c) \/ DbError(c)
  \/ Prune
  \/ Tick
  \/ Crash

Spec == Init /\ [][Next]_vars

-----------------------------------------------------------------------------
(* Properties.                                                             *)

TypeOK ==
  /\ events \subseteq Row
  /\ nextId \in Nat
  /\ now \in Nat
  /\ pc \in [Callers -> Steps]
  /\ work \in [Callers -> SUBSET Signatures]
  /\ by \in [Callers -> {"timer", "other"}]
  /\ owes \in [Callers -> Notices \cup {NoNotice}]
  /\ sent \in [Signatures -> [News -> Nat]]

\* The statements keep one open row per signature by themselves: the partial
\* unique index idx_events_one_open never has to refuse one of them, although the
\* statements of several raise_event calls interleave.
OneOpenPerSignature ==
  \A q, r \in events :
    q.sig = r.sig /\ q.resolved = Null /\ r.resolved = Null => q = r

\* latest_for(signature), the row with the highest id, is what the SSH poll
\* trusts: it is the open row if there is one, and otherwise the row that was
\* resolved last.  So no older row is open, or was resolved after it.
LatestForIsAuthoritative ==
  \A q, r \in events :
    q.sig = r.sig /\ q.id < r.id =>
      /\ q.resolved # Null
      /\ r.resolved # Null => q.resolved <= r.resolved

\* What happened stays on record: an open event is never deleted, a resolved
\* one only after the retention, and an episode only comes back within the
\* re-open window ("this morning's outage and this afternoon's are two events").
HistoryIsKept ==
  [][\A r \in events :
       \/ \E q \in events' : q.id = r.id /\ (q.resolved = r.resolved \/ r.resolved = Null)
       \/ r.resolved # Null /\ r.resolved < now - Keep
       \/ r.resolved # Null /\ r.resolved > now - Window
            /\ \E q \in events' : q.id = r.id /\ q.resolved = Null]_vars

\* The promise of the store, and how the table and the callers keep it: an
\* episode is going on while its signature has an open row, and a caller owes
\* a notice from its commit until it has called the hook.
Episodes == INSTANCE EventEpisodes WITH
  open <- {s \in Signatures : OpenRows(s) # {}},
  owed <- owes

\* Every start and end of an episode is committed and then announced exactly
\* once, whichever caller drove it, however their statements interleave.
RefinesEpisodes == Episodes!Spec

\* "Hooks fire exactly once per transition": raised and resolved hooks balance,
\* except for the episode still open and the hooks still to be called.
HooksBalance == Episodes!NoticesBalance

\* expire resolves events "not re-reported for ttl_seconds" and no others.
ExpiresOnlySilent ==
  [][\A c \in Callers, r \in events :
       (/\ pc[c] = "sweep" /\ by[c] = "timer" /\ work'[c] # work[c]
        /\ r.resolved = Null /\ [r EXCEPT !.resolved = now] \in events')
       => r.seen < now - Ttl]_vars
=============================================================================
