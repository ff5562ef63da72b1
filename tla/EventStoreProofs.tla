---------------------------- MODULE EventStoreProofs ----------------------------
(***************************************************************************)
(* Theorems about EventStore, for any signatures, callers, windows and     *)
(* faults.                                                                 *)
(*                                                                         *)
(* One inductive invariant carries them.  That a signature has at most one *)
(* open row is not inductive: a re-open could open an old row beside it.   *)
(* What excludes that is how the rows of a signature are ordered: only the *)
(* newest can be open, and the older a row the earlier it was resolved, so *)
(* the row a re-open picks is the newest of all and not only of those in   *)
(* the window.                                                             *)
(***************************************************************************)
EXTENDS EventStore, WellFoundedInduction, TLAPS

\* The table: ids are unique and below nextId, resolve times are in the past,
\* and the rows of a signature are in order.
TableInv ==
  /\ events \subseteq Row
  /\ nextId \in Nat
  /\ now \in Nat
  /\ \A r \in events : r.id < nextId
  /\ \A r \in events : r.resolved # Null => r.resolved <= now
  /\ \A q, r \in events : q.id = r.id => q = r
  /\ LatestForIsAuthoritative

\* The callers: a caller owes a hook exactly when calling it is its next step.
CallersInv ==
  /\ pc \in [Callers -> Steps]
  /\ work \in [Callers -> SUBSET Signatures]
  /\ by \in [Callers -> {"timer", "other"}]
  /\ owes \in [Callers -> Notices \cup {NoNotice}]
  /\ sent \in [Signatures -> [News -> Nat]]
  /\ \A c \in Callers : pc[c] = "hook" <=> owes[c] # NoNotice

IInv == TableInv /\ CallersInv

-----------------------------------------------------------------------------
(* The newest row.                                                         *)

\* A set of natural numbers that is not empty has a least element.
LEMMA NatMin ==
  ASSUME NEW T \in SUBSET Nat, T # {}
  PROVE  \E x \in T : \A y \in T : x <= y
<1>. DEFINE Less == OpToRel(<, Nat)
<1>1. IsWellFoundedOn(Less, Nat)
  BY NatLessThanWellFounded
<1>. HIDE DEF Less
<1>2. PICK x \in T : \A y \in T : ~(<<y, x>> \in Less)
  BY <1>1, WFMin
<1>3. ASSUME NEW y \in T PROVE x <= y
  <2>1. <<y, x>> \notin Less
    BY <1>2
  <2>2. x \in Nat /\ y \in Nat
    OBVIOUS
  <2>3. ~(y < x)
    BY <2>1, <2>2 DEF Less, OpToRel
  <2>. QED BY <2>2, <2>3
<1>. QED BY <1>3

\* ORDER BY id DESC LIMIT 1 picks a row of the set, and none has a higher id.
LEMMA NewestIsNewest ==
  ASSUME TableInv, NEW rows \in SUBSET events, rows # {}
  PROVE  /\ Newest(rows) \in rows
         /\ \A q \in rows : q.id <= Newest(rows).id
<1>. DEFINE gaps == {nextId - r.id : r \in rows}
<1>1. \A r \in rows : r.id \in Nat /\ r.id < nextId
  BY DEF TableInv, Row
<1>2. gaps \in SUBSET Nat /\ gaps # {}
  BY <1>1 DEF TableInv
<1>3. PICK g \in gaps : \A h \in gaps : g <= h
  BY <1>2, NatMin
<1>4. PICK r \in rows : g = nextId - r.id
  OBVIOUS
<1>5. \A q \in rows : q.id <= r.id
  <2>1. TAKE q \in rows
  <2>2. nextId - r.id <= nextId - q.id
    BY <1>3, <1>4
  <2>. QED BY <1>1, <2>2 DEF TableInv
<1>. QED BY <1>5 DEF Newest

-----------------------------------------------------------------------------
(* What the statements do to the table.                                    *)

\* Bumping an open row changes nothing but when it was last seen.
LEMMA BumpedTable ==
  ASSUME TableInv, NEW s \in Signatures, events' = Bumped(s), UNCHANGED <<nextId, now>>
  PROVE  /\ TableInv'
         /\ \A t \in Signatures : OpenRows(t)' = {} <=> OpenRows(t) = {}
<1>. DEFINE f(r) == IF r \in OpenRows(s) THEN [r EXCEPT !.seen = now] ELSE r
<1>1. events' = {f(r) : r \in events}
  BY DEF Bumped
<1>2. ASSUME NEW r \in events
      PROVE  /\ f(r) \in Row /\ f(r).id = r.id /\ f(r).sig = r.sig
             /\ f(r).resolved = r.resolved
  BY DEF TableInv, Row, OpenRows
<1>. HIDE DEF f
<1>3. TableInv'
  BY <1>1, <1>2 DEF TableInv, LatestForIsAuthoritative
<1>4. \A t \in Signatures : OpenRows(t)' = {} <=> OpenRows(t) = {}
  BY <1>1, <1>2 DEF OpenRows
<1>. QED BY <1>3, <1>4

\* Resolving closes the open row, which is the newest, at the latest time.
LEMMA ResolvedTable ==
  ASSUME TableInv, NEW s \in Signatures, events' = Resolved(s), UNCHANGED <<nextId, now>>
  PROVE  /\ TableInv'
         /\ OpenRows(s)' = {}
         /\ \A t \in Signatures \ {s} : OpenRows(t)' = {} <=> OpenRows(t) = {}
<1>. DEFINE f(r) == IF r \in OpenRows(s) THEN [r EXCEPT !.resolved = now] ELSE r
<1>1. events' = {f(r) : r \in events}
  BY DEF Resolved
<1>2. ASSUME NEW r \in events
      PROVE  /\ f(r) \in Row /\ f(r).id = r.id /\ f(r).sig = r.sig
             /\ r.sig = s /\ r.resolved = Null => f(r).resolved = now
             /\ ~(r.sig = s /\ r.resolved = Null) => f(r) = r
  BY DEF TableInv, Row, OpenRows
<1>. HIDE DEF f
<1>3. now # Null
  BY DEF TableInv, Null
<1>4. \A r \in events' : r \in Row /\ r.id < nextId /\ (r.resolved # Null => r.resolved <= now)
  BY <1>1, <1>2, <1>3 DEF TableInv, Row
<1>5. \A q, r \in events' : q.id = r.id => q = r
  BY <1>1, <1>2 DEF TableInv
<1>6. LatestForIsAuthoritative'
  <2>1. SUFFICES ASSUME NEW q \in events, NEW r \in events, q.sig = r.sig, q.id < r.id
                 PROVE  /\ f(q).resolved # Null
                        /\ f(r).resolved # Null => f(q).resolved <= f(r).resolved
    BY <1>1, <1>2 DEF LatestForIsAuthoritative
  <2>2. q.resolved # Null /\ (r.resolved # Null => q.resolved <= r.resolved)
    BY <2>1 DEF TableInv, LatestForIsAuthoritative
  <2>3. f(q) = q /\ q.resolved <= now
    BY <1>2, <2>2 DEF TableInv
  <2>. QED BY <1>2, <2>2, <2>3
<1>7. TableInv'
  BY <1>4, <1>5, <1>6 DEF TableInv
<1>8. OpenRows(s)' = {}
  BY <1>1, <1>2, <1>3 DEF OpenRows
<1>9. \A t \in Signatures \ {s} : OpenRows(t)' = {} <=> OpenRows(t) = {}
  BY <1>1, <1>2 DEF OpenRows
<1>. QED BY <1>7, <1>8, <1>9

\* The row a re-open picks is the newest row of its signature.
LEMMA ReturningIsLast ==
  ASSUME TableInv, NEW s \in Signatures, Returning(s) # {}
  PROVE  LET row == Newest(Returning(s))
         IN  /\ row \in events /\ row.sig = s
             /\ OpenRows(s) = {}
             /\ \A r \in events : r.sig = s => r.id <= row.id
<1>. DEFINE row == Newest(Returning(s))
<1>1. Returning(s) \in SUBSET events
  BY DEF Returning
<1>2. row \in Returning(s) /\ \A q \in Returning(s) : q.id <= row.id
  BY <1>1, NewestIsNewest
<1>3. OpenRows(s) = {} /\ row \in events /\ row.sig = s
      /\ row.resolved # Null /\ row.resolved > now - Window
  BY <1>2 DEF Returning
<1>. HIDE DEF row
<1>4. ASSUME NEW r \in events, r.sig = s PROVE r.id <= row.id
  <2>1. CASE r \in Returning(s)
    BY <1>2, <2>1
  <2>2. CASE r \notin Returning(s)
    <3>1. r.resolved # Null
      BY <1>3, <1>4 DEF OpenRows
    <3>2. ~(r.resolved > now - Window)
      BY <1>3, <1>4, <2>2, <3>1 DEF Returning
    <3>3. ~(row.id < r.id)
      <4>1. SUFFICES ASSUME row.id < r.id PROVE FALSE
        OBVIOUS
      <4>2. row.resolved <= r.resolved
        BY <1>3, <1>4, <3>1, <4>1 DEF TableInv, LatestForIsAuthoritative
      <4>. QED
        BY <1>3, <1>4, <3>1, <3>2, <4>2, StoreAssumption DEF TableInv, Row
    <3>. QED
      BY <1>3, <1>4, <3>3 DEF TableInv, Row
  <2>. QED BY <2>1, <2>2
<1>. QED BY <1>3, <1>4 DEF row

\* Re-opening opens the signature, and keeps the rows in order.
LEMMA ReopenedTable ==
  ASSUME TableInv, NEW s \in Signatures, Returning(s) # {},
         events' = Reopened(s), UNCHANGED <<nextId, now>>
  PROVE  /\ TableInv'
         /\ OpenRows(s) = {}
         /\ OpenRows(s)' # {}
         /\ \A t \in Signatures \ {s} : OpenRows(t)' = {} <=> OpenRows(t) = {}
<1>. DEFINE row == Newest(Returning(s))
            back == [row EXCEPT !.resolved = Null, !.seen = now]
<1>1. events' = (events \ {row}) \cup {back}
  BY DEF Reopened
<1>2. /\ row \in events /\ row.sig = s
      /\ OpenRows(s) = {}
      /\ \A r \in events : r.sig = s => r.id <= row.id
  BY ReturningIsLast
<1>. HIDE DEF row
<1>3. back \in Row /\ back.id = row.id /\ back.sig = s /\ back.resolved = Null
  BY <1>2 DEF TableInv, Row
<1>. HIDE DEF back
<1>4. \A r \in events' : r \in Row /\ r.id < nextId /\ (r.resolved # Null => r.resolved <= now)
  BY <1>1, <1>2, <1>3 DEF TableInv
<1>5. \A q, r \in events' : q.id = r.id => q = r
  BY <1>1, <1>2, <1>3 DEF TableInv
<1>6. LatestForIsAuthoritative'
  <2>1. SUFFICES ASSUME NEW q \in events', NEW r \in events', q.sig = r.sig, q.id < r.id
                 PROVE  /\ q.resolved # Null
                        /\ r.resolved # Null => q.resolved <= r.resolved
    BY DEF LatestForIsAuthoritative
  <2>2. CASE q = back
    <3>1. r \in events /\ r.sig = s /\ row.id < r.id /\ r.id <= row.id
      BY <1>1, <1>2, <1>3, <2>1, <2>2 DEF TableInv, Row
    <3>. QED BY <1>2, <3>1 DEF TableInv, Row
  <2>3. CASE q # back /\ r = back
    BY <1>1, <1>2, <1>3, <2>1, <2>3 DEF OpenRows
  <2>4. CASE q # back /\ r # back
    BY <1>1, <2>1, <2>4 DEF TableInv, LatestForIsAuthoritative
  <2>. QED BY <2>2, <2>3, <2>4
<1>7. TableInv'
  BY <1>4, <1>5, <1>6 DEF TableInv
<1>8. OpenRows(s)' # {}
  BY <1>1, <1>3 DEF OpenRows
<1>9. \A t \in Signatures \ {s} : OpenRows(t)' = {} <=> OpenRows(t) = {}
  BY <1>1, <1>2, <1>3 DEF OpenRows
<1>. QED BY <1>2, <1>7, <1>8, <1>9

\* The insert's SERIAL moves on, whether or not a row comes of it.
LEMMA SkippedIdTable ==
  ASSUME TableInv, nextId' = nextId + 1, UNCHANGED <<events, now>>
  PROVE  TableInv' /\ \A t \in Signatures : OpenRows(t)' = OpenRows(t)
BY DEF TableInv, Row, LatestForIsAuthoritative, OpenRows

\* Inserting opens the signature with the highest id so far.
LEMMA InsertedTable ==
  ASSUME TableInv, NEW s \in Signatures, OpenRows(s) = {},
         events' = Inserted(s), nextId' = nextId + 1, UNCHANGED now
  PROVE  /\ TableInv'
         /\ OpenRows(s)' # {}
         /\ \A t \in Signatures \ {s} : OpenRows(t)' = {} <=> OpenRows(t) = {}
<1>. DEFINE new == [id |-> nextId, sig |-> s, seen |-> now, resolved |-> Null]
<1>1. events' = events \cup {new}
  BY DEF Inserted
<1>2. new \in Row /\ new.id = nextId /\ new.sig = s /\ new.resolved = Null
  BY DEF TableInv, Row
<1>. HIDE DEF new
<1>3. \A r \in events' : r \in Row /\ r.id < nextId' /\ (r.resolved # Null => r.resolved <= now)
  BY <1>1, <1>2 DEF TableInv, Row
<1>4. \A q, r \in events' : q.id = r.id => q = r
  BY <1>1, <1>2 DEF TableInv, Row
<1>5. LatestForIsAuthoritative'
  <2>1. SUFFICES ASSUME NEW q \in events', NEW r \in events', q.sig = r.sig, q.id < r.id
                 PROVE  /\ q.resolved # Null
                        /\ r.resolved # Null => q.resolved <= r.resolved
    BY DEF LatestForIsAuthoritative
  <2>2. q \in events
    BY <1>1, <1>2, <2>1 DEF TableInv, Row
  <2>3. CASE r = new
    BY <1>2, <2>1, <2>2, <2>3 DEF OpenRows
  <2>4. CASE r # new
    BY <1>1, <2>1, <2>2, <2>4 DEF TableInv, LatestForIsAuthoritative
  <2>. QED BY <2>3, <2>4
<1>6. TableInv'
  BY <1>3, <1>4, <1>5 DEF TableInv
<1>7. OpenRows(s)' # {} /\ \A t \in Signatures \ {s} : OpenRows(t)' = {} <=> OpenRows(t) = {}
  BY <1>1, <1>2 DEF OpenRows
<1>. QED BY <1>6, <1>7

\* Retention takes resolved rows away, and time passes.
LEMMA PrunedTable ==
  ASSUME TableInv, Prune
  PROVE  TableInv' /\ \A t \in Signatures : OpenRows(t)' = OpenRows(t)
BY DEF TableInv, Prune, LatestForIsAuthoritative, OpenRows

LEMMA TickedTable ==
  ASSUME TableInv, Tick
  PROVE  TableInv' /\ \A t \in Signatures : OpenRows(t)' = OpenRows(t)
BY DEF TableInv, Tick, Row, LatestForIsAuthoritative, OpenRows

-----------------------------------------------------------------------------
(* What the steps do to the callers.                                       *)

Episode == [Episodes!Next]_(Episodes!vars)

\* A table that keeps its open signatures is a stutter of the episodes, unless
\* a hook is owed or called.
LEMMA QuietStep ==
  ASSUME \A t \in Signatures : OpenRows(t)' = {} <=> OpenRows(t) = {},
         UNCHANGED <<owes, sent>>
  PROVE  Episode
BY DEF Episode, Episodes!vars

\* Going on to another statement owes nothing.
LEMMA GotoCallers ==
  ASSUME CallersInv, NEW c \in Callers, pc[c] # "hook",
         NEW step \in Steps \ {"hook"}, NEW rest \in SUBSET Signatures,
         Goto(c, step, rest), by' \in [Callers -> {"timer", "other"}], UNCHANGED sent
  PROVE  CallersInv' /\ UNCHANGED owes
BY DEF CallersInv, Goto

LEMMA ContinueCallers ==
  ASSUME CallersInv, NEW c \in Callers, pc[c] # "hook", NEW rest \in SUBSET Signatures,
         Continue(c, rest), UNCHANGED <<by, sent>>
  PROVE  CallersInv' /\ UNCHANGED owes
<1>1. Goto(c, IF rest = {} THEN "idle" ELSE "sweep", rest)
  BY DEF Continue
<1>2. (IF rest = {} THEN "idle" ELSE "sweep") \in Steps \ {"hook"}
  BY DEF Steps, RaiseSteps
<1>. QED BY <1>1, <1>2, GotoCallers DEF CallersInv

\* A transition makes its caller owe one notice.
LEMMA AnnounceCallers ==
  ASSUME CallersInv, NEW c \in Callers, pc[c] # "hook",
         NEW s \in Signatures, NEW n \in News, NEW rest \in SUBSET Signatures,
         Announce(c, s, n, rest), UNCHANGED <<by, sent>>
  PROVE  /\ CallersInv'
         /\ owes[c] = NoNotice
         /\ owes' = [owes EXCEPT ![c] = [sig |-> s, news |-> n]]
<1>1. [sig |-> s, news |-> n] \in Notices /\ NoNotice \notin Notices
  BY StoreAssumption DEF Notices, News
<1>. QED BY <1>1 DEF CallersInv, Announce, Steps, RaiseSteps

\* Opening a signature and owing the notice of it begins an episode; closing
\* one and owing the notice of that ends it.
LEMMA OpeningBegins ==
  ASSUME NEW c \in Callers, NEW s \in Signatures,
         OpenRows(s) = {}, OpenRows(s)' # {},
         \A t \in Signatures \ {s} : OpenRows(t)' = {} <=> OpenRows(t) = {},
         owes[c] = NoNotice, owes' = [owes EXCEPT ![c] = [sig |-> s, news |-> "raised"]],
         UNCHANGED sent
  PROVE  Episode
<1>1. Episodes!Begin(c, s)
  BY DEF Episodes!Begin, Episodes!Owe
<1>. QED BY <1>1 DEF Episode, Episodes!Next

LEMMA ClosingEnds ==
  ASSUME NEW c \in Callers, NEW s \in Signatures,
         OpenRows(s) # {}, OpenRows(s)' = {},
         \A t \in Signatures \ {s} : OpenRows(t)' = {} <=> OpenRows(t) = {},
         owes[c] = NoNotice, owes' = [owes EXCEPT ![c] = [sig |-> s, news |-> "resolved"]],
         UNCHANGED sent
  PROVE  Episode
<1>1. Episodes!End(c, s)
  BY DEF Episodes!End, Episodes!Owe
<1>. QED BY <1>1 DEF Episode, Episodes!Next

-----------------------------------------------------------------------------
(* The steps, one by one: each keeps the invariant, and without a lost     *)
(* acknowledgement or a crash each is a step of the episodes.              *)

LEMMA RaiseEventStep ==
  ASSUME IInv, NEW c \in Callers, NEW s \in Signatures, RaiseEvent(c, s)
  PROVE  IInv' /\ Episode
<1>1. CASE OpenRows(s) # {}
  <2>1. events' = Bumped(s) /\ UNCHANGED <<nextId, now, pc, work, owes, by, sent>>
    BY <1>1 DEF RaiseEvent
  <2>2. TableInv' /\ \A t \in Signatures : OpenRows(t)' = {} <=> OpenRows(t) = {}
    BY <2>1, BumpedTable DEF IInv
  <2>3. CallersInv'
    BY <2>1 DEF IInv, CallersInv
  <2>. QED BY <2>1, <2>2, <2>3, QuietStep DEF IInv
<1>2. CASE OpenRows(s) = {}
  <2>1. Goto(c, "reopen", {s}) /\ UNCHANGED <<events, nextId, now, by, sent>> /\ pc[c] = "idle"
    BY <1>2 DEF RaiseEvent
  <2>2. CallersInv' /\ UNCHANGED owes
    BY <2>1, GotoCallers DEF IInv, CallersInv, Steps, RaiseSteps
  <2>3. TableInv' /\ \A t \in Signatures : OpenRows(t)' = {} <=> OpenRows(t) = {}
    BY <2>1 DEF IInv, TableInv, LatestForIsAuthoritative, OpenRows
  <2>. QED BY <2>1, <2>2, <2>3, QuietStep DEF IInv
<1>. QED BY <1>1, <1>2

LEMMA ReopenStep ==
  ASSUME IInv, NEW c \in Callers, NEW s \in Signatures, Reopen(c, s)
  PROVE  IInv' /\ (AckLost \/ Episode)
<1>1. /\ pc[c] = "reopen" /\ work[c] \in SUBSET Signatures
      /\ UNCHANGED <<nextId, now, by, sent>>
      /\ {} \in SUBSET Signatures /\ "raised" \in News /\ "insert" \in Steps \ {"hook"}
  BY DEF Reopen, IInv, CallersInv, News, Steps, RaiseSteps
<1>2. CASE Returning(s) = {} /\ Goto(c, "insert", work[c]) /\ UNCHANGED events
  <2>1. CallersInv' /\ UNCHANGED owes
    BY <1>1, <1>2, GotoCallers DEF IInv, CallersInv
  <2>2. TableInv' /\ \A t \in Signatures : OpenRows(t)' = {} <=> OpenRows(t) = {}
    BY <1>1, <1>2 DEF IInv, TableInv, LatestForIsAuthoritative, OpenRows
  <2>. QED BY <1>1, <2>1, <2>2, QuietStep DEF IInv
<1>3. CASE /\ Returning(s) # {} /\ events' = Reopened(s)
           /\ \/ Announce(c, s, "raised", {})
              \/ AckLost /\ Goto(c, "insert", work[c])
  <2>1. /\ TableInv'
        /\ OpenRows(s) = {} /\ OpenRows(s)' # {}
        /\ \A t \in Signatures \ {s} : OpenRows(t)' = {} <=> OpenRows(t) = {}
    BY <1>1, <1>3, ReopenedTable DEF IInv
  <2>2. CASE Announce(c, s, "raised", {})
    <3>1. /\ CallersInv' /\ owes[c] = NoNotice
          /\ owes' = [owes EXCEPT ![c] = [sig |-> s, news |-> "raised"]]
      BY <1>1, <2>2, AnnounceCallers DEF IInv
    <3>2. Episode
      BY <1>1, <2>1, <3>1, OpeningBegins
    <3>. QED BY <2>1, <3>1, <3>2 DEF IInv
  <2>3. CASE AckLost /\ Goto(c, "insert", work[c])
    BY <1>1, <2>1, <2>3, GotoCallers DEF IInv, CallersInv
  <2>. QED BY <1>3, <2>2, <2>3
<1>. QED BY <1>2, <1>3 DEF Reopen

LEMMA InsertStep ==
  ASSUME IInv, NEW c \in Callers, NEW s \in Signatures, Insert(c, s)
  PROVE  IInv' /\ (AckLost \/ Episode)
<1>1. /\ pc[c] = "insert" /\ work[c] \in SUBSET Signatures
      /\ nextId' = nextId + 1 /\ UNCHANGED <<now, by, sent>>
      /\ {} \in SUBSET Signatures /\ "raised" \in News
      /\ "rebump" \in Steps \ {"hook"} /\ "idle" \in Steps \ {"hook"}
  BY DEF Insert, IInv, CallersInv, News, Steps, RaiseSteps
<1>2. CASE OpenRows(s) # {} /\ Goto(c, "rebump", work[c]) /\ UNCHANGED events
  <2>1. CallersInv' /\ UNCHANGED owes
    BY <1>1, <1>2, GotoCallers DEF IInv, CallersInv
  <2>2. TableInv' /\ \A t \in Signatures : OpenRows(t)' = OpenRows(t)
    BY <1>1, <1>2, SkippedIdTable DEF IInv
  <2>. QED BY <1>1, <2>1, <2>2, QuietStep DEF IInv
<1>3. CASE /\ OpenRows(s) = {} /\ events' = Inserted(s)
           /\ \/ Announce(c, s, "raised", {})
              \/ AckLost /\ Goto(c, "rebump", work[c])
              \/ AckLost /\ Goto(c, "idle", {})
  <2>1. /\ TableInv' /\ OpenRows(s)' # {}
        /\ \A t \in Signatures \ {s} : OpenRows(t)' = {} <=> OpenRows(t) = {}
    BY <1>1, <1>3, InsertedTable DEF IInv
  <2>2. CASE Announce(c, s, "raised", {})
    <3>1. /\ CallersInv' /\ owes[c] = NoNotice
          /\ owes' = [owes EXCEPT ![c] = [sig |-> s, news |-> "raised"]]
      BY <1>1, <2>2, AnnounceCallers DEF IInv
    <3>2. Episode
      BY <1>1, <1>3, <2>1, <3>1, OpeningBegins
    <3>. QED BY <2>1, <3>1, <3>2 DEF IInv
  <2>3. CASE AckLost /\ Goto(c, "rebump", work[c])
    BY <1>1, <2>1, <2>3, GotoCallers DEF IInv, CallersInv
  <2>4. CASE AckLost /\ Goto(c, "idle", {})
    BY <1>1, <2>1, <2>4, GotoCallers DEF IInv, CallersInv
  <2>. QED BY <1>3, <2>2, <2>3, <2>4
<1>. QED BY <1>2, <1>3 DEF Insert

LEMMA RebumpStep ==
  ASSUME IInv, NEW c \in Callers, NEW s \in Signatures, Rebump(c, s)
  PROVE  IInv' /\ Episode
<1>1. /\ pc[c] = "rebump" /\ events' = Bumped(s) /\ Goto(c, "idle", {})
      /\ UNCHANGED <<nextId, now, by, sent>>
  BY DEF Rebump
<1>2. TableInv' /\ \A t \in Signatures : OpenRows(t)' = {} <=> OpenRows(t) = {}
  BY <1>1, BumpedTable DEF IInv
<1>3. CallersInv' /\ UNCHANGED owes
  BY <1>1, GotoCallers DEF IInv, CallersInv, Steps, RaiseSteps
<1>. QED BY <1>1, <1>2, <1>3, QuietStep DEF IInv

LEMMA ResolveRowStep ==
  ASSUME IInv, NEW c \in Callers, pc[c] # "hook", NEW s \in Signatures,
         NEW rest \in SUBSET Signatures, ResolveRow(c, s, rest)
  PROVE  IInv' /\ (AckLost \/ Episode)
<1>1. events' = Resolved(s) /\ UNCHANGED <<nextId, now, by, sent>>
  BY DEF ResolveRow
<1>2. /\ TableInv' /\ OpenRows(s)' = {}
      /\ \A t \in Signatures \ {s} : OpenRows(t)' = {} <=> OpenRows(t) = {}
  BY <1>1, ResolvedTable DEF IInv
<1>3. CASE OpenRows(s) = {}
  <2>1. Continue(c, rest)
    BY <1>3 DEF ResolveRow
  <2>2. CallersInv' /\ UNCHANGED owes
    BY <1>1, <2>1, ContinueCallers DEF IInv
  <2>3. \A t \in Signatures : OpenRows(t)' = {} <=> OpenRows(t) = {}
    BY <1>2, <1>3
  <2>. QED BY <1>1, <1>2, <2>2, <2>3, QuietStep DEF IInv
<1>4. CASE OpenRows(s) # {} /\ Announce(c, s, "resolved", rest)
  <2>1. /\ CallersInv' /\ owes[c] = NoNotice
        /\ owes' = [owes EXCEPT ![c] = [sig |-> s, news |-> "resolved"]]
    BY <1>1, <1>4, AnnounceCallers DEF IInv, News
  <2>2. Episode
    BY <1>1, <1>2, <1>4, <2>1, ClosingEnds
  <2>. QED BY <1>2, <2>1, <2>2 DEF IInv
<1>5. CASE AckLost /\ Continue(c, rest)
  BY <1>1, <1>2, <1>5, ContinueCallers DEF IInv
<1>6. CASE AckLost /\ Goto(c, "idle", {})
  <2>1. CallersInv'
    BY <1>1, <1>6, GotoCallers DEF IInv, CallersInv, Steps, RaiseSteps
  <2>. QED BY <1>2, <1>6, <2>1 DEF IInv
<1>. QED BY <1>3, <1>4, <1>5, <1>6 DEF ResolveRow

LEMMA SelectStep ==
  ASSUME IInv, NEW c \in Callers, NEW sigs \in SUBSET Signatures,
         NEW who \in {"timer", "other"}, Select(c, sigs, who)
  PROVE  IInv' /\ Episode
<1>1. /\ pc[c] = "idle" /\ Goto(c, "sweep", sigs)
      /\ by' = [by EXCEPT ![c] = who] /\ UNCHANGED <<events, nextId, now, sent>>
  BY DEF Select
<1>2. CallersInv' /\ UNCHANGED owes
  <2>1. by' \in [Callers -> {"timer", "other"}]
    BY <1>1 DEF IInv, CallersInv
  <2>. QED BY <1>1, <2>1, GotoCallers DEF IInv, Steps, RaiseSteps
<1>3. TableInv' /\ \A t \in Signatures : OpenRows(t)' = {} <=> OpenRows(t) = {}
  BY <1>1 DEF IInv, TableInv, LatestForIsAuthoritative, OpenRows
<1>. QED BY <1>1, <1>2, <1>3, QuietStep DEF IInv

LEMMA CallStep ==
  ASSUME IInv, NEW c \in Callers, Call(c)
  PROVE  IInv' /\ (AckLost \/ Episode)
<1>1. ASSUME NEW s \in Signatures, RaiseEvent(c, s) PROVE IInv' /\ (AckLost \/ Episode)
  BY <1>1, RaiseEventStep
<1>2. ASSUME NEW s \in Signatures, Resolve(c, s) PROVE IInv' /\ (AckLost \/ Episode)
  BY <1>2, ResolveRowStep DEF Resolve
<1>3. CASE Expire(c)
  BY <1>3, SelectStep DEF Expire
<1>4. CASE ResolveOpen(c)
  <2>1. PICK sigs \in SUBSET {s \in Signatures : OpenRows(s) # {}} : Select(c, sigs, "other")
    BY <1>4 DEF ResolveOpen
  <2>. QED BY <2>1, SelectStep
<1>5. CASE ResolveId(c)
  <2>1. PICK r \in events : Select(c, {r.sig}, "other")
    BY <1>5 DEF ResolveId
  <2>2. {r.sig} \in SUBSET Signatures
    BY DEF IInv, TableInv, Row
  <2>. QED BY <2>1, <2>2, SelectStep
<1>. QED BY <1>1, <1>2, <1>3, <1>4, <1>5 DEF Call

LEMMA HookStep ==
  ASSUME IInv, NEW c \in Callers, Hook(c)
  PROVE  IInv' /\ Episode
<1>1. owes[c] \in Notices /\ owes[c] # NoNotice
  BY DEF Hook, IInv, CallersInv
<1>2. owes[c].sig \in Signatures /\ owes[c].news \in News
  BY <1>1 DEF Notices
<1>3. UNCHANGED <<events, nextId, now, work, by>>
  BY DEF Hook
<1>4. TableInv' /\ \A t \in Signatures : OpenRows(t)' = OpenRows(t)
  BY <1>3 DEF IInv, TableInv, LatestForIsAuthoritative, OpenRows
<1>5. sent' \in [Signatures -> [News -> Nat]]
  BY <1>2 DEF Hook, IInv, CallersInv
<1>6. CallersInv'
  BY <1>3, <1>5 DEF Hook, IInv, CallersInv, Steps, RaiseSteps
<1>7. Episodes!Tell(c)
  BY <1>1, <1>4 DEF Hook, Episodes!Tell
<1>. QED BY <1>4, <1>6, <1>7 DEF IInv, Episode, Episodes!Next

LEMMA StepStep ==
  ASSUME IInv, NEW c \in Callers, Step(c)
  PROVE  IInv' /\ (AckLost \/ Episode)
<1>1. ASSUME NEW s \in Signatures, Reopen(c, s) \/ Insert(c, s) \/ Rebump(c, s)
      PROVE  IInv' /\ (AckLost \/ Episode)
  BY <1>1, ReopenStep, InsertStep, RebumpStep
<1>2. CASE ResolveNext(c)
  <2>1. PICK s \in work[c] : ResolveRow(c, s, work[c] \ {s})
    BY <1>2 DEF ResolveNext
  <2>2. s \in Signatures /\ work[c] \ {s} \in SUBSET Signatures /\ pc[c] # "hook"
    BY <1>2 DEF ResolveNext, IInv, CallersInv
  <2>. QED BY <2>1, <2>2, ResolveRowStep
<1>3. CASE Hook(c)
  BY <1>3, HookStep
<1>. QED BY <1>1, <1>2, <1>3 DEF Step

LEMMA DbErrorStep ==
  ASSUME IInv, NEW c \in Callers, DbError(c)
  PROVE  IInv' /\ Episode
<1>1. /\ UNCHANGED <<events, nextId, now, by, sent>> /\ pc[c] # "hook"
      /\ \/ Goto(c, "insert", work[c])
         \/ Goto(c, "idle", {})
  BY DEF DbError
<1>2. CallersInv' /\ UNCHANGED owes
  <2>1. work[c] \in SUBSET Signatures
    BY DEF IInv, CallersInv
  <2>2. by' \in [Callers -> {"timer", "other"}]
    BY <1>1 DEF IInv, CallersInv
  <2>. QED BY <1>1, <2>1, <2>2, GotoCallers DEF IInv, Steps, RaiseSteps
<1>3. TableInv' /\ \A t \in Signatures : OpenRows(t)' = {} <=> OpenRows(t) = {}
  BY <1>1 DEF IInv, TableInv, LatestForIsAuthoritative, OpenRows
<1>. QED BY <1>1, <1>2, <1>3, QuietStep DEF IInv

LEMMA CrashStep ==
  ASSUME IInv, Crash
  PROVE  IInv'
<1>1. TableInv'
  BY DEF Crash, IInv, TableInv, LatestForIsAuthoritative
<1>2. CallersInv'
  BY DEF Crash, IInv, CallersInv, Steps, RaiseSteps
<1>. QED BY <1>1, <1>2 DEF IInv

LEMMA PruneAndTickStep ==
  ASSUME IInv, Prune \/ Tick
  PROVE  IInv' /\ Episode
<1>1. UNCHANGED <<pc, work, by, owes, sent>>
  BY DEF Prune, Tick
<1>2. TableInv' /\ \A t \in Signatures : OpenRows(t)' = OpenRows(t)
  BY PrunedTable, TickedTable DEF IInv
<1>3. CallersInv'
  BY <1>1 DEF IInv, CallersInv
<1>. QED BY <1>1, <1>2, <1>3, QuietStep DEF IInv

-----------------------------------------------------------------------------
(* The theorems.                                                           *)

LEMMA InitInv == Init => IInv
BY StoreAssumption
   DEF Init, IInv, TableInv, CallersInv, LatestForIsAuthoritative, News, Steps

LEMMA NextStep ==
  ASSUME IInv, [Next]_vars
  PROVE  IInv' /\ (AckLost \/ "crash" \in Faults \/ Episode)
<1>1. ASSUME NEW c \in Callers, Call(c) \/ Step(c) \/ DbError(c)
      PROVE  IInv' /\ (AckLost \/ Episode)
  BY <1>1, CallStep, StepStep, DbErrorStep
<1>2. CASE Prune \/ Tick
  BY <1>2, PruneAndTickStep
<1>3. CASE Crash
  BY <1>3, CrashStep DEF Crash
<1>4. CASE UNCHANGED vars
  <2>1. IInv'
    BY <1>4 DEF vars, IInv, TableInv, CallersInv, LatestForIsAuthoritative
  <2>2. \A t \in Signatures : OpenRows(t)' = OpenRows(t)
    BY <1>4 DEF vars, OpenRows
  <2>. QED BY <1>4, <2>1, <2>2, QuietStep DEF vars
<1>. QED BY <1>1, <1>2, <1>3, <1>4 DEF Next

LEMMA Invariance == Spec => []IInv
<1>1. IInv /\ [Next]_vars => IInv'
  BY NextStep
<1>. QED BY InitInv, <1>1, PTL DEF Spec

\* Every variable keeps its type, whatever fails: in particular a caller that
\* calls a hook has one to call, and every row a timestamp it can be compared by.
THEOREM TypeCorrect == Spec => []TypeOK
<1>1. IInv => TypeOK
  BY DEF IInv, TableInv, CallersInv, TypeOK
<1>. QED BY Invariance, <1>1, PTL

\* However the statements of raise_event, resolve, expire and the retention
\* interleave, and whatever fails between them, a signature has one open row.
THEOREM OneOpen == Spec => []OneOpenPerSignature
<1>1. IInv => OneOpenPerSignature
  BY DEF IInv, TableInv, LatestForIsAuthoritative, OneOpenPerSignature, Row
<1>. QED BY Invariance, <1>1, PTL

\* latest_for always answers with the open row, or the one resolved last.
THEOREM LatestIsAuthoritative == Spec => []LatestForIsAuthoritative
<1>1. IInv => LatestForIsAuthoritative
  BY DEF IInv, TableInv
<1>. QED BY Invariance, <1>1, PTL

\* As long as no acknowledgement of a COMMIT is lost and the process does not
\* die, the store keeps its promise: statements that fail do not break it.
THEOREM StoreKeepsItsPromise ==
  ASSUME Faults \subseteq {"dbError"}
  PROVE  Spec => RefinesEpisodes
<1>1. Init => Episodes!Init
  BY DEF Init, Episodes!Init, OpenRows, News, Episodes!News
<1>2. IInv /\ [Next]_vars => [Episodes!Next]_(Episodes!vars)
  BY NextStep DEF AckLost, Episode
<1>. QED BY Invariance, <1>1, <1>2, PTL DEF Spec, RefinesEpisodes, Episodes!Spec

\* What a step may do to the rows that exist.
Kept ==
  \A r \in events :
    \/ \E q \in events' : q.id = r.id /\ (q.resolved = r.resolved \/ r.resolved = Null)
    \/ r.resolved # Null /\ r.resolved < now - Keep
    \/ r.resolved # Null /\ r.resolved > now - Window
         /\ \E q \in events' : q.id = r.id /\ q.resolved = Null

\* Every statement keeps the rows, in one of the three ways.
LEMMA StatementsKeep ==
  ASSUME IInv, NEW s \in Signatures,
         \/ events' \in {events, Bumped(s), Resolved(s), Inserted(s)}
         \/ Returning(s) # {} /\ events' = Reopened(s)
  PROVE  Kept
<1>1. CASE events' = events \/ events' = Inserted(s)
  BY <1>1 DEF Kept, Inserted
<1>2. CASE events' = Bumped(s)
  <2>1. SUFFICES ASSUME NEW r \in events
                 PROVE  \E q \in events' : q.id = r.id /\ q.resolved = r.resolved
    BY DEF Kept
  <2>2. DEFINE q == IF r \in OpenRows(s) THEN [r EXCEPT !.seen = now] ELSE r
  <2>3. q \in events' /\ q.id = r.id /\ q.resolved = r.resolved
    BY <1>2 DEF Bumped, IInv, TableInv, Row
  <2>. QED BY <2>3
<1>3. CASE events' = Resolved(s)
  <2>1. SUFFICES ASSUME NEW r \in events
                 PROVE  \E q \in events' : q.id = r.id
                                          /\ (q.resolved = r.resolved \/ r.resolved = Null)
    BY DEF Kept
  <2>2. DEFINE q == IF r \in OpenRows(s) THEN [r EXCEPT !.resolved = now] ELSE r
  <2>3. q \in events' /\ q.id = r.id /\ (q.resolved = r.resolved \/ r.resolved = Null)
    BY <1>3 DEF Resolved, OpenRows, IInv, TableInv, Row
  <2>. QED BY <2>3
<1>4. CASE Returning(s) # {} /\ events' = Reopened(s)
  <2>. DEFINE row == Newest(Returning(s))
              back == [row EXCEPT !.resolved = Null, !.seen = now]
  <2>1. events' = (events \ {row}) \cup {back}
    BY <1>4 DEF Reopened
  <2>2. row \in events /\ row.resolved # Null /\ row.resolved > now - Window
    BY <1>4, NewestIsNewest DEF IInv, Returning
  <2>. HIDE DEF row
  <2>3. back \in events' /\ back.id = row.id /\ back.resolved = Null
    BY <2>1, <2>2 DEF IInv, TableInv, Row
  <2>. QED BY <2>1, <2>2, <2>3 DEF Kept
<1>. QED BY <1>1, <1>2, <1>3, <1>4

\* An open event is never deleted, a resolved one only after its retention, and
\* an episode comes back only within the re-open window, whoever interleaves.
THEOREM RecordsAreKept == Spec => HistoryIsKept
<1>1. ASSUME IInv, Next PROVE Kept
  <2>1. ASSUME NEW c \in Callers, Call(c) \/ Step(c) \/ DbError(c) PROVE Kept
    <3>1. CASE events' = events
      BY <3>1 DEF Kept
    <3>2. CASE \E s \in Signatures :
                 \/ events' \in {Bumped(s), Resolved(s), Inserted(s)}
                 \/ Returning(s) # {} /\ events' = Reopened(s)
      BY <1>1, <3>2, StatementsKeep
    <3>3. \A rest, s : ResolveRow(c, s, rest) => events' = Resolved(s)
      BY DEF ResolveRow
    <3>4. work[c] \in SUBSET Signatures
      BY <1>1 DEF IInv, CallersInv
    <3>. QED
      BY <2>1, <3>1, <3>2, <3>3, <3>4
         DEF Call, Step, DbError, RaiseEvent, Resolve, Expire, ResolveOpen, ResolveId, Select,
             Reopen, Insert, Rebump, ResolveNext, Hook
  <2>2. CASE Prune
    <3>1. ASSUME NEW r \in events, r \notin events'
          PROVE  r.resolved # Null /\ r.resolved < now - Keep
      BY <1>1, <2>2, <3>1, StoreAssumption DEF Prune, IInv, TableInv, Row, Null
    <3>. QED BY <3>1 DEF Kept
  <2>3. CASE Tick \/ Crash
    BY <2>3 DEF Tick, Crash, Kept
  <2>. QED BY <1>1, <2>1, <2>2, <2>3 DEF Next
<1>2. IInv /\ [Next]_vars => [Kept]_vars
  BY <1>1
<1>3. HistoryIsKept <=> [][Kept]_vars
  BY DEF HistoryIsKept, Kept
<1>. QED BY Invariance, <1>2, <1>3, PTL DEF Spec

\* What is proved about the promise alone, for the store's open rows and callers.
Promise == INSTANCE EventEpisodesProofs WITH
  open <- {s \in Signatures : OpenRows(s) # {}},
  owed <- owes

\* "Hooks fire exactly once per transition": under the same conditions, and for
\* any finite number of threads, starts and ends of episodes are announced in
\* equal numbers, but for the open episode and the hooks still to be called.
THEOREM HooksFireOnce ==
  ASSUME Faults \subseteq {"dbError"}, IsFiniteSet(Callers)
  PROVE  Spec => []HooksBalance
<1>1. NoNotice \notin Promise!Notices
  BY StoreAssumption DEF Promise!Notices, Promise!News
<1>2. Promise!Spec => []Promise!NoticesBalance
  <2>1. Promise!IsFiniteSet(Callers)
    BY DEF IsFiniteSet, Promise!IsFiniteSet
  <2>. QED BY <1>1, <2>1, Promise!PromiseBalances
<1>3. Init => Promise!Init
  BY DEF Init, Promise!Init, OpenRows, News, Promise!News
<1>4. IInv /\ [Next]_vars => [Promise!Next]_(Promise!vars)
  <2>1. IInv /\ [Next]_vars => [Episodes!Next]_(Episodes!vars)
    BY NextStep DEF AckLost, Episode
  <2>. QED
    BY <2>1 DEF Promise!Next, Promise!vars, Promise!Begin, Promise!End, Promise!Tell,
                Promise!Owe, Episodes!Next, Episodes!vars, Episodes!Begin, Episodes!End,
                Episodes!Tell, Episodes!Owe
<1>5. Promise!NoticesBalance => HooksBalance
  BY DEF HooksBalance, Episodes!NoticesBalance, Promise!NoticesBalance, Episodes!Owing,
         Promise!Owing, Episodes!Cardinality, Promise!Cardinality
<1>. QED BY Invariance, <1>2, <1>3, <1>4, <1>5, PTL DEF Spec, Promise!Spec
=============================================================================
