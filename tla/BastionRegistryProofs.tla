------------------------- MODULE BastionRegistryProofs -------------------------
(***************************************************************************)
(* The caps and the rows of BastionRegistry, for any number of sessions,   *)
(* devices and mishaps.                                                    *)
(***************************************************************************)
EXTENDS BastionRegistry, FiniteSetTheorems, TLAPS

-----------------------------------------------------------------------------
(* The inductive invariant.                                                *)

\* A session nobody has opened has left no trace.
Untouched(s) ==
  ws[s] = "absent" =>
    /\ row[s] = "none"
    /\ s \notin registry \cup up \cup closed \cup reading
    /\ \A t \in Threads : fin[s][t] = "no"

\* A connection belongs to a handler, unless the session was ended or a write failed.
Held(s) ==
  s \in up => \/ ws[s] \in {"login", "serve"}
              \/ ws[s] = "gone" /\ s \in closed \cup spoilt

\* A session with a handler is in the registry until it has ended.
Listed(s) ==
  ws[s] \notin {"absent", "gone"} => s \in registry \cup closed \cup old \cup spoilt

\* A thread closes what is marked.
Closing(s) == (\E t \in Threads : fin[s][t] = "close") => s \in closed

\* The row follows the session.
Told(s) ==
  s \notin old \cup spoilt =>
    /\ ws[s] = "insert" => row[s] = "none" /\ s \notin closed
    /\ ws[s] = "dial" => row[s] = "open" /\ s \notin closed
    /\ row[s] = "ended" => s \in closed \/ s \notin up
    /\ s \in closed \/ ws[s] = "gone" =>
         row[s] # "open" \/ \E t \in Threads : fin[s][t] = "close"

SessionInv(s) == Untouched(s) /\ Held(s) /\ Listed(s) /\ Closing(s) /\ Told(s)

SessionsInv == \A s \in Sessions : SessionInv(s)

LiveOn(d) == {s \in Live : dev[s] = d}

CapsInv ==
  /\ Cardinality(Live) <= Total
  /\ \A d \in Devices : Cardinality(LiveOn(d)) <= PerDevice

IInv == TypeOK /\ SessionsInv /\ CapsInv

-----------------------------------------------------------------------------
(* Types.                                                                  *)

\* Every step keeps the types.
LEMMA TypeStep ==
  ASSUME TypeOK, [Next]_vars
  PROVE  TypeOK'
<1>. USE RegistryAssumption DEF TypeOK, Mishap, Live, Threads
<1>1. ASSUME NEW s \in Sessions, Open(s) PROVE TypeOK'
  BY <1>1 DEF Open
<1>2. ASSUME NEW s \in Sessions, Insert(s) PROVE TypeOK'
  <2>1. row' \in [Sessions -> {"none", "open", "ended"}]
    BY <1>2 DEF Insert
  <2>. QED BY <1>2, <2>1 DEF Insert, Unlist
<1>3. ASSUME NEW s \in Sessions, Dial(s) PROVE TypeOK'
  BY <1>3 DEF Dial
<1>4. ASSUME NEW s \in Sessions, OpenFails(s) PROVE TypeOK'
  BY <1>4 DEF OpenFails, Unlist, RowEnds
<1>5. ASSUME NEW s \in Sessions, Attach(s) PROVE TypeOK'
  BY <1>5 DEF Attach, Unlist
<1>6. ASSUME NEW s \in Sessions, NEW t \in Threads, Enter(s, t) PROVE TypeOK'
  <2>1. CASE s \in closed
    <3>1. Leave(s, t) /\ UNCHANGED <<up, row, spoilt, mishaps>>
      BY <1>6, <2>1 DEF Enter
    <3>2. /\ fin' \in [Sessions -> [Threads -> {"no", "mark", "close"}]]
          /\ registry' \subseteq Sessions
      BY <3>1 DEF Leave
    <3>3. ws' \in [Sessions -> {"absent", "insert", "dial", "login", "serve", "gone"}]
      BY <3>1 DEF Leave
    <3>4. reading' \subseteq Sessions
      BY <3>1 DEF Leave
    <3>5. UNCHANGED <<dev, closed, old, up, row, spoilt, mishaps>>
      BY <3>1 DEF Leave
    <3>. QED BY <3>2, <3>3, <3>4, <3>5
  <2>2. CASE s \notin closed
    <3>1. /\ fin' = [fin EXCEPT ![s][t] = "mark"]
          /\ UNCHANGED <<up, registry, dev, ws, reading, closed, row, old, spoilt, mishaps>>
      BY <1>6, <2>2 DEF Enter
    <3>2. fin' \in [Sessions -> [Threads -> {"no", "mark", "close"}]]
      BY <3>1
    <3>. QED BY <3>1, <3>2
  <2>. QED BY <2>1, <2>2
<1>7. ASSUME NEW s \in Sessions, ReaderReturns(s) \/ ReaderDies(s) \/ DeviceDrops(s) PROVE TypeOK'
  BY <1>7 DEF ReaderReturns, ReaderDies, DeviceDrops
<1>8. ASSUME NEW s \in Sessions, NEW t \in Threads, FinishMark(s, t) PROVE TypeOK'
  BY <1>8 DEF FinishMark
<1>9. ASSUME NEW s \in Sessions, NEW t \in Threads, FinishClose(s, t) PROVE TypeOK'
  BY <1>9 DEF FinishClose, RowEnds, Leave
<1>10. CASE Reap
  BY <1>10 DEF Reap
<1>11. CASE Reload
  BY <1>11 DEF Reload, OrphansEnd, OpenRows
<1>12. CASE Restart
  BY <1>12 DEF Restart, OrphansEnd, OpenRows
<1>13. CASE UNCHANGED vars
  BY <1>13 DEF vars
<1>. QED
  BY <1>1, <1>2, <1>3, <1>4, <1>5, <1>6, <1>7, <1>8, <1>9, <1>10, <1>11, <1>12, <1>13
  DEF Next, Handler, Reader, Finish, HandlerLeaves, ReaderHears, Expires, Kill

-----------------------------------------------------------------------------
(* Sessions.                                                               *)

\* A session a step leaves alone keeps its invariant, if the registry only
\* loses it once it has ended.
LEMMA LeftAlone ==
  ASSUME NEW r \in Sessions, SessionInv(r),
         ws'[r] = ws[r], row'[r] = row[r], fin'[r] = fin[r],
         r \in up' <=> r \in up, r \in closed' <=> r \in closed,
         r \in reading' <=> r \in reading, r \in old' <=> r \in old,
         r \in spoilt' <=> r \in spoilt,
         r \in registry' => r \in registry,
         r \in registry \ closed => r \in registry'
  PROVE  SessionInv(r)'
BY DEF SessionInv, Untouched, Held, Listed, Closing, Told

\* What the steps of session s do to the others.
LEMMA OthersKeep ==
  ASSUME TypeOK, SessionsInv, NEW s \in Sessions, NEW r \in Sessions \ {s},
         \/ Open(s) \/ Insert(s) \/ Dial(s) \/ OpenFails(s) \/ Attach(s)
         \/ ReaderReturns(s) \/ ReaderDies(s) \/ DeviceDrops(s)
         \/ \E t \in Threads : Enter(s, t) \/ Finish(s, t)
  PROVE  SessionInv(r)'
<1>. SessionInv(r)
  BY DEF SessionsInv
<1>1. CASE Open(s) \/ Insert(s) \/ Dial(s)
  BY <1>1, LeftAlone DEF TypeOK, Open, Live, Insert, Unlist, Dial
<1>2. CASE OpenFails(s) \/ Attach(s)
  BY <1>2, LeftAlone DEF TypeOK, OpenFails, RowEnds, Attach, Unlist
<1>3. CASE ReaderReturns(s) \/ ReaderDies(s) \/ DeviceDrops(s)
  BY <1>3, LeftAlone DEF TypeOK, ReaderReturns, ReaderDies, DeviceDrops
<1>4. ASSUME NEW t \in Threads, Enter(s, t) PROVE SessionInv(r)'
  BY <1>4, LeftAlone DEF TypeOK, Enter, Leave
<1>5. ASSUME NEW t \in Threads, FinishMark(s, t) PROVE SessionInv(r)'
  BY <1>5, LeftAlone DEF TypeOK, FinishMark
<1>6. ASSUME NEW t \in Threads, FinishClose(s, t) PROVE SessionInv(r)'
  BY <1>6, LeftAlone DEF TypeOK, FinishClose, RowEnds, Leave
<1>. QED BY <1>1, <1>2, <1>3, <1>4, <1>5, <1>6 DEF Finish

\* Opening a session, up to its reader.
LEMMA OpeningKeeps ==
  ASSUME TypeOK, NEW s \in Sessions, SessionInv(s),
         Open(s) \/ Insert(s) \/ Dial(s) \/ OpenFails(s) \/ Attach(s)
  PROVE  SessionInv(s)'
<1>. USE DEF TypeOK, SessionInv, Untouched, Held, Listed, Closing, Told
<1>1. CASE Open(s)
  BY <1>1 DEF Open
<1>2. CASE Insert(s)
  BY <1>2 DEF Insert, Unlist
<1>3. CASE Dial(s)
  BY <1>3 DEF Dial
<1>4. CASE OpenFails(s)
  BY <1>4 DEF OpenFails, Unlist, RowEnds
<1>5. CASE Attach(s)
  BY <1>5 DEF Attach, Unlist
<1>. QED BY <1>1, <1>2, <1>3, <1>4, <1>5

\* What happens to a session that is served, and how it is ended.
LEMMA EndingKeeps ==
  ASSUME TypeOK, NEW s \in Sessions, SessionInv(s), ws[s] # "absent",
         \/ ReaderReturns(s) \/ ReaderDies(s) \/ DeviceDrops(s)
         \/ \E t \in Threads : Enter(s, t) \/ Finish(s, t)
  PROVE  SessionInv(s)'
<1>. USE DEF TypeOK, SessionInv, Untouched, Held, Listed, Closing, Told
<1>1. CASE ReaderReturns(s) \/ ReaderDies(s) \/ DeviceDrops(s)
  BY <1>1 DEF ReaderReturns, ReaderDies, DeviceDrops
<1>2. ASSUME NEW t \in Threads, Enter(s, t) PROVE SessionInv(s)'
  BY <1>2 DEF Enter, Leave
<1>3. ASSUME NEW t \in Threads, FinishMark(s, t) PROVE SessionInv(s)'
  BY <1>3 DEF FinishMark, Early
<1>4. ASSUME NEW t \in Threads, FinishClose(s, t) PROVE SessionInv(s)'
  BY <1>4 DEF FinishClose, RowEnds, Leave, Early
<1>. QED BY <1>1, <1>2, <1>3, <1>4 DEF Finish

\* Only sessions that were opened have threads that take these steps.
LEMMA Present ==
  ASSUME NEW s \in Sessions, SessionInv(s),
         \/ ReaderReturns(s) \/ ReaderDies(s) \/ DeviceDrops(s) \/ HandlerLeaves(s)
         \/ ReaderHears(s) \/ Expires(s) \/ Kill(s)
         \/ \E t \in Threads : Finish(s, t)
  PROVE  ws[s] # "absent"
BY DEF SessionInv, Untouched, ReaderReturns, ReaderDies, DeviceDrops, HandlerLeaves, ReaderHears,
       Expires, Kill, Finish, FinishMark, FinishClose

\* Every step keeps the invariant of every session.
LEMMA SessionsStep ==
  ASSUME TypeOK, SessionsInv, [Next]_vars
  PROVE  SessionsInv'
<1>1. SUFFICES ASSUME NEW r \in Sessions PROVE SessionInv(r)'
  BY DEF SessionsInv
<1>2. SessionInv(r)
  BY DEF SessionsInv
<1>3. ASSUME NEW s \in Sessions,
             Open(s) \/ Insert(s) \/ Dial(s) \/ OpenFails(s) \/ Attach(s)
      PROVE  SessionInv(r)'
  BY <1>2, <1>3, OpeningKeeps, OthersKeep
<1>4. ASSUME NEW s \in Sessions,
             \/ ReaderReturns(s) \/ ReaderDies(s) \/ DeviceDrops(s) \/ HandlerLeaves(s)
             \/ ReaderHears(s) \/ Expires(s) \/ Kill(s)
             \/ \E t \in Threads : Finish(s, t)
      PROVE  SessionInv(r)'
  <2>1. SessionInv(s) /\ ws[s] # "absent"
    BY <1>4, Present DEF SessionsInv
  <2>2. \/ ReaderReturns(s) \/ ReaderDies(s) \/ DeviceDrops(s)
        \/ \E t \in Threads : Enter(s, t) \/ Finish(s, t)
    BY <1>4 DEF HandlerLeaves, ReaderHears, Expires, Kill, Threads
  <2>3. CASE r = s
    BY <2>1, <2>2, <2>3, EndingKeeps
  <2>4. CASE r # s
    BY <2>2, <2>4, OthersKeep
  <2>. QED BY <2>3, <2>4
<1>5. CASE Reap
  BY <1>2, <1>5, LeftAlone DEF Reap, Live
<1>6. CASE Reload
  BY <1>2, <1>6 DEF Reload, OrphansEnd, OpenRows, TypeOK, SessionInv, Untouched, Held, Listed,
                    Closing, Told
<1>7. CASE Restart
  BY <1>2, <1>7 DEF Restart, OrphansEnd, OpenRows, TypeOK, SessionInv, Untouched, Held, Listed,
                    Closing, Told
<1>8. CASE UNCHANGED vars
  BY <1>2, <1>8, LeftAlone DEF vars
<1>. QED
  BY <1>3, <1>4, <1>5, <1>6, <1>7, <1>8 DEF Next, Handler, Reader, Threads

-----------------------------------------------------------------------------
(* The caps.                                                               *)

\* A set that takes in one element grows by at most one.
LEMMA AtMostOneMore ==
  ASSUME NEW S, IsFiniteSet(S), NEW x
  PROVE  /\ IsFiniteSet(S \cup {x}) /\ Cardinality(S \cup {x}) \in Nat
         /\ Cardinality(S \cup {x}) <= Cardinality(S) + 1
<1>1. IsFiniteSet(S \cup {x})
  BY FS_AddElement
<1>2. Cardinality(S \cup {x}) = IF x \in S THEN Cardinality(S) ELSE Cardinality(S) + 1
  BY FS_AddElement
<1>3. Cardinality(S) \in Nat
  BY FS_CardinalityType
<1>. QED BY <1>1, <1>2, <1>3

\* Live sessions are finitely many, and so can be counted.
LEMMA LiveIsFinite ==
  ASSUME TypeOK
  PROVE  /\ IsFiniteSet(Live) /\ Live \subseteq Sessions
         /\ \A d \in Devices : IsFiniteSet(LiveOn(d))
<1>1. IsFiniteSet(Sessions)
  BY FS_Interval, RegistryAssumption DEF Sessions
<1>2. Live \subseteq Sessions /\ \A d \in Devices : LiveOn(d) \subseteq Sessions
  BY DEF TypeOK, Live, LiveOn
<1>. QED BY <1>1, <1>2, FS_Subset

\* Only Open makes a session live.
LEMMA NobodyElseOpens ==
  ASSUME TypeOK, [Next]_vars, \A s \in Sessions : ~Open(s)
  PROVE  dev' = dev /\ Live' \subseteq Live
<1>. USE DEF Live
<1>1. ASSUME NEW s \in Sessions, Handler(s) \/ Reader(s) PROVE dev' = dev /\ Live' \subseteq Live
  BY <1>1 DEF Handler, Reader, Insert, Dial, OpenFails, Attach, Unlist, Expires, ReaderReturns,
              Enter, Leave, Finish, FinishMark, FinishClose
<1>2. ASSUME NEW s \in Sessions,
             \/ HandlerLeaves(s) \/ ReaderHears(s) \/ ReaderDies(s) \/ DeviceDrops(s)
             \/ Kill(s) \/ Finish(s, "admin")
      PROVE  dev' = dev /\ Live' \subseteq Live
  BY <1>2 DEF HandlerLeaves, ReaderHears, ReaderDies, DeviceDrops, Kill, Enter, Leave, Finish,
              FinishMark, FinishClose
<1>3. CASE Reap \/ Reload \/ Restart \/ UNCHANGED vars
  BY <1>3 DEF Reap, Reload, Restart, vars
<1>. QED BY <1>1, <1>2, <1>3 DEF Next

\* Every step keeps the caps: Open tests them before it adds, nobody else adds.
LEMMA CapsStep ==
  ASSUME TypeOK, CapsInv, [Next]_vars
  PROVE  CapsInv'
<1>. USE RegistryAssumption
<1>1. /\ IsFiniteSet(Live) /\ Cardinality(Live) \in Nat
      /\ \A d \in Devices : IsFiniteSet(LiveOn(d)) /\ Cardinality(LiveOn(d)) \in Nat
  BY LiveIsFinite, FS_CardinalityType
<1>2. ASSUME NEW s \in Sessions, Open(s) PROVE CapsInv'
  <2>1. Live' \subseteq Live \cup {s} /\ dev' = dev
    BY <1>2 DEF Open, Live
  <2>2. /\ IsFiniteSet(Live \cup {s})
        /\ Cardinality(Live \cup {s}) \in Nat /\ Cardinality(Live \cup {s}) <= Cardinality(Live) + 1
    BY <1>1, AtMostOneMore
  <2>3. Cardinality(Live') <= Cardinality(Live \cup {s}) /\ Cardinality(Live') \in Nat
    BY <2>1, <2>2, FS_Subset, FS_CardinalityType
  <2>4. Cardinality(Live) < Total
    BY <1>2 DEF Open
  <2>5. ASSUME NEW d \in Devices PROVE Cardinality(LiveOn(d)') <= PerDevice
    <3>1. CASE d = dev[s]
      <4>1. LiveOn(d)' \subseteq LiveOn(d) \cup {s}
        BY <2>1 DEF LiveOn
      <4>2. /\ IsFiniteSet(LiveOn(d) \cup {s}) /\ Cardinality(LiveOn(d) \cup {s}) \in Nat
            /\ Cardinality(LiveOn(d) \cup {s}) <= Cardinality(LiveOn(d)) + 1
        BY <1>1, AtMostOneMore
      <4>3. /\ Cardinality(LiveOn(d)') <= Cardinality(LiveOn(d) \cup {s})
            /\ Cardinality(LiveOn(d)') \in Nat
        BY <4>1, <4>2, FS_Subset, FS_CardinalityType
      <4>4. Cardinality(LiveOn(d)) < PerDevice
        BY <1>2, <3>1 DEF Open, LiveOn
      <4>. QED BY <1>1, <4>2, <4>3, <4>4
    <3>2. CASE d # dev[s]
      <4>1. LiveOn(d)' \subseteq LiveOn(d)
        BY <2>1, <3>2 DEF LiveOn
      <4>2. Cardinality(LiveOn(d)') <= Cardinality(LiveOn(d)) /\ Cardinality(LiveOn(d)') \in Nat
        BY <1>1, <4>1, FS_Subset, FS_CardinalityType
      <4>. QED BY <1>1, <4>2 DEF CapsInv
    <3>. QED BY <3>1, <3>2
  <2>. QED BY <1>1, <2>2, <2>3, <2>4, <2>5 DEF CapsInv
<1>3. CASE \A s \in Sessions : ~Open(s)
  <2>1. dev' = dev /\ Live' \subseteq Live
    BY <1>3, NobodyElseOpens
  <2>2. Cardinality(Live') <= Cardinality(Live) /\ Cardinality(Live') \in Nat
    BY <1>1, <2>1, FS_Subset, FS_CardinalityType
  <2>3. ASSUME NEW d \in Devices PROVE Cardinality(LiveOn(d)') <= PerDevice
    <3>1. LiveOn(d)' \subseteq LiveOn(d)
      BY <2>1 DEF LiveOn
    <3>2. Cardinality(LiveOn(d)') <= Cardinality(LiveOn(d)) /\ Cardinality(LiveOn(d)') \in Nat
      BY <1>1, <3>1, FS_Subset, FS_CardinalityType
    <3>. QED BY <1>1, <3>2 DEF CapsInv
  <2>. QED BY <1>1, <2>2, <2>3 DEF CapsInv
<1>. QED BY <1>2, <1>3

-----------------------------------------------------------------------------
(* The theorems.                                                           *)

\* The invariant holds from the start and is never left.
LEMMA Inductive == Spec => []IInv
<1>1. Init => IInv
  <2>1. SUFFICES ASSUME Init PROVE IInv
    OBVIOUS
  <2>2. TypeOK
    BY <2>1, RegistryAssumption DEF Init, TypeOK
  <2>3. SessionsInv
    BY <2>1 DEF Init, SessionsInv, SessionInv, Untouched, Held, Listed, Closing, Told, Threads
  <2>4. CapsInv
    <3>1. Live = {} /\ \A d \in Devices : LiveOn(d) = {}
      BY <2>1 DEF Init, Live, LiveOn
    <3>. QED BY <3>1, FS_EmptySet, RegistryAssumption DEF CapsInv
  <2>. QED BY <2>2, <2>3, <2>4 DEF IInv
<1>2. IInv /\ [Next]_vars => IInv'
  BY TypeStep, SessionsStep, CapsStep DEF IInv
<1>. QED BY <1>1, <1>2, PTL DEF Spec

\* Registry, handlers, readers, rows and connections keep their types, for any
\* number of sessions, devices and mishaps.
THEOREM RegistryTypes == Spec => []TypeOK
<1>1. IInv => TypeOK
  BY DEF IInv
<1>. QED BY <1>1, Inductive, PTL

\* However handlers, readers, admins, failing writes, reloads and restarts
\* interleave, the sessions of one manager that nobody has ended hold no more
\* connections than BASTION_MAX_SESSIONS and BASTION_MAX_SESSIONS_PER_DEVICE.
THEOREM CapsAlwaysHold == Spec => []CapsHold
<1>1. IInv => CapsHold
  <2>1. SUFFICES ASSUME IInv PROVE CapsHold
    OBVIOUS
  <2>. USE RegistryAssumption DEF IInv
  <2>2. Connected \subseteq registry
    BY <2>1 DEF Connected, SessionsInv, SessionInv, Held, Listed, TypeOK
  <2>3. Connected \subseteq Live
    BY <2>2 DEF Connected, Live
  <2>4. /\ IsFiniteSet(Live) /\ Cardinality(Live) \in Nat
        /\ \A d \in Devices : IsFiniteSet(LiveOn(d)) /\ Cardinality(LiveOn(d)) \in Nat
    BY <2>1, LiveIsFinite, FS_CardinalityType
  <2>5. Cardinality(Connected) <= Cardinality(Live) /\ Cardinality(Connected) \in Nat
    BY <2>3, <2>4, FS_Subset, FS_CardinalityType
  <2>6. ASSUME NEW d \in Devices
        PROVE  Cardinality({s \in Connected : dev[s] = d}) <= PerDevice
    <3>1. {s \in Connected : dev[s] = d} \subseteq LiveOn(d)
      BY <2>3 DEF LiveOn
    <3>. DEFINE on == {s \in Connected : dev[s] = d}
    <3>2. Cardinality(on) <= Cardinality(LiveOn(d)) /\ Cardinality(on) \in Nat
      BY <2>4, <3>1, FS_Subset, FS_CardinalityType
    <3>. QED BY <2>1, <2>4, <3>2 DEF CapsInv
  <2>. QED BY <2>1, <2>2, <2>4, <2>5, <2>6 DEF CapsHold, CapsInv
<1>. QED BY <1>1, Inductive, PTL

\* The list of recordings shows no live session as ended and no session whose
\* handler has gone as live, apart from those a failed write or a swap of
\* managers has touched.
THEOREM RowsTellTheTruth == Spec => []RowTellsTheTruth
<1>1. IInv => RowTellsTheTruth
  BY DEF IInv, SessionsInv, SessionInv, Told, RowTellsTheTruth
<1>. QED BY <1>1, Inductive, PTL
=============================================================================
