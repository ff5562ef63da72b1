---------------------------- MODULE ServicesProofs ----------------------------
(***************************************************************************)
(* Proofs about the services around the poller: the exporter, who may ask  *)
(* (Access), the DNS cache, the settings (Configuration), the SSH client,  *)
(* the scheduler (Housekeeping), the event bus and the traffic page.  They *)
(* share no state; each has its own invariant and its own section, and the *)
(* last section says the same of all of them side by side (Services).      *)
(*                                                                         *)
(* Exporter, for any devices and any number of edits: every                *)
(* loop that has not been told to stop is the one main() can tell, and a   *)
(* loop is never started under the number of one that still runs, which is *)
(* what lets the model name a thread by the details it was started with.   *)
(*                                                                         *)
(* The second needs the first, and more: the number of a loop that was     *)
(* told to stop is gone from the registry for good (Spent), although       *)
(* main() works with a copy of the registry that may be old.  So the copy  *)
(* and the registry are compared (Numbered): what is in both under one     *)
(* number is one device with the same details.                             *)
(***************************************************************************)
EXTENDS Services, SequenceTheorems, FiniteSetTheorems, FunctionTheorems, WellFoundedInduction, TLAPS

Details == [no : 0..MaxDeviceEdits, platform : Exporting!Platforms \cup {"none"}]
Loop == [device : Ids, platform : Exporting!Platforms \cup {"none"}, stopped : BOOLEAN,
         at : {"check", "poll", "wait", "exited"}, todo : Seq(Exporting!Families), slow : BOOLEAN]

Types ==
  /\ deviceEdits \in 0..MaxDeviceEdits
  /\ registry \in [Ids -> Details] /\ loaded \in [Ids -> Details]
  /\ threads \in [Ids -> 0..MaxDeviceEdits] /\ pending \in [Ids -> 0..MaxDeviceEdits]
  /\ loops \in [Exporting!Versions -> Loop]
  /\ series \in [Ids -> SUBSET Exporting!Families]

\* The number l is that of device d, as registered or as loaded.
Has(d, l) == registry[d].no = l \/ loaded[d].no = l

Numbered ==
  /\ \A d \in Ids : registry[d].no <= deviceEdits /\ loaded[d].no <= deviceEdits
  /\ \A d \in Ids : /\ registry[d].no = 0 => registry[d].platform = "none"
                    /\ loaded[d].no = 0 => loaded[d].platform = "none"
  /\ \A d, e \in Ids, l \in Exporting!Versions : Has(d, l) /\ Has(e, l) => d = e
  /\ \A d \in Ids : registry[d].no = loaded[d].no => registry[d].platform = loaded[d].platform

\* What a live loop has to do with the details of its number.
Owned(l) ==
  /\ l <= deviceEdits
  /\ \A d \in Ids : Has(d, l) => loops[l].device = d
  /\ \A d \in Ids : registry[d].no = l => loaded[d].no = l
  /\ \A d \in Ids : loaded[d].no = l => loaded[d].platform \in Exporting!SUPPORTED_PLATFORMS
Spent(l) == loops[l].stopped => \A d \in Ids : ~ Has(d, l)
Known == \A l \in Exporting!Versions : Exporting!Alive(l) => Owned(l) /\ Spent(l)

\* The number of a device's thread, be it dead, was never another device's.
ThreadsOwn ==
  \A e \in Ids : threads[e] # 0 =>
    /\ threads[e] <= deviceEdits
    /\ loops[threads[e]].device = e
    /\ \A d \in Ids : Has(d, threads[e]) => d = e

EInv == Types /\ Numbered /\ Known /\ ThreadsOwn /\ Exporting!NoLoopIsLost

\* A loop is started under a number that no live loop and no other start has.
StartsAreNew ==
  \A d \in Exporting!Starting : /\ Exporting!Start(d) \in Exporting!Versions /\ ~ Exporting!Alive(Exporting!Start(d))
                      /\ \A e \in Exporting!Starting : Exporting!Start(e) = Exporting!Start(d) => e = d

-----------------------------------------------------------------------------
LEMMA TypesImplied == EInv => Exporting!TypeOK
BY DEF EInv, Types, Exporting!TypeOK, Details, Loop

LEMMA StartsImplied == ASSUME Exporting!ExporterAssumption, EInv PROVE StartsAreNew
<1> SUFFICES ASSUME NEW d \in Exporting!Starting
             PROVE  /\ Exporting!Start(d) \in Exporting!Versions /\ ~ Exporting!Alive(Exporting!Start(d))
                    /\ \A e \in Exporting!Starting : Exporting!Start(e) = Exporting!Start(d) => e = d
  BY DEF StartsAreNew
<1>1. d \in Ids /\ loaded[d].platform \in Exporting!SUPPORTED_PLATFORMS /\ loaded[d] \in Details
  BY DEF Exporting!Starting, Exporting!Seen, EInv, Types
<1>2. loaded[d].no # 0
  BY <1>1 DEF EInv, Numbered, Exporting!SUPPORTED_PLATFORMS
<1>3. Exporting!Start(d) \in Exporting!Versions
  BY <1>1, <1>2 DEF Exporting!Start, Exporting!Versions, Details, Exporting!ExporterAssumption
<1>4. ~ Exporting!Alive(Exporting!Start(d))
  <2> SUFFICES ASSUME Exporting!Alive(Exporting!Start(d)) PROVE FALSE
    OBVIOUS
  <2>1. loops[Exporting!Start(d)].device = d /\ ~ loops[Exporting!Start(d)].stopped
    BY <1>1, <1>3 DEF EInv, Known, Owned, Spent, Has, Exporting!Start
  <2>2. threads[d] = Exporting!Start(d)
    BY <1>3, <2>1 DEF EInv, Exporting!NoLoopIsLost
  <2>3. threads[d] # 0
    BY <1>2, <2>2 DEF Exporting!Start
  <2> QED BY <2>2, <2>3 DEF Exporting!Starting
<1>5. ASSUME NEW e \in Exporting!Starting, Exporting!Start(e) = Exporting!Start(d) PROVE e = d
  BY <1>1, <1>3, <1>5 DEF Exporting!Starting, Exporting!Seen, EInv, Numbered, Has, Exporting!Start
<1> QED BY <1>3, <1>4, <1>5

LEMMA InitHolds == ASSUME Exporting!ExporterAssumption, Exporting!Init PROVE EInv
<1> USE DEF Exporting!Init
<1>1. Exporting!None \in Details
  BY DEF Exporting!None, Details, Exporting!ExporterAssumption
<1>2. Exporting!Unstarted \in Loop /\ Exporting!Unstarted.at = "exited"
  BY DEF Exporting!Unstarted, Loop, Exporting!ExporterAssumption
<1>3. Types
  BY <1>1, <1>2 DEF Types, Exporting!ExporterAssumption
<1>4. Numbered
  BY DEF Numbered, Exporting!None, Has, Exporting!Versions
<1>5. Known /\ Exporting!NoLoopIsLost /\ ThreadsOwn
  BY <1>2 DEF Known, Exporting!NoLoopIsLost, Exporting!Alive, ThreadsOwn
<1> QED BY <1>3, <1>4, <1>5 DEF EInv

-----------------------------------------------------------------------------
(* The Devices page.                                                       *)

\* Details with a new number, or none, take the place of a device's details.
LEMMA EditHolds ==
  ASSUME Exporting!ExporterAssumption, EInv, NEW d \in Ids, NEW details \in Details,
         deviceEdits' = deviceEdits + 1, deviceEdits < MaxDeviceEdits,
         registry' = [registry EXCEPT ![d] = details],
         \/ details.no = deviceEdits'
         \/ details.no = 0 /\ details.platform = "none",
         UNCHANGED <<main, loaded, threads, pending, loops, series>>
  PROVE  EInv'
<1>0. deviceEdits \in Nat /\ deviceEdits' \in 1..MaxDeviceEdits /\ deviceEdits' > deviceEdits
  BY DEF EInv, Types, Exporting!ExporterAssumption
<1>1. /\ registry' \in [Ids -> Details] /\ registry'[d] = details
      /\ \A e \in Ids \ {d} : registry'[e] = registry[e]
  BY DEF EInv, Types
<1>2. Types'
  BY <1>0, <1>1 DEF EInv, Types, Exporting!ExporterAssumption
<1>3. \A e \in Ids : registry[e].no \in Nat /\ loaded[e].no \in Nat /\ registry[e].no < deviceEdits' /\ loaded[e].no < deviceEdits'
  BY <1>0 DEF EInv, Types, Numbered, Details, Exporting!ExporterAssumption
<1>4. \A e \in Ids, l \in Exporting!Versions : Has(e, l)' => Has(e, l) \/ (e = d /\ l = deviceEdits')
  BY <1>1, <1>3 DEF Has, Exporting!Versions
<1>5. \A e \in Ids : ~ Has(e, deviceEdits')
  BY <1>3 DEF Has
<1>6. Numbered'
  <2>1. \A e \in Ids : registry'[e].no <= deviceEdits' /\ loaded'[e].no <= deviceEdits'
    BY <1>0, <1>1, <1>3
  <2>2. \A e \in Ids : /\ registry'[e].no = 0 => registry'[e].platform = "none"
                       /\ loaded'[e].no = 0 => loaded'[e].platform = "none"
    BY <1>0, <1>1 DEF EInv, Numbered
  <2>3. \A e, f \in Ids, l \in Exporting!Versions : Has(e, l)' /\ Has(f, l)' => e = f
    BY <1>4, <1>5 DEF EInv, Numbered
  <2>4. ASSUME NEW e \in Ids, registry'[e].no = loaded'[e].no
        PROVE  registry'[e].platform = loaded'[e].platform
    <3>1. CASE e = d
      BY <2>4, <3>1, <1>0, <1>1, <1>3 DEF EInv, Numbered
    <3>2. CASE e # d
      BY <2>4, <3>2, <1>1 DEF EInv, Numbered
    <3> QED BY <3>1, <3>2
  <2> QED BY <2>1, <2>2, <2>3, <2>4 DEF Numbered
<1>7. ASSUME NEW l \in Exporting!Versions, Exporting!Alive(l)' PROVE Owned(l)' /\ Spent(l)'
  <2>1. Exporting!Alive(l) /\ Owned(l) /\ Spent(l) /\ l < deviceEdits' /\ l # 0
    BY <1>7, <1>0 DEF Exporting!Alive, EInv, Known, Owned, Exporting!Versions
  <2>2. \A e \in Ids : Has(e, l)' => Has(e, l)
    BY <1>4, <2>1
  <2>3. \A e \in Ids : registry'[e].no = l => registry[e].no = l
    BY <1>1, <2>1
  <2> QED BY <2>1, <2>2, <2>3, <1>0 DEF Owned, Spent, Exporting!Versions
<1>8. Exporting!NoLoopIsLost'
  BY DEF EInv, Exporting!NoLoopIsLost, Exporting!Alive
<1>9. ThreadsOwn'
  <2> SUFFICES ASSUME NEW e \in Ids, threads[e] # 0
               PROVE  /\ threads[e] <= deviceEdits' /\ loops[threads[e]].device = e
                      /\ \A f \in Ids : Has(f, threads[e])' => f = e
    BY DEF ThreadsOwn
  <2>1. threads[e] \in Exporting!Versions /\ threads[e] <= deviceEdits
    BY DEF EInv, Types, ThreadsOwn, Exporting!Versions, Exporting!ExporterAssumption
  <2>2. \A f \in Ids : Has(f, threads[e])' => Has(f, threads[e])
    BY <1>0, <1>4, <2>1 DEF Exporting!Versions
  <2> QED BY <1>0, <2>1, <2>2 DEF EInv, ThreadsOwn, Exporting!Versions
<1> QED BY <1>2, <1>6, <1>7, <1>8, <1>9 DEF EInv, Known

LEMMA SaveStep ==
  ASSUME Exporting!ExporterAssumption, EInv, NEW d \in Ids, NEW p \in Exporting!Platforms, Exporting!Save(d, p) PROVE EInv'
<1> DEFINE details == [no |-> deviceEdits', platform |-> p]
<1>1. details \in Details /\ details.no = deviceEdits'
  BY DEF Exporting!Save, Details, EInv, Types, Exporting!ExporterAssumption
<1>2. registry' = [registry EXCEPT ![d] = details]
  BY DEF Exporting!Save
<1> HIDE DEF details
<1> QED BY <1>1, <1>2, EditHolds DEF Exporting!Save

LEMMA RemoveStep == ASSUME Exporting!ExporterAssumption, EInv, NEW d \in Ids, Exporting!Remove(d) PROVE EInv'
<1>1. Exporting!None \in Details /\ Exporting!None.no = 0 /\ Exporting!None.platform = "none"
  BY DEF Exporting!None, Details, Exporting!ExporterAssumption
<1> QED BY <1>1, EditHolds DEF Exporting!Remove

-----------------------------------------------------------------------------
(* main()                                                                  *)

LEMMA LoadStep == ASSUME Exporting!ExporterAssumption, EInv, Exporting!Load PROVE EInv'
<1>1. /\ loaded' = registry
      /\ UNCHANGED <<deviceEdits, registry, threads, pending, loops, series>>
  BY DEF Exporting!Load
<1>2. Types'
  BY <1>1 DEF EInv, Types
<1>3. \A d \in Ids, l \in Exporting!Versions : Has(d, l)' => Has(d, l)
  BY <1>1 DEF Has
<1>4. Numbered'
  BY <1>1, <1>3 DEF EInv, Numbered
<1>5. ASSUME NEW l \in Exporting!Versions, Exporting!Alive(l)' PROVE Owned(l)' /\ Spent(l)'
  <2>1. Exporting!Alive(l) /\ Owned(l) /\ Spent(l)
    BY <1>1, <1>5 DEF Exporting!Alive, EInv, Known
  <2>2. ASSUME NEW d \in Ids, registry[d].no = l PROVE registry[d].platform \in Exporting!SUPPORTED_PLATFORMS
    BY <2>1, <2>2 DEF Owned, EInv, Numbered
  <2> QED BY <1>1, <1>3, <2>1, <2>2 DEF Owned, Spent
<1>6. Exporting!NoLoopIsLost'
  BY <1>1 DEF EInv, Exporting!NoLoopIsLost, Exporting!Alive
<1>7. ThreadsOwn'
  BY <1>1, <1>3 DEF EInv, ThreadsOwn, Has
<1> QED BY <1>2, <1>4, <1>5, <1>6, <1>7 DEF EInv, Known

\* A step that leaves the registry, the copy, the loops and the threads alone.
LEMMA RestStep ==
  ASSUME EInv, UNCHANGED <<deviceEdits, registry, loaded, loops, threads>>,
         pending' \in [Ids -> 0..MaxDeviceEdits], series' \in [Ids -> SUBSET Exporting!Families]
  PROVE  EInv'
<1>1. Types'
  BY DEF EInv, Types
<1>2. Numbered'
  BY DEF EInv, Numbered, Has
<1>3. Known' /\ Exporting!NoLoopIsLost' /\ ThreadsOwn'
  BY DEF EInv, Known, Owned, Spent, Has, Exporting!Alive, Exporting!NoLoopIsLost, ThreadsOwn
<1> QED BY <1>1, <1>2, <1>3 DEF EInv

LEMMA SweepStep == ASSUME Exporting!ExporterAssumption, EInv, Exporting!Sweep PROVE EInv'
<1>1. pending' \in [Ids -> 0..MaxDeviceEdits]
  BY DEF Exporting!Sweep, EInv, Types, Exporting!ExporterAssumption
<1>2. series' \in [Ids -> SUBSET Exporting!Families]
  BY DEF Exporting!Sweep, EInv, Types
<1> QED BY <1>1, <1>2, RestStep DEF Exporting!Sweep

LEMMA ReconcileStep == ASSUME Exporting!ExporterAssumption, EInv, Exporting!Reconcile PROVE EInv'
<1> DEFINE Started(l) == \E d \in Exporting!Starting : Exporting!Start(d) = l
           Of(l) == CHOOSE d \in Exporting!Starting : Exporting!Start(d) = l
<1>1. StartsAreNew
  BY StartsImplied
<1>2. Exporting!Starting \subseteq Ids /\ Exporting!Leaving \subseteq Ids /\ Exporting!Starting \cap Exporting!Leaving = {}
  BY DEF Exporting!Starting, Exporting!Leaving, Exporting!Seen
<1>3. UNCHANGED <<deviceEdits, registry, loaded, series>>
  BY DEF Exporting!Reconcile
<1>4. ASSUME NEW l \in Exporting!Versions, Started(l)
      PROVE  Of(l) \in Exporting!Starting /\ Exporting!Start(Of(l)) = l /\ loops'[l] = Exporting!NewLoop(Of(l))
  <2>1. PICK d \in Exporting!Starting : Exporting!Start(d) = l
    BY <1>4
  <2>2. Of(l) \in Exporting!Starting /\ Exporting!Start(Of(l)) = l
    BY <2>1
  <2> QED BY <1>4, <2>2 DEF Exporting!Reconcile
<1>5. ASSUME NEW l \in Exporting!Versions, ~ Started(l)
      PROVE  loops'[l] = [loops[l] EXCEPT !.stopped = Exporting!Told(l)]
  BY <1>5 DEF Exporting!Reconcile
<1>6. ASSUME NEW d \in Exporting!Starting
      PROVE  Exporting!NewLoop(d) \in Loop /\ Exporting!NewLoop(d).device = d /\ Exporting!NewLoop(d).at = "check" /\ Exporting!NewLoop(d).stopped = FALSE
  BY <1>2 DEF Exporting!NewLoop, Loop, EInv, Types, Details
<1>7. ASSUME NEW l \in Exporting!Versions, ~ Started(l)
      PROVE  /\ loops'[l] \in Loop
             /\ loops'[l].device = loops[l].device /\ loops'[l].at = loops[l].at
             /\ loops'[l].stopped <=> Exporting!Told(l)
  <2>1. loops[l] \in Loop
    BY DEF EInv, Types
  <2>2. Exporting!Told(l) \in BOOLEAN
    BY <2>1 DEF Exporting!Told, Loop
  <2>3. loops'[l] = [loops[l] EXCEPT !.stopped = Exporting!Told(l)]
    BY <1>5, <1>7
  <2> QED BY <2>1, <2>2, <2>3 DEF Loop
<1> HIDE DEF Of
<1>8. Types'
  <2>1. loops' \in [Exporting!Versions -> Loop]
    <3>1. \A l \in Exporting!Versions : loops'[l] \in Loop
      BY <1>4, <1>6, <1>7
    <3>2. /\ loops' = [l \in Exporting!Versions |-> loops'[l]]
      BY DEF Exporting!Reconcile
    <3> QED BY <3>1, <3>2
  <2>2. threads' \in [Ids -> 0..MaxDeviceEdits]
    BY <1>1 DEF StartsAreNew, Exporting!Versions, Exporting!Reconcile, EInv, Types, Exporting!ExporterAssumption
  <2>3. pending' \in [Ids -> 0..MaxDeviceEdits]
    BY DEF Exporting!Reconcile, EInv, Types
  <2> QED BY <1>3, <2>1, <2>2, <2>3 DEF EInv, Types
<1>9. Numbered'
  BY <1>3 DEF EInv, Numbered, Has
<1>10. \A d \in Ids, l \in Exporting!Versions : Has(d, l)' <=> Has(d, l)
  BY <1>3 DEF Has
<1>11. ASSUME NEW l \in Exporting!Versions, Exporting!Alive(l)', Started(l)
       PROVE  Owned(l)' /\ Spent(l)' /\ (~ loops'[l].stopped => threads'[loops'[l].device] = l)
  <2> DEFINE d == Of(l)
  <2>1. d \in Exporting!Starting /\ d \in Ids /\ loaded[d].no = l /\ loops'[l].device = d /\ ~ loops'[l].stopped
    <3>1. Of(l) \in Exporting!Starting /\ Exporting!Start(Of(l)) = l /\ loops'[l] = Exporting!NewLoop(Of(l))
      BY <1>4, <1>11
    <3>2. loops'[l].device = Of(l) /\ ~ loops'[l].stopped
      BY <3>1 DEF Exporting!NewLoop
    <3> QED BY <1>2, <3>1, <3>2 DEF Exporting!Start
  <2> HIDE DEF d
  <2>2. threads'[d] = l
    BY <2>1 DEF Exporting!Reconcile, Exporting!Start
  <2>3. \A e \in Ids : Has(e, l) => e = d
    BY <2>1 DEF EInv, Numbered, Has
  <2>4. l <= deviceEdits /\ loaded[d].platform \in Exporting!SUPPORTED_PLATFORMS
    BY <2>1 DEF EInv, Numbered, Exporting!Starting, Exporting!Seen
  <2>5. Owned(l)'
    BY <1>3, <1>10, <2>1, <2>3, <2>4 DEF Owned, Has
  <2> QED BY <2>1, <2>2, <2>5 DEF Spent
<1>12. ASSUME NEW l \in Exporting!Versions, Exporting!Alive(l)', ~ Started(l)
       PROVE  Owned(l)' /\ Spent(l)' /\ (~ loops'[l].stopped => threads'[loops'[l].device] = l)
  <2> DEFINE d == loops[l].device
  <2>1. Exporting!Alive(l) /\ Owned(l) /\ Spent(l)
    BY <1>7, <1>12 DEF Exporting!Alive, EInv, Known
  <2>2. d \in Ids
    BY DEF EInv, Types, Loop
  <2>3. Owned(l)'
    BY <1>3, <1>7, <1>10, <1>12, <2>1 DEF Owned
  <2>4. loops'[l].stopped => loops[l].stopped \/ \E e \in Exporting!Leaving : threads[e] = l
    BY <1>7, <1>12 DEF Exporting!Told
  <2>5. ASSUME NEW e \in Exporting!Leaving, threads[e] = l, ~ loops[l].stopped
        PROVE  \A f \in Ids : ~ Has(f, l)
    <3> SUFFICES ASSUME NEW f \in Ids, loaded[f].no = l PROVE FALSE
      BY <2>1 DEF Has, Owned
    <3>1. threads[e] # 0 /\ e \in Ids /\ loaded[e].platform \notin Exporting!SUPPORTED_PLATFORMS
      BY DEF Exporting!Leaving, Exporting!Seen
    <3>2. loaded[f].platform \in Exporting!SUPPORTED_PLATFORMS /\ d = f
      BY <2>1 DEF Owned, Has
    <3>3. e = d
      BY <2>1, <2>5, <3>1 DEF EInv, ThreadsOwn
    <3> QED BY <3>1, <3>2, <3>3
  <2>6. Spent(l)'
    BY <1>10, <2>1, <2>4, <2>5 DEF Spent
  <2>7. ASSUME ~ loops'[l].stopped PROVE threads'[d] = l
    <3>1. ~ loops[l].stopped /\ \A e \in Exporting!Leaving : threads[e] # l
      BY <2>7, <1>7, <1>12 DEF Exporting!Told
    <3>2. threads[d] = l
      BY <2>1, <3>1 DEF EInv, Exporting!NoLoopIsLost
    <3>3. l # 0
      BY DEF Exporting!Versions
    <3>4. d \notin Exporting!Starting /\ d \notin Exporting!Leaving
      BY <2>1, <3>1, <3>2, <3>3 DEF Exporting!Starting
    <3> QED BY <2>2, <3>2, <3>4 DEF Exporting!Reconcile
  <2> QED BY <1>7, <1>12, <2>3, <2>6, <2>7
<1>13. ThreadsOwn'
  <2> SUFFICES ASSUME NEW e \in Ids, threads'[e] # 0
               PROVE  /\ threads'[e] <= deviceEdits /\ loops'[threads'[e]].device = e
                      /\ \A d \in Ids : Has(d, threads'[e]) => d = e
    BY <1>3 DEF ThreadsOwn, Has
  <2>1. CASE e \in Exporting!Starting
    <3> DEFINE l == Exporting!Start(e)
    <3>1. threads'[e] = l /\ l \in Exporting!Versions /\ loaded[e].no = l
      BY <1>1, <2>1 DEF StartsAreNew, Exporting!Reconcile, Exporting!Start
    <3>2. Started(l) /\ Of(l) = e
      BY <1>1, <1>4, <2>1, <3>1 DEF StartsAreNew
    <3>3. loops'[l].device = e
      BY <1>4, <1>6, <2>1, <3>1, <3>2
    <3>4. l <= deviceEdits /\ \A d \in Ids : Has(d, l) => d = e
      BY <3>1 DEF EInv, Numbered, Has
    <3> QED BY <3>1, <3>3, <3>4
  <2>2. CASE e \notin Exporting!Starting
    <3> DEFINE l == threads[e]
    <3>1. threads'[e] = l /\ l # 0
      BY <2>2 DEF Exporting!Reconcile
    <3>2. l \in Exporting!Versions /\ l <= deviceEdits /\ loops[l].device = e /\ \A d \in Ids : Has(d, l) => d = e
      BY <3>1 DEF EInv, Types, ThreadsOwn, Exporting!Versions, Exporting!ExporterAssumption
    <3>3. ~ Started(l)
      BY <1>2, <2>2, <3>2 DEF Exporting!Start, Has
    <3> QED BY <1>7, <3>1, <3>2, <3>3
  <2> QED BY <2>1, <2>2
<1> QED BY <1>8, <1>9, <1>11, <1>12, <1>13 DEF EInv, Known, Exporting!NoLoopIsLost

-----------------------------------------------------------------------------
(* _poll_loop                                                              *)

\* A loop goes on, or ends: it keeps its device and what it was told.
LEMMA LoopMoves ==
  ASSUME Exporting!ExporterAssumption, EInv, NEW l \in Exporting!Versions, NEW poller \in Loop,
         Exporting!Becomes(l, poller), Exporting!Alive(l),
         poller.device = loops[l].device, poller.stopped = loops[l].stopped,
         series' \in [Ids -> SUBSET Exporting!Families]
  PROVE  EInv'
<1>1. /\ UNCHANGED <<deviceEdits, registry, main, loaded, threads, pending>>
      /\ loops' \in [Exporting!Versions -> Loop]
      /\ loops'[l] = poller /\ \A k \in Exporting!Versions \ {l} : loops'[k] = loops[k]
  BY DEF Exporting!Becomes, EInv, Types
<1>2. Types' /\ Numbered'
  BY <1>1 DEF EInv, Types, Numbered, Has
<1>3. \A k \in Exporting!Versions : /\ loops'[k].device = loops[k].device
                          /\ loops'[k].stopped = loops[k].stopped
                          /\ Exporting!Alive(k)' => Exporting!Alive(k)
  BY <1>1 DEF Exporting!Alive
<1>4. Known'
  BY <1>1, <1>3 DEF EInv, Known, Owned, Spent, Has
<1>5. Exporting!NoLoopIsLost'
  BY <1>1, <1>3 DEF EInv, Exporting!NoLoopIsLost
<1>6. ThreadsOwn'
  <2> SUFFICES ASSUME NEW e \in Ids, threads[e] # 0 PROVE loops'[threads[e]].device = e
    BY <1>1 DEF EInv, ThreadsOwn, Has
  <2>1. threads[e] \in Exporting!Versions
    BY DEF EInv, Types, Exporting!Versions, Exporting!ExporterAssumption
  <2>2. loops[threads[e]].device = e
    BY DEF EInv, ThreadsOwn
  <2>3. loops'[threads[e]].device = loops[threads[e]].device
    BY <1>1, <2>1
  <2> QED BY <2>2, <2>3
<1> QED BY <1>2, <1>4, <1>5, <1>6 DEF EInv

\* Setting series of known families keeps their type.
LEMMA SetsTyped ==
  ASSUME EInv, NEW l \in Exporting!Versions, NEW families \in SUBSET Exporting!Families, Exporting!Sets(l, families)
  PROVE  series' \in [Ids -> SUBSET Exporting!Families]
BY DEF EInv, Types, Exporting!Sets, Loop

\* What is polled in a cycle.
LEMMA CycleTyped ==
  ASSUME NEW platform, NEW due \in BOOLEAN
  PROVE  Exporting!Fast(platform) \o (IF due THEN Exporting!Slow(platform) ELSE <<>>) \in Seq(Exporting!Families)
<1>1. {"cpu", "memory", "environment", "interfaces", "duration", "speed", "optics"} \subseteq Exporting!Families
  BY DEF Exporting!Families
<1>2. <<"cpu", "environment", "interfaces", "duration">> \in Seq(Exporting!Families)
  BY <1>1
<1>3. <<"cpu", "memory", "environment", "interfaces", "duration">> \in Seq(Exporting!Families)
  BY <1>1
<1>4. <<"speed", "optics", "duration">> \in Seq(Exporting!Families) /\ <<"optics", "duration">> \in Seq(Exporting!Families)
  BY <1>1
<1>5. Exporting!Fast(platform) \in Seq(Exporting!Families)
  BY <1>2, <1>3 DEF Exporting!Fast
<1>6. Exporting!Slow(platform) \in Seq(Exporting!Families)
  BY <1>4 DEF Exporting!Slow
<1> QED BY <1>5, <1>6

LEMMA LoopHolds == ASSUME Exporting!ExporterAssumption, EInv, NEW l \in Exporting!Versions, Exporting!LoopStep(l) PROVE EInv'
<1>0. loops[l] \in Loop /\ series \in [Ids -> SUBSET Exporting!Families]
  BY DEF EInv, Types
<1>1. CASE Exporting!CheckStop(l)
  <2>1. Exporting!Alive(l) /\ series' = series
    BY <1>1 DEF Exporting!CheckStop, Exporting!Alive
  <2>2. CASE loops[l].stopped
    <3> DEFINE poller == [loops[l] EXCEPT !.at = "exited"]
    <3>1. poller \in Loop /\ poller.device = loops[l].device /\ poller.stopped = loops[l].stopped
      BY <1>0 DEF Loop
    <3>2. Exporting!Becomes(l, poller)
      BY <1>1, <2>2 DEF Exporting!CheckStop
    <3> HIDE DEF poller
    <3> QED BY <1>0, <2>1, <3>1, <3>2, LoopMoves
  <2>3. CASE ~ loops[l].stopped
    <3>1. PICK due \in {loops[l].slow, TRUE} :
            Exporting!Becomes(l, [loops[l] EXCEPT !.at = "poll", !.slow = due,
              !.todo = Exporting!Fast(loops[l].platform) \o (IF due THEN Exporting!Slow(loops[l].platform) ELSE <<>>)])
      BY <1>1, <2>3 DEF Exporting!CheckStop
    <3> DEFINE todo == Exporting!Fast(loops[l].platform) \o (IF due THEN Exporting!Slow(loops[l].platform) ELSE <<>>)
               poller == [loops[l] EXCEPT !.at = "poll", !.slow = due, !.todo = todo]
    <3>2. due \in BOOLEAN /\ todo \in Seq(Exporting!Families)
      BY <1>0, CycleTyped DEF Loop
    <3>3. Exporting!Becomes(l, poller)
      BY <3>1
    <3> HIDE DEF todo
    <3>4. poller \in Loop /\ poller.device = loops[l].device /\ poller.stopped = loops[l].stopped
      BY <1>0, <3>2 DEF Loop
    <3> HIDE DEF poller
    <3> QED BY <1>0, <2>1, <3>3, <3>4, LoopMoves
  <2> QED BY <2>2, <2>3
<1>2. CASE Exporting!PollSection(l)
  <2> DEFINE poller == [loops[l] EXCEPT !.todo = Tail(@)]
  <2>1. Exporting!Alive(l) /\ loops[l].todo # <<>> /\ Exporting!Becomes(l, poller) /\ Exporting!Sets(l, {Head(loops[l].todo)})
    BY <1>2 DEF Exporting!PollSection, Exporting!Alive
  <2>2. Head(loops[l].todo) \in Exporting!Families /\ Tail(loops[l].todo) \in Seq(Exporting!Families)
    BY <1>0, <2>1 DEF Loop
  <2>3. poller \in Loop /\ poller.device = loops[l].device /\ poller.stopped = loops[l].stopped
    BY <1>0, <2>2 DEF Loop
  <2> HIDE DEF poller
  <2>4. series' \in [Ids -> SUBSET Exporting!Families]
    BY <2>1, <2>2, SetsTyped
  <2> QED BY <2>1, <2>3, <2>4, LoopMoves
<1>3. CASE Exporting!Polled(l)
  <2> DEFINE poller == [loops[l] EXCEPT !.at = "wait", !.slow = FALSE]
  <2>1. Exporting!Alive(l) /\ Exporting!Becomes(l, poller) /\ Exporting!Sets(l, {"up"})
    BY <1>3 DEF Exporting!Polled, Exporting!Alive
  <2>2. poller \in Loop /\ poller.device = loops[l].device /\ poller.stopped = loops[l].stopped
    BY <1>0 DEF Loop
  <2> HIDE DEF poller
  <2>3. series' \in [Ids -> SUBSET Exporting!Families]
    BY <2>1, SetsTyped DEF Exporting!Families
  <2> QED BY <2>1, <2>2, <2>3, LoopMoves
<1>4. CASE Exporting!PollFails(l)
  <2> DEFINE poller == [loops[l] EXCEPT !.at = "wait", !.todo = <<>>]
             families == {"up"} \cup {f \in {"optics"} : loops[l].todo # <<>> /\ Head(loops[l].todo) = f}
  <2>1. Exporting!Alive(l) /\ Exporting!Becomes(l, poller) /\ Exporting!Sets(l, families)
    BY <1>4 DEF Exporting!PollFails, Exporting!Alive
  <2>2. poller \in Loop /\ poller.device = loops[l].device /\ poller.stopped = loops[l].stopped
    <3>1. <<>> \in Seq(Exporting!Families)
      OBVIOUS
    <3> QED BY <1>0, <3>1 DEF Loop
  <2>3. families \in SUBSET Exporting!Families
    BY DEF Exporting!Families
  <2> HIDE DEF poller, families
  <2>4. series' \in [Ids -> SUBSET Exporting!Families]
    BY <2>1, <2>3, SetsTyped
  <2> QED BY <2>1, <2>2, <2>4, LoopMoves
<1>5. CASE Exporting!Waited(l)
  <2> DEFINE poller == [loops[l] EXCEPT !.at = "check"]
  <2>1. Exporting!Alive(l) /\ Exporting!Becomes(l, poller) /\ series' = series
    BY <1>5 DEF Exporting!Waited, Exporting!Alive
  <2>2. poller \in Loop /\ poller.device = loops[l].device /\ poller.stopped = loops[l].stopped
    BY <1>0 DEF Loop
  <2> HIDE DEF poller
  <2> QED BY <1>0, <2>1, <2>2, LoopMoves
<1> QED BY <1>1, <1>2, <1>3, <1>4, <1>5 DEF Exporting!LoopStep

-----------------------------------------------------------------------------
LEMMA StepHolds == ASSUME Exporting!ExporterAssumption, EInv, [Exporting!Next]_(Exporting!vars) PROVE EInv'
<1>1. CASE UNCHANGED Exporting!vars
  BY <1>1, RestStep DEF Exporting!vars, EInv, Types
<1>2. CASE Exporting!MainStep
  <2>1. CASE Exporting!LoadFails \/ Exporting!Wake
    BY <2>1, RestStep DEF Exporting!LoadFails, Exporting!Wake, EInv, Types
  <2> QED BY <1>2, <2>1, LoadStep, ReconcileStep, SweepStep DEF Exporting!MainStep
<1>3. ASSUME NEW d \in Ids, Exporting!Remove(d) \/ \E p \in Exporting!Platforms : Exporting!Save(d, p) PROVE EInv'
  BY <1>3, SaveStep, RemoveStep
<1>4. ASSUME NEW l \in Exporting!Versions, Exporting!LoopStep(l) PROVE EInv'
  BY <1>4, LoopHolds
<1> QED BY <1>1, <1>2, <1>3, <1>4 DEF Exporting!Next

LEMMA ExporterInvariant ==
  ASSUME Exporting!ExporterAssumption PROVE Exporting!Init /\ [][Exporting!Next]_(Exporting!vars) => []EInv
<1>1. Exporting!Init => EInv
  BY InitHolds
<1>2. EInv /\ [Exporting!Next]_(Exporting!vars) => EInv'
  BY StepHolds
<1> QED BY <1>1, <1>2, PTL

\* Every loop of the exporter that was not told to stop is the one main() still has
\* for its device (exporter.py:444-454), for any devices and any edits of them.
THEOREM EveryLoopIsKnown == ASSUME Exporting!ExporterAssumption PROVE Exporting!Spec => []Exporting!NoLoopIsLost
<1>1. EInv => Exporting!NoLoopIsLost
  BY DEF EInv
<1> QED BY <1>1, ExporterInvariant, PTL DEF Exporting!Spec

\* A thread may be named by the details it was started with: main() never starts one
\* for details whose thread still runs, not even for an old copy of the registry.
THEOREM LoopsStartOnce == ASSUME Exporting!ExporterAssumption PROVE Exporting!Spec => []StartsAreNew
<1>1. EInv => StartsAreNew
  BY StartsImplied
<1> QED BY <1>1, ExporterInvariant, PTL DEF Exporting!Spec

\* The dictionaries of main() and the series keep their types.
THEOREM ExporterTyped == ASSUME Exporting!ExporterAssumption PROVE Exporting!Spec => []Exporting!TypeOK
<1>1. EInv => Exporting!TypeOK
  BY TypesImplied
<1> QED BY <1>1, ExporterInvariant, PTL DEF Exporting!Spec

-------------------------------------------------------------------------------
(***************************************************************************)
(* Access: a session whose end Keycloak told stays out.  A cookie that     *)
(* names such a session is over, or its end is remembered for longer than  *)
(* the cookie lives; and a callback under way for such a session, which is *)
(* about to set a new cookie, finds the end remembered as of now.          *)
(***************************************************************************)
Cookie == [sid : Nat, role : Auth!Roles \cup {Auth!NoRole}, expires : Nat]

AccessTypes ==
  /\ accessClock \in 0..MaxAccessTime /\ attempts \in Nat /\ sids \in Nat /\ told \subseteq 1..sids
  /\ flow \in [Visitors -> {"none", "page", "keycloak", "callback"}]
  /\ retries \in [Visitors -> 0..MaxLogins]
  /\ sso \in [Visitors -> 0..sids]
  /\ cookie \in [Visitors -> Cookie]
  /\ revoked \subseteq [sid : Nat, at : Nat]

\* No cookie lives longer than one made now.
Aging == \A b \in Visitors : cookie[b].expires <= accessClock + SessionTtl

\* The end that a callback under way is too late for was told just now.
Overtaken ==
  \A b \in Visitors : flow[b] = "callback" /\ sso[b] \in told =>
    \E r \in revoked : r.sid = sso[b] /\ r.at = accessClock

\* An end is remembered for as long as a cookie of the session lives.
Outlives(s) == s.expires < accessClock \/ \E r \in revoked : r.sid = s.sid /\ s.expires <= r.at + SessionTtl
Remembered == \A b \in Visitors : cookie[b].sid \in told => Outlives(cookie[b])

AInv == AccessTypes /\ Aging /\ Overtaken /\ Remembered

LEMMA AccessTypesImplied == AInv => Auth!TypeOK
BY DEF AInv, AccessTypes, Auth!TypeOK, Cookie

LEMMA EndedImplied == ASSUME Auth!AccessAssumption, AInv PROVE Auth!EndedStaysOut
<1> SUFFICES ASSUME NEW b \in Visitors, NEW t \in Tokens \cup {Auth!NoHeader}, NEW dbUp \in BOOLEAN,
                    Auth!Status(b, t, "viewer", FALSE, dbUp) = 200
             PROVE  IF t = Auth!NoHeader THEN cookie[b].sid \notin told ELSE token[t].live
  BY DEF Auth!EndedStaysOut
<1>1. Auth!Presented(b, t) # Auth!NoRole
  BY DEF Auth!Status
<1>2. CASE t \in Tokens
  BY <1>1, <1>2 DEF Auth!Presented, Auth!Verify, Auth!AccessAssumption
<1>3. CASE t = Auth!NoHeader
  <2>1. ~ (accessClock > cookie[b].expires) /\ ~ \E r \in revoked : r.sid = cookie[b].sid
    BY <1>1, <1>3 DEF Auth!AccessAssumption, Auth!Presented, Auth!LoggedIn, Auth!SessionExpired, Auth!IsSidRevoked
  <2>2. accessClock \in Nat /\ cookie[b].expires \in Nat
    BY DEF AInv, AccessTypes, Cookie
  <2>3. ~ Outlives(cookie[b])
    BY <2>1, <2>2 DEF Outlives
  <2> QED BY <1>3, <2>3 DEF AInv, Remembered
<1> QED BY <1>2, <1>3

LEMMA AccessInit == ASSUME Auth!AccessAssumption, Auth!Init PROVE AInv
<1>1. Auth!NoSession \in Cookie /\ Auth!NoSession.expires = 0
  BY DEF Auth!NoSession, Cookie
<1>2. AccessTypes
  BY <1>1 DEF Auth!Init, Auth!AccessAssumption, AccessTypes
<1>3. Aging
  BY <1>1 DEF Auth!Init, Auth!AccessAssumption, Aging
<1>4. told = {}
  BY DEF Auth!Init
<1> QED BY <1>2, <1>3, <1>4 DEF AInv, Overtaken, Remembered

\* The role a callback answers is one of ours.
LEMMA RoleKnown == \A claims : Auth!RoleFrom(claims) \in Auth!Roles \cup {Auth!NoRole}
<1> SUFFICES ASSUME NEW claims, claims \cap Auth!Roles # {}
             PROVE  \E r \in claims \cap Auth!Roles : \A q \in claims \cap Auth!Roles : Auth!Rank(q) <= Auth!Rank(r)
  BY DEF Auth!RoleFrom
<1>1. Auth!Rank("viewer") = 0 /\ Auth!Rank("operator") = 1 /\ Auth!Rank("admin") = 2
  BY DEF Auth!Rank
<1>2. CASE "admin" \in claims
  BY <1>1, <1>2 DEF Auth!Roles
<1>3. CASE "admin" \notin claims /\ "operator" \in claims
  BY <1>1, <1>3 DEF Auth!Roles
<1>4. CASE claims \cap Auth!Roles = {"viewer"}
  BY <1>1, <1>4
<1> QED BY <1>2, <1>3, <1>4 DEF Auth!Roles

\* A step that leaves the clock, the cookies and what was told alone.
LEMMA LoginStep ==
  ASSUME Auth!AccessAssumption, AInv, UNCHANGED <<accessClock, told, revoked, cookie>>,
         flow' \in [Visitors -> {"none", "page", "keycloak", "callback"}],
         retries' \in [Visitors -> 0..MaxLogins], attempts' \in Nat,
         sids' \in Nat, sids <= sids', sso' \in [Visitors -> 0..sids'],
         \A c \in Visitors : flow'[c] = "callback" /\ sso'[c] \in told => flow[c] = "callback" /\ sso'[c] = sso[c]
  PROVE  AInv'
<1>1. AccessTypes'
  <2>1. told' \subseteq 1..sids'
    BY DEF AInv, AccessTypes
  <2>2. cookie' \in [Visitors -> Cookie] /\ revoked' \subseteq [sid : Nat, at : Nat] /\ accessClock' \in 0..MaxAccessTime
    BY DEF AInv, AccessTypes
  <2> QED BY <2>1, <2>2 DEF AccessTypes
<1>2. Overtaken'
  BY DEF AInv, Overtaken
<1>3. Aging' /\ Remembered'
  BY DEF AInv, Aging, Remembered, Outlives
<1> QED BY <1>1, <1>2, <1>3 DEF AInv

\* The same, where nobody comes to the callback and nobody's session changes.
LEMMA NoCallbackStep ==
  ASSUME Auth!AccessAssumption, AInv, NEW b \in Visitors, NEW f \in {"page", "keycloak"},
         flow' = [flow EXCEPT ![b] = f], UNCHANGED <<accessClock, told, revoked, cookie, sids, sso>>,
         retries' \in [Visitors -> 0..MaxLogins], attempts' \in Nat
  PROVE  AInv'
<1>1. flow' \in [Visitors -> {"none", "page", "keycloak", "callback"}]
  BY DEF AInv, AccessTypes
<1>2. \A c \in Visitors : flow'[c] = "callback" => flow[c] = "callback"
  BY DEF AInv, AccessTypes
<1>3. sids' \in Nat /\ sids <= sids' /\ sso' \in [Visitors -> 0..sids']
  BY DEF AInv, AccessTypes
<1> QED BY <1>1, <1>2, <1>3, LoginStep

LEMMA AtKeycloakStep ==
  ASSUME Auth!AccessAssumption, AInv, NEW b \in Visitors, Auth!AtKeycloak(b) PROVE AInv'
<1>1. UNCHANGED <<accessClock, told, revoked, cookie>> /\ retries' = retries /\ attempts' = attempts
  BY DEF Auth!AtKeycloak, Auth!UnchangedByLogin
<1>2. retries' \in [Visitors -> 0..MaxLogins] /\ attempts' \in Nat
  BY <1>1 DEF AInv, AccessTypes
<1>3. sids \in Nat /\ sso \in [Visitors -> 0..sids] /\ told \subseteq 1..sids
      /\ flow \in [Visitors -> {"none", "page", "keycloak", "callback"}]
  BY DEF AInv, AccessTypes
<1>4. CASE sso[b] \notin {0} \cup told
  <2>1. flow' = [flow EXCEPT ![b] = "callback"] /\ sids' = sids /\ sso' = sso
    BY <1>4 DEF Auth!AtKeycloak, Auth!Goto
  <2>2. sids' \in Nat /\ sids <= sids' /\ sso' \in [Visitors -> 0..sids']
        /\ flow' \in [Visitors -> {"none", "page", "keycloak", "callback"}]
    BY <1>3, <2>1
  <2>3. \A c \in Visitors : flow'[c] = "callback" /\ sso'[c] \in told => flow[c] = "callback" /\ sso'[c] = sso[c]
    BY <1>3, <1>4, <2>1
  <2> QED BY <1>1, <1>2, <2>2, <2>3, LoginStep
<1>5. CASE sso[b] \in {0} \cup told /\ sids < MaxSids
  <2>1. flow' = [flow EXCEPT ![b] = "callback"] /\ sids' = sids + 1 /\ sso' = [sso EXCEPT ![b] = sids']
    BY <1>5 DEF Auth!AtKeycloak, Auth!Goto
  <2>2. sids' \in Nat /\ sids <= sids' /\ sso' \in [Visitors -> 0..sids']
    BY <1>3, <2>1
  <2>3. flow' \in [Visitors -> {"none", "page", "keycloak", "callback"}]
    BY <1>3, <2>1
  <2>4. sso'[b] = sids + 1 /\ sids + 1 \notin told
    BY <1>3, <2>1
  <2>5. \A c \in Visitors : flow'[c] = "callback" /\ sso'[c] \in told => flow[c] = "callback" /\ sso'[c] = sso[c]
    BY <1>3, <2>1, <2>4
  <2> QED BY <1>1, <1>2, <2>2, <2>3, <2>5, LoginStep
<1>6. CASE sso[b] \in {0} \cup told /\ ~ (sids < MaxSids)
  <2>1. flow' = [flow EXCEPT ![b] = "page"] /\ sids' = sids /\ sso' = sso
    BY <1>6 DEF Auth!AtKeycloak, Auth!Goto
  <2> QED BY <1>1, <1>2, <2>1, NoCallbackStep
<1> QED BY <1>4, <1>5, <1>6

\* A login's other steps, but for the one that sets a cookie.
LEMMA OtherLoginSteps ==
  ASSUME Auth!AccessAssumption, AInv, NEW b \in Visitors,
         Auth!StartLogin(b) \/ Auth!Throttled(b) \/ Auth!ExchangeFails(b)
  PROVE  AInv'
<1>1. UNCHANGED <<accessClock, told, revoked, cookie, sids, sso>>
  BY DEF Auth!StartLogin, Auth!Throttled, Auth!ExchangeFails, Auth!UnchangedByLogin
<1>2. retries \in [Visitors -> 0..MaxLogins] /\ attempts \in Nat
  BY DEF AInv, AccessTypes
<1>3. attempts' \in Nat
  BY <1>2 DEF Auth!StartLogin, Auth!Throttled, Auth!ExchangeFails, Auth!CheckRateLimit
<1>4. PICK f \in {"page", "keycloak"} : flow' = [flow EXCEPT ![b] = f]
  BY DEF Auth!StartLogin, Auth!Throttled, Auth!ExchangeFails, Auth!Goto
<1>5. retries' \in [Visitors -> 0..MaxLogins]
  <2>1. CASE UNCHANGED retries
    BY <1>2, <2>1
  <2>2. CASE retries[b] < MaxLogins /\ retries' = [retries EXCEPT ![b] = @ + 1]
    BY <1>2, <2>2 DEF Auth!AccessAssumption
  <2>3. CASE retries' = [retries EXCEPT ![b] = 0]
    BY <1>2, <2>3 DEF Auth!AccessAssumption
  <2> QED BY <2>1, <2>2, <2>3
       DEF Auth!StartLogin, Auth!Throttled, Auth!ExchangeFails, Auth!Retry, Auth!ClearRetries
<1> QED BY <1>1, <1>3, <1>4, <1>5, NoCallbackStep

\* One cookie is replaced by one that is remembered if its session ended.
LEMMA CookieSet ==
  ASSUME Auth!AccessAssumption, AInv, NEW b \in Visitors, NEW s \in Cookie,
         cookie' = [cookie EXCEPT ![b] = s], s.expires <= accessClock + SessionTtl, s.sid \in told => Outlives(s),
         NEW f \in {"none", "page", "keycloak"}, flow' = flow \/ flow' = [flow EXCEPT ![b] = f],
         retries' \in [Visitors -> 0..MaxLogins], attempts' \in Nat,
         sso' = sso \/ sso' = [sso EXCEPT ![b] = 0],
         UNCHANGED <<accessClock, sids, told, revoked>>
  PROVE  AInv'
<1>1. AccessTypes'
  <2>1. flow' \in [Visitors -> {"none", "page", "keycloak", "callback"}]
    BY DEF AInv, AccessTypes
  <2>2. sso' \in [Visitors -> 0..sids'] /\ sids' \in Nat
    BY DEF AInv, AccessTypes
  <2>3. cookie' \in [Visitors -> Cookie]
    BY DEF AInv, AccessTypes
  <2>4. told' \subseteq 1..sids' /\ revoked' \subseteq [sid : Nat, at : Nat] /\ accessClock' \in 0..MaxAccessTime
    BY DEF AInv, AccessTypes
  <2> QED BY <2>1, <2>2, <2>3, <2>4 DEF AccessTypes
<1>2. \A c \in Visitors : cookie'[c] = IF c = b THEN s ELSE cookie[c]
  BY DEF AInv, AccessTypes
<1>3. Aging'
  BY <1>2 DEF AInv, Aging
<1>4. Remembered'
  BY <1>2 DEF AInv, Remembered, Outlives
<1>5. Overtaken'
  <2> SUFFICES ASSUME NEW c \in Visitors, flow'[c] = "callback", sso'[c] \in told
               PROVE  \E r \in revoked : r.sid = sso'[c] /\ r.at = accessClock
    BY DEF Overtaken
  <2>1. 0 \notin told
    BY DEF AInv, AccessTypes
  <2>2. flow[c] = "callback" /\ sso'[c] = sso[c]
    BY <2>1 DEF AInv, AccessTypes
  <2> QED BY <2>2 DEF AInv, Overtaken
<1> QED BY <1>1, <1>3, <1>4, <1>5 DEF AInv

LEMMA LogInStep == ASSUME Auth!AccessAssumption, AInv, NEW b \in Visitors, Auth!LogIn(b) PROVE AInv'
<1>1. UNCHANGED <<accessClock, told, revoked, sids, sso>> /\ flow[b] = "callback"
  BY DEF Auth!LogIn, Auth!UnchangedByLogin
<1>2. accessClock \in Nat /\ sids \in Nat /\ sso[b] \in Nat /\ attempts \in Nat /\ retries \in [Visitors -> 0..MaxLogins]
  BY DEF AInv, AccessTypes
<1>3. attempts' \in Nat /\ retries' \in [Visitors -> 0..MaxLogins]
  BY <1>2 DEF Auth!LogIn, Auth!CheckRateLimit, Auth!ClearRetries, Auth!AccessAssumption
<1>4. PICK claims \in Claims :
        LET role == Auth!RoleFrom(claims)
        IN IF role = Auth!NoRole THEN Auth!Goto(b, "page") /\ UNCHANGED cookie
           ELSE /\ Auth!Goto(b, "none")
                /\ cookie' = [cookie EXCEPT ![b] = [sid |-> sso[b], role |-> role, expires |-> accessClock + SessionTtl]]
  BY DEF Auth!LogIn
<1>5. CASE Auth!RoleFrom(claims) = Auth!NoRole
  <2>1. flow' = [flow EXCEPT ![b] = "page"] /\ UNCHANGED cookie
    BY <1>4, <1>5 DEF Auth!Goto
  <2> QED BY <1>1, <1>3, <2>1, NoCallbackStep
<1>6. CASE Auth!RoleFrom(claims) # Auth!NoRole
  <2> DEFINE s == [sid |-> sso[b], role |-> Auth!RoleFrom(claims), expires |-> accessClock + SessionTtl]
  <2>1. flow' = [flow EXCEPT ![b] = "none"] /\ cookie' = [cookie EXCEPT ![b] = s]
    BY <1>4, <1>6 DEF Auth!Goto
  <2>2. s \in Cookie /\ s.sid = sso[b] /\ s.expires = accessClock + SessionTtl /\ s.expires <= accessClock + SessionTtl
    BY <1>2, RoleKnown DEF Cookie, Auth!AccessAssumption
  <2>3. s.sid \in told => Outlives(s)
    <3> SUFFICES ASSUME sso[b] \in told PROVE \E r \in revoked : r.sid = s.sid /\ s.expires <= r.at + SessionTtl
      BY <2>2 DEF Outlives
    <3>1. PICK r \in revoked : r.sid = sso[b] /\ r.at = accessClock
      BY <1>1 DEF AInv, Overtaken
    <3> QED BY <2>2, <3>1
  <2> HIDE DEF s
  <2> QED BY <1>1, <1>3, <2>1, <2>2, <2>3, CookieSet
<1> QED BY <1>5, <1>6

LEMMA LogOutStep == ASSUME Auth!AccessAssumption, AInv, NEW b \in Visitors, Auth!LogOut(b) PROVE AInv'
<1>1. UNCHANGED <<accessClock, told, revoked, sids, flow, retries, attempts>> /\ (sso' = sso \/ sso' = [sso EXCEPT ![b] = 0])
  BY DEF Auth!LogOut, Auth!UnchangedByLogin
<1>2. retries' \in [Visitors -> 0..MaxLogins] /\ attempts' \in Nat /\ accessClock \in Nat /\ 0 \notin told
  BY <1>1 DEF AInv, AccessTypes
<1>3. Auth!NoSession \in Cookie /\ Auth!NoSession.expires = 0 /\ Auth!NoSession.sid = 0
  BY DEF Auth!NoSession, Cookie
<1>4. cookie' = [cookie EXCEPT ![b] = Auth!NoSession] /\ Auth!NoSession.expires <= accessClock + SessionTtl
  BY <1>2, <1>3 DEF Auth!LogOut, Auth!AccessAssumption
<1> QED BY <1>1, <1>2, <1>3, <1>4, CookieSet

\* What is dropped from the memory is older than any cookie still valid.
LEMMA BackchannelStep ==
  ASSUME Auth!AccessAssumption, AInv, NEW sid \in 1..MaxSids, Auth!BackchannelLogout(sid) PROVE AInv'
<1> DEFINE new == [sid |-> sid, at |-> accessClock]
<1>1. /\ sid \in 1..sids /\ sid \notin told /\ told' = told \cup {sid}
      /\ sso' = [b \in Visitors |-> IF sso[b] = sid /\ flow[b] # "callback" THEN 0 ELSE sso[b]]
      /\ revoked' = {r \in {r \in revoked : r.sid # sid} \cup {new} : r.at + SessionTtl >= accessClock}
      /\ UNCHANGED <<accessClock, flow, retries, cookie, sids, attempts>>
  BY DEF Auth!BackchannelLogout, Auth!Prune
<1>2. accessClock \in Nat /\ SessionTtl \in Nat /\ sids \in Nat /\ told \subseteq 1..sids
  BY DEF AInv, AccessTypes, Auth!AccessAssumption
<1>3. new \in [sid : Nat, at : Nat] /\ new.sid = sid /\ new.at = accessClock /\ new.at + SessionTtl >= accessClock
  BY <1>1, <1>2
<1> HIDE DEF new
<1>4. new \in revoked'
  BY <1>1, <1>3
<1>5. \A r \in revoked : r.sid # sid /\ r.at + SessionTtl >= accessClock => r \in revoked'
  BY <1>1
<1>6. AccessTypes'
  <2>1. revoked' \subseteq [sid : Nat, at : Nat]
    BY <1>1, <1>3 DEF AInv, AccessTypes
  <2>2. told' \subseteq 1..sids'
    BY <1>1, <1>2
  <2>3. sso' \in [Visitors -> 0..sids']
    BY <1>1, <1>2 DEF AInv, AccessTypes
  <2> QED BY <1>1, <2>1, <2>2, <2>3 DEF AInv, AccessTypes
<1>7. Aging'
  BY <1>1 DEF AInv, Aging
<1>8. Overtaken'
  <2> SUFFICES ASSUME NEW b \in Visitors, flow'[b] = "callback", sso'[b] \in told'
               PROVE  \E r \in revoked' : r.sid = sso'[b] /\ r.at = accessClock'
    BY DEF Overtaken
  <2>1. flow[b] = "callback" /\ sso'[b] = sso[b] /\ accessClock' = accessClock
    BY <1>1
  <2>2. CASE sso[b] = sid
    BY <1>3, <1>4, <2>1, <2>2
  <2>3. CASE sso[b] # sid
    <3>1. sso[b] \in told
      BY <1>1, <2>1, <2>3
    <3>2. PICK r \in revoked : r.sid = sso[b] /\ r.at = accessClock
      BY <2>1, <3>1 DEF AInv, Overtaken
    <3>3. r \in revoked'
      BY <1>2, <1>5, <2>3, <3>2
    <3> QED BY <2>1, <3>2, <3>3
  <2> QED BY <2>2, <2>3
<1>9. Remembered'
  <2> SUFFICES ASSUME NEW b \in Visitors, cookie[b].sid \in told' PROVE Outlives(cookie[b])'
    BY <1>1 DEF Remembered
  <2>1. cookie' = cookie /\ accessClock' = accessClock
    BY <1>1
  <2>2. cookie[b].expires \in Nat /\ cookie[b].expires <= accessClock + SessionTtl
    BY DEF AInv, AccessTypes, Cookie, Aging
  <2>3. CASE cookie[b].sid = sid
    BY <1>3, <1>4, <2>1, <2>2, <2>3 DEF Outlives
  <2>4. CASE cookie[b].sid # sid
    <3>1. Outlives(cookie[b])
      BY <1>1, <2>4 DEF AInv, Remembered
    <3>2. CASE cookie[b].expires < accessClock
      BY <2>1, <3>2 DEF Outlives
    <3>3. CASE ~ (cookie[b].expires < accessClock)
      <4>1. PICK r \in revoked : r.sid = cookie[b].sid /\ cookie[b].expires <= r.at + SessionTtl
        BY <3>1, <3>3 DEF Outlives
      <4>2. r.at \in Nat
        BY DEF AInv, AccessTypes
      <4>3. r.at + SessionTtl >= accessClock
        BY <1>2, <2>2, <3>3, <4>1, <4>2
      <4>4. r \in revoked'
        BY <1>5, <2>4, <4>1, <4>3
      <4> QED BY <2>1, <4>1, <4>4 DEF Outlives
    <3> QED BY <3>2, <3>3
  <2> QED BY <2>3, <2>4
<1> QED BY <1>6, <1>7, <1>8, <1>9 DEF AInv

LEMMA AccessTickStep == ASSUME Auth!AccessAssumption, AInv, Auth!Tick PROVE AInv'
<1>1. /\ accessClock < MaxAccessTime /\ accessClock' = accessClock + 1 /\ attempts' = 0 /\ retries' = [b \in Visitors |-> 0]
      /\ UNCHANGED <<flow, cookie, sso, sids, told, revoked>>
      /\ \A b \in Visitors : flow[b] # "callback"
  BY DEF Auth!Tick
<1>2. AccessTypes'
  BY <1>1 DEF AInv, AccessTypes, Auth!AccessAssumption
<1>3. Overtaken'
  BY <1>1 DEF Overtaken
<1>4. ASSUME NEW b \in Visitors
      PROVE  /\ cookie[b].expires <= accessClock' + SessionTtl
             /\ cookie[b].expires < accessClock => cookie[b].expires < accessClock'
  <2>1. cookie[b].expires \in Nat /\ accessClock \in Nat /\ SessionTtl \in Nat /\ cookie[b].expires <= accessClock + SessionTtl
    BY DEF AInv, AccessTypes, Cookie, Aging, Auth!AccessAssumption
  <2> QED BY <1>1, <2>1
<1>5. Aging'
  BY <1>1, <1>4 DEF Aging
<1>6. Remembered'
  BY <1>1, <1>4 DEF AInv, Remembered, Outlives
<1> QED BY <1>2, <1>3, <1>5, <1>6 DEF AInv

LEMMA RestartStep == ASSUME Auth!AccessAssumption, AInv, Auth!Restart PROVE AInv'
<1>1. /\ told' = {} /\ revoked' = {} /\ attempts' = 0
      /\ sso' = [b \in Visitors |-> IF sso[b] \in told THEN 0 ELSE sso[b]]
      /\ cookie' \in {cookie, [b \in Visitors |-> Auth!NoSession]}
      /\ UNCHANGED <<accessClock, flow, retries, sids>>
  BY DEF Auth!Restart
<1>2. Auth!NoSession \in Cookie /\ Auth!NoSession.expires = 0
  BY DEF Auth!NoSession, Cookie
<1>3. AccessTypes'
  BY <1>1, <1>2 DEF AInv, AccessTypes
<1>4. Aging'
  BY <1>1, <1>2 DEF AInv, AccessTypes, Aging, Auth!AccessAssumption
<1> QED BY <1>1, <1>3, <1>4 DEF AInv, Overtaken, Remembered

LEMMA AccessHolds == ASSUME Auth!AccessAssumption, AInv, [Auth!Next]_(Auth!accessVars) PROVE AInv'
<1>1. ASSUME NEW t \in Tokens, Auth!CreateToken(t) \/ Auth!RevokeToken(t)
      PROVE  UNCHANGED <<accessClock, flow, retries, cookie, sso, sids, told, revoked, attempts>>
  BY <1>1 DEF Auth!CreateToken, Auth!RevokeToken
<1>2. CASE UNCHANGED <<accessClock, flow, retries, cookie, sso, sids, told, revoked, attempts>>
  BY <1>2 DEF AInv, AccessTypes, Aging, Overtaken, Remembered, Outlives
<1>3. CASE UNCHANGED Auth!accessVars
  BY <1>2, <1>3 DEF Auth!accessVars
<1> QED
  BY <1>1, <1>2, <1>3, OtherLoginSteps, AtKeycloakStep, LogInStep, LogOutStep, BackchannelStep, AccessTickStep,
     RestartStep DEF Auth!Next, Auth!Callback

LEMMA AccessInvariant ==
  ASSUME Auth!AccessAssumption PROVE Auth!Init /\ [][Auth!Next]_(Auth!accessVars) => []AInv
<1>1. Auth!Init => AInv
  BY AccessInit
<1>2. AInv /\ [Auth!Next]_(Auth!accessVars) => AInv'
  BY AccessHolds
<1> QED BY <1>1, <1>2, PTL

\* Once Keycloak has told this process that a session is over, or a token has been revoked, no request
\* that presents it is let in (auth.py's require and current_session), however logins,
\* callbacks, logouts, restarts and requests interleave, and for any lifetime of a session.
THEOREM EndedSessionsStayOut == ASSUME Auth!AccessAssumption PROVE Auth!Spec => []Auth!EndedStaysOut
<1>1. AInv => Auth!EndedStaysOut
  BY EndedImplied
<1> QED BY <1>1, AccessInvariant, PTL DEF Auth!Spec

\* The cookies, the pages, the sessions of Keycloak and the tokens keep their types.
THEOREM AccessTyped == ASSUME Auth!AccessAssumption PROVE Auth!Spec => []Auth!TypeOK
<1>1. AInv => Auth!TypeOK
  BY AccessTypesImplied
<1> QED BY <1>1, AccessInvariant, PTL DEF Auth!Spec

-------------------------------------------------------------------------------
(***************************************************************************)
(* DnsCache: an address is in one of three places while it is looked up:   *)
(* asked for by a page that has not submitted it yet, in the queue of the  *)
(* pool, or with a worker.  The invariant counts the three together and    *)
(* says that the count is one exactly when the address is marked.          *)
(***************************************************************************)
\* The three places where a lookup of an address can be.
Unsubmitted(a) == {p \in Pages : a \in asking[p].submit}
At(q, a) == {i \in DOMAIN q : q[i] = a}
Queued(a) == At(lookups, a)
Busy(a) == {w \in Workers : running[w] = a}
Lookups(a) == Cardinality(Unsubmitted(a)) + Cardinality(Queued(a)) + Cardinality(Busy(a))

Asking == [at : {"idle", "submit", "wait", "forward"}, submit : SUBSET Lookupable, wait : SUBSET Lookupable]

DnsTypes ==
  /\ inflight \subseteq Lookupable
  /\ lookups \in Seq(Addresses \cup {Dns!Forward})
  /\ running \in [Workers -> Addresses \cup {Dns!Forward, Dns!Free}]
  /\ asking \in [Pages -> Asking]
  /\ \A p \in Pages : asking[p].at # "submit" => asking[p].submit = {}

OnceEach == \A a \in Addresses : Lookups(a) = IF a \in inflight THEN 1 ELSE 0

DnsInv == DnsTypes /\ OnceEach

-----------------------------------------------------------------------------
LEMMA LookupsAre == \A a : Dns!Lookups(a) = Lookups(a)
BY DEF Dns!Lookups, Lookups, Unsubmitted, Queued, At, Busy, Dns!Cardinality, Cardinality

LEMMA InFlightImplied == ASSUME DnsInv PROVE Dns!InFlightIsLookedUp
BY LookupsAre DEF DnsInv, OnceEach, Dns!InFlightIsLookedUp

LEMMA PlacesAreFinite ==
  ASSUME Dns!DnsAssumption, DnsTypes, NEW a
  PROVE  /\ IsFiniteSet(Unsubmitted(a)) /\ Cardinality(Unsubmitted(a)) \in Nat
         /\ IsFiniteSet(Queued(a)) /\ Cardinality(Queued(a)) \in Nat
         /\ IsFiniteSet(Busy(a)) /\ Cardinality(Busy(a)) \in Nat
<1>1. IsFiniteSet(Pages) /\ IsFiniteSet(Workers)
  BY DEF Dns!DnsAssumption, Dns!IsFiniteSet, IsFiniteSet
<1>2. IsFiniteSet(DOMAIN lookups)
  <2>1. DOMAIN lookups = 1..Len(lookups) /\ Len(lookups) \in Int /\ 1 \in Int
    BY DEF DnsTypes
  <2> QED BY <2>1, FS_Interval
<1>3. Unsubmitted(a) \in SUBSET Pages /\ Queued(a) \in SUBSET DOMAIN lookups /\ Busy(a) \in SUBSET Workers
  BY DEF Unsubmitted, Queued, At, Busy
<1>4. IsFiniteSet(Unsubmitted(a)) /\ IsFiniteSet(Queued(a)) /\ IsFiniteSet(Busy(a))
  BY <1>1, <1>2, <1>3, FS_Subset
<1> QED BY <1>4, FS_CardinalityType


\* What is appended to a sequence, or taken from it, is in it once more, or less.
LEMMA AtAppend ==
  ASSUME NEW S, NEW q \in Seq(S), NEW x \in S, NEW a, IsFiniteSet(At(q, a))
  PROVE  Cardinality(At(Append(q, x), a)) = Cardinality(At(q, a)) + (IF x = a THEN 1 ELSE 0)
<1>1. DOMAIN q = 1..Len(q) /\ Len(q) \in Nat /\ Len(q) + 1 \notin At(q, a)
  BY DEF At
<1>2. DOMAIN Append(q, x) = 1..(Len(q) + 1) /\ \A i \in 1..(Len(q) + 1) : Append(q, x)[i] = IF i <= Len(q) THEN q[i] ELSE x
  BY <1>1
<1>3. Cardinality(At(q, a)) \in Nat
  BY FS_CardinalityType
<1>4. CASE x = a
  <2>1. At(Append(q, x), a) = At(q, a) \cup {Len(q) + 1}
    BY <1>1, <1>2, <1>4 DEF At
  <2> QED BY <1>1, <1>4, <2>1, FS_AddElement
<1>5. CASE x # a
  <2>1. At(Append(q, x), a) = At(q, a)
    BY <1>1, <1>2, <1>5 DEF At
  <2> QED BY <1>3, <1>5, <2>1
<1> QED BY <1>4, <1>5

LEMMA AtTail ==
  ASSUME NEW S, NEW q \in Seq(S), q # <<>>, NEW a, IsFiniteSet(At(q, a))
  PROVE  Cardinality(At(Tail(q), a)) = Cardinality(At(q, a)) - (IF Head(q) = a THEN 1 ELSE 0)
<1> DEFINE rest == At(q, a) \ {1}
<1> DEFINE before == At(Tail(q), a)
<1> DEFINE shift == [i \in before |-> i + 1]
<1>1. DOMAIN q = 1..Len(q) /\ Len(q) \in Nat \ {0} /\ Head(q) = q[1]
  BY DEF At
<1>2. DOMAIN Tail(q) = 1..(Len(q) - 1) /\ \A i \in 1..(Len(q) - 1) : Tail(q)[i] = q[i + 1]
  BY <1>1
<1>3. before = {i \in 1..(Len(q) - 1) : q[i + 1] = a}
  BY <1>2 DEF At
<1>4. rest = {i \in 2..Len(q) : q[i] = a}
  BY <1>1 DEF At
<1>5. shift \in Bijection(before, rest)
  <2>1. shift \in [before -> rest]
    BY <1>1, <1>3, <1>4
  <2>2. \A i, j \in before : shift[i] = shift[j] => i = j
    BY <1>1, <1>3
  <2>3. \A j \in rest : \E i \in before : shift[i] = j
    <3> SUFFICES ASSUME NEW j \in rest PROVE \E i \in before : shift[i] = j
      OBVIOUS
    <3>1. j - 1 \in before /\ (j - 1) + 1 = j
      BY <1>1, <1>3, <1>4
    <3>2. shift[j - 1] = j
      BY <3>1
    <3> QED BY <3>1, <3>2
  <2> QED BY <2>1, <2>2, <2>3 DEF Bijection, Injection, Surjection, IsInjective
<1>6. IsFiniteSet(rest) /\ Cardinality(rest) = IF 1 \in At(q, a) THEN Cardinality(At(q, a)) - 1 ELSE Cardinality(At(q, a))
  BY FS_RemoveElement
<1>7. IsFiniteSet(before) /\ Cardinality(before) = Cardinality(rest)
  <2>1. before \in SUBSET At(Tail(q), a) /\ ExistsBijection(before, rest)
    BY <1>5 DEF ExistsBijection
  <2>2. ExistsBijection(rest, before)
    BY <2>1, Fun_ExistsBijSymmetric
  <2> QED BY <1>6, <2>2, FS_Bijection
<1>8. 1 \in At(q, a) <=> Head(q) = a
  BY <1>1 DEF At
<1>9. Cardinality(At(q, a)) \in Nat
  BY FS_CardinalityType
<1> QED BY <1>6, <1>7, <1>8, <1>9

LEMMA DnsInit == ASSUME Dns!DnsAssumption, Dns!Init PROVE DnsInv
<1>1. inflight = {} /\ lookups = <<>> /\ running = [w \in Workers |-> Dns!Free] /\ asking = [p \in Pages |-> Dns!Idle]
  BY DEF Dns!Init
<1>2. Dns!Idle \in Asking /\ Dns!Idle.submit = {}
  BY DEF Dns!Idle, Asking
<1>3. DnsTypes
  BY <1>1, <1>2 DEF DnsTypes
<1>4. ASSUME NEW a \in Addresses PROVE Unsubmitted(a) = {} /\ Queued(a) = {} /\ Busy(a) = {}
  BY <1>1, <1>2 DEF Unsubmitted, Queued, At, Busy, Dns!DnsAssumption
<1>5. ASSUME NEW a \in Addresses PROVE Lookups(a) = 0
  <2>1. Cardinality({}) = 0
    BY FS_EmptySet
  <2> QED BY <1>4, <2>1 DEF Lookups
<1> QED BY <1>1, <1>3, <1>5 DEF DnsInv, OnceEach

LEMMA ReverseManyStep == ASSUME Dns!DnsAssumption, DnsInv, NEW p \in Pages, Dns!ReverseMany(p) PROVE DnsInv'
<1>1. PICK wanted \in SUBSET Addresses :
        /\ asking[p].at = "idle" /\ inflight' = inflight \cup Dns!Pending(wanted)
        /\ asking' = [asking EXCEPT ![p] = [at |-> IF Dns!Pending(wanted) = {} THEN "idle" ELSE "submit",
                                            submit |-> Dns!Pending(wanted), wait |-> Dns!Pending(wanted)]]
        /\ UNCHANGED <<names, lookups, running>>
  BY DEF Dns!ReverseMany
<1>0. Dns!Pending(wanted) \in SUBSET Lookupable /\ Dns!Pending(wanted) \cap inflight = {}
  BY DEF Dns!Pending
<1>2. PICK unseen \in SUBSET Lookupable : unseen = Dns!Pending(wanted) /\ unseen \cap inflight = {}
  BY <1>0
<1>3. /\ inflight' = inflight \cup unseen
      /\ asking'[p].submit = unseen /\ asking[p].submit = {}
      /\ \A r \in Pages : r # p => asking'[r] = asking[r]
  BY <1>1, <1>2 DEF DnsInv, DnsTypes
<1>4. DnsTypes'
  <2>1. [at |-> IF unseen = {} THEN "idle" ELSE "submit", submit |-> unseen, wait |-> unseen] \in Asking
    BY DEF Asking
  <2>2. asking' \in [Pages -> Asking] /\ \A r \in Pages : asking'[r].at # "submit" => asking'[r].submit = {}
    BY <1>1, <1>2, <2>1 DEF DnsInv, DnsTypes
  <2> QED BY <1>1, <1>3, <2>2 DEF DnsInv, DnsTypes
<1>5. ASSUME NEW a \in Addresses PROVE Lookups(a)' = IF a \in inflight' THEN 1 ELSE 0
  <2>1. Queued(a)' = Queued(a) /\ Busy(a)' = Busy(a)
    BY <1>1 DEF Queued, Busy
  <2>2. Unsubmitted(a)' = IF a \in unseen THEN Unsubmitted(a) \cup {p} ELSE Unsubmitted(a)
    BY <1>3 DEF Unsubmitted
  <2>3. p \notin Unsubmitted(a)
    BY <1>3 DEF Unsubmitted
  <2>4. Cardinality(Unsubmitted(a)') = IF a \in unseen THEN Cardinality(Unsubmitted(a)) + 1 ELSE Cardinality(Unsubmitted(a))
    BY <2>2, <2>3, FS_AddElement, PlacesAreFinite DEF DnsInv
  <2>5. Lookups(a) = IF a \in inflight THEN 1 ELSE 0
    BY DEF DnsInv, OnceEach
  <2>6. a \in unseen => a \notin inflight
    BY <1>2
  <2>7. Lookups(a)' = Cardinality(Unsubmitted(a)') + Cardinality(Queued(a)) + Cardinality(Busy(a))
    BY <2>1 DEF Lookups
  <2> QED BY <1>3, <2>4, <2>5, <2>6, <2>7, PlacesAreFinite DEF Lookups, DnsInv
<1> QED BY <1>4, <1>5 DEF DnsInv, OnceEach

LEMMA SubmitStep == ASSUME Dns!DnsAssumption, DnsInv, NEW p \in Pages, Dns!Submit(p) PROVE DnsInv'
<1>1. PICK s \in asking[p].submit :
        /\ lookups' = Append(lookups, s)
        /\ asking' = [asking EXCEPT ![p].submit = @ \ {s}, ![p].at = IF asking[p].submit = {s} THEN "wait" ELSE "submit"]
        /\ UNCHANGED <<names, inflight, running>>
  BY DEF Dns!Submit
<1>2. asking[p] \in Asking /\ s \in Addresses
  BY DEF DnsInv, DnsTypes, Asking, Dns!DnsAssumption
<1>3. /\ asking'[p] = [at |-> IF asking[p].submit = {s} THEN "wait" ELSE "submit",
                       submit |-> asking[p].submit \ {s}, wait |-> asking[p].wait]
      /\ \A r \in Pages : r # p => asking'[r] = asking[r]
      /\ DOMAIN asking' = Pages
  BY <1>1, <1>2 DEF DnsInv, DnsTypes, Asking
<1>4. DnsTypes'
  <2>1. asking'[p] \in Asking /\ (asking'[p].at # "submit" => asking'[p].submit = {})
    BY <1>2, <1>3 DEF Asking
  <2>2. asking' \in [Pages -> Asking] /\ \A r \in Pages : asking'[r].at # "submit" => asking'[r].submit = {}
    BY <1>1, <1>3, <2>1 DEF DnsInv, DnsTypes
  <2>3. lookups' \in Seq(Addresses \cup {Dns!Forward})
    BY <1>1, <1>2 DEF DnsInv, DnsTypes
  <2> QED BY <1>1, <2>2, <2>3 DEF DnsInv, DnsTypes
<1>5. ASSUME NEW a \in Addresses PROVE Lookups(a)' = IF a \in inflight' THEN 1 ELSE 0
  <2>1. Busy(a)' = Busy(a) /\ inflight' = inflight
    BY <1>1 DEF Busy
  <2>2. Unsubmitted(a)' = IF a = s THEN Unsubmitted(a) \ {p} ELSE Unsubmitted(a)
    BY <1>3 DEF Unsubmitted
  <2>3. a = s => p \in Unsubmitted(a)
    BY <1>1 DEF Unsubmitted
  <2>4. Cardinality(Unsubmitted(a)') = IF a = s THEN Cardinality(Unsubmitted(a)) - 1 ELSE Cardinality(Unsubmitted(a))
    BY <2>2, <2>3, FS_RemoveElement, PlacesAreFinite DEF DnsInv
  <2>5. Cardinality(Queued(a)') = Cardinality(Queued(a)) + (IF s = a THEN 1 ELSE 0)
    <3>1. Queued(a)' = At(Append(lookups, s), a) /\ lookups \in Seq(Addresses \cup {Dns!Forward}) /\ IsFiniteSet(At(lookups, a))
      BY <1>1, PlacesAreFinite DEF Queued, DnsInv, DnsTypes
    <3> QED BY <1>2, <3>1, AtAppend DEF Queued
  <2>6. Lookups(a)' = Cardinality(Unsubmitted(a)') + Cardinality(Queued(a)') + Cardinality(Busy(a))
    BY <2>1 DEF Lookups
  <2>7. Lookups(a)' = Lookups(a)
    BY <2>4, <2>5, <2>6, PlacesAreFinite DEF Lookups, DnsInv
  <2> QED BY <2>1, <2>7 DEF DnsInv, OnceEach
<1> QED BY <1>4, <1>5 DEF DnsInv, OnceEach

\* A step that changes no lookup, but what pages wait for, or the search for a name.
LEMMA NoLookupStep ==
  ASSUME Dns!DnsAssumption, DnsInv, DnsTypes', inflight' = inflight,
         \A r \in Pages : asking'[r].submit = asking[r].submit,
         \A a \in Addresses : Cardinality(Queued(a)') = Cardinality(Queued(a)) /\ Busy(a)' = Busy(a)
  PROVE  DnsInv'
<1>1. ASSUME NEW a \in Addresses PROVE Lookups(a)' = Lookups(a)
  <2>1. Unsubmitted(a)' = Unsubmitted(a)
    BY DEF Unsubmitted
  <2> QED BY <2>1 DEF Lookups
<1> QED BY <1>1 DEF DnsInv, OnceEach

LEMMA GiveUpStep == ASSUME Dns!DnsAssumption, DnsInv, NEW p \in Pages, Dns!GiveUp(p) PROVE DnsInv'
<1>1. /\ asking[p].at \in {"wait", "forward"} /\ asking' = [asking EXCEPT ![p] = Dns!Idle]
      /\ UNCHANGED <<names, inflight, lookups, running>>
  BY DEF Dns!GiveUp
<1>2. Dns!Idle \in Asking /\ Dns!Idle.submit = {} /\ asking[p].submit = {}
  BY <1>1 DEF Dns!Idle, Asking, DnsInv, DnsTypes
<1>3. DnsTypes'
  BY <1>1, <1>2 DEF DnsInv, DnsTypes
<1>4. \A r \in Pages : asking'[r].submit = asking[r].submit
  BY <1>1, <1>2 DEF DnsInv, DnsTypes
<1>5. \A a \in Addresses : Cardinality(Queued(a)') = Cardinality(Queued(a)) /\ Busy(a)' = Busy(a)
  BY <1>1 DEF Queued, Busy
<1> QED BY <1>1, <1>3, <1>4, <1>5, NoLookupStep

LEMMA ForwardStep == ASSUME Dns!DnsAssumption, DnsInv, NEW p \in Pages, Dns!ForwardLookup(p) PROVE DnsInv'
<1>1. /\ asking[p].at = "idle" /\ asking' = [asking EXCEPT ![p] = [Dns!Idle EXCEPT !.at = "forward"]]
      /\ lookups' = Append(lookups, Dns!Forward) /\ UNCHANGED <<names, inflight, running>>
  BY DEF Dns!ForwardLookup
<1>0. [Dns!Idle EXCEPT !.at = "forward"] = [at |-> "forward", submit |-> {}, wait |-> {}]
  BY DEF Dns!Idle
<1>2. PICK new \in Asking : new = [Dns!Idle EXCEPT !.at = "forward"] /\ new.submit = {}
  BY <1>0 DEF Asking
<1>3. asking[p].submit = {} /\ lookups \in Seq(Addresses \cup {Dns!Forward}) /\ Dns!Forward \notin Addresses
  BY <1>1 DEF DnsInv, DnsTypes, Dns!DnsAssumption
<1>4. asking' \in [Pages -> Asking] /\ \A r \in Pages : asking'[r].at # "submit" => asking'[r].submit = {}
  BY <1>1, <1>2 DEF DnsInv, DnsTypes
<1>5. lookups' \in Seq(Addresses \cup {Dns!Forward})
  BY <1>1, <1>3
<1>6. DnsTypes'
  BY <1>1, <1>4, <1>5 DEF DnsInv, DnsTypes
<1>7. \A r \in Pages : asking'[r].submit = asking[r].submit
  BY <1>1, <1>2, <1>3 DEF DnsInv, DnsTypes
<1>8. ASSUME NEW a \in Addresses PROVE Cardinality(Queued(a)') = Cardinality(Queued(a)) /\ Busy(a)' = Busy(a)
  <2>1. IsFiniteSet(At(lookups, a)) /\ Cardinality(At(lookups, a)) \in Nat
    BY PlacesAreFinite DEF Queued, DnsInv
  <2>2. Cardinality(At(Append(lookups, Dns!Forward), a)) = Cardinality(At(lookups, a))
    BY <1>3, <2>1, AtAppend
  <2> QED BY <1>1, <2>2 DEF Queued, Busy
<1> QED BY <1>1, <1>6, <1>7, <1>8, NoLookupStep

LEMMA StartStep == ASSUME Dns!DnsAssumption, DnsInv, NEW w \in Workers, Dns!Start(w) PROVE DnsInv'
<1>1. /\ running[w] = Dns!Free /\ lookups # <<>> /\ running' = [running EXCEPT ![w] = Head(lookups)]
      /\ lookups' = Tail(lookups) /\ UNCHANGED <<names, inflight, asking>>
  BY DEF Dns!Start
<1>2. lookups \in Seq(Addresses \cup {Dns!Forward}) /\ Head(lookups) \in Addresses \cup {Dns!Forward}
      /\ Tail(lookups) \in Seq(Addresses \cup {Dns!Forward}) /\ Dns!Free \notin Addresses
  BY <1>1 DEF DnsInv, DnsTypes, Dns!DnsAssumption
<1>3. running \in [Workers -> Addresses \cup {Dns!Forward, Dns!Free}]
  BY DEF DnsInv, DnsTypes
<1>4. running' \in [Workers -> Addresses \cup {Dns!Forward, Dns!Free}]
      /\ \A v \in Workers : running'[v] = IF v = w THEN Head(lookups) ELSE running[v]
  BY <1>1, <1>2, <1>3
<1>5. DnsTypes'
  BY <1>1, <1>2, <1>4 DEF DnsInv, DnsTypes
<1>6. ASSUME NEW a \in Addresses PROVE Lookups(a)' = Lookups(a)
  <2>1. Unsubmitted(a)' = Unsubmitted(a)
    BY <1>1 DEF Unsubmitted
  <2>2. Cardinality(Queued(a)') = Cardinality(Queued(a)) - (IF Head(lookups) = a THEN 1 ELSE 0)
    <3>1. Queued(a)' = At(Tail(lookups), a) /\ IsFiniteSet(At(lookups, a))
      BY <1>1, PlacesAreFinite DEF Queued, DnsInv
    <3> QED BY <1>1, <1>2, <3>1, AtTail DEF Queued
  <2>3. Busy(a)' = IF Head(lookups) = a THEN Busy(a) \cup {w} ELSE Busy(a)
    BY <1>1, <1>2, <1>4 DEF Busy
  <2>4. w \notin Busy(a)
    BY <1>1, <1>2 DEF Busy
  <2>5. Cardinality(Busy(a)') = Cardinality(Busy(a)) + (IF Head(lookups) = a THEN 1 ELSE 0)
    <3>1. IsFiniteSet(Busy(a)) /\ Cardinality(Busy(a)) \in Nat
      BY PlacesAreFinite DEF DnsInv
    <3>2. CASE Head(lookups) = a
      BY <2>3, <2>4, <3>1, <3>2, FS_AddElement
    <3>3. CASE Head(lookups) # a
      BY <2>3, <3>1, <3>3
    <3> QED BY <3>2, <3>3
  <2>6. Lookups(a)' = Cardinality(Unsubmitted(a)) + Cardinality(Queued(a)') + Cardinality(Busy(a)')
    BY <2>1 DEF Lookups
  <2> QED BY <2>2, <2>5, <2>6, PlacesAreFinite DEF Lookups, DnsInv
<1> QED BY <1>1, <1>5, <1>6 DEF DnsInv, OnceEach

\* Whoever hears the answer waits, and has nothing left to submit.
LEMMA ToldKeeps ==
  ASSUME DnsTypes, NEW p \in Pages, NEW a
  PROVE  /\ Dns!Told(p, a) \in Asking /\ Dns!Told(p, a).submit = asking[p].submit
         /\ Dns!Told(p, a).at # "submit" => Dns!Told(p, a).submit = {}
<1>1. asking[p] \in Asking /\ (asking[p].at # "submit" => asking[p].submit = {})
  BY DEF DnsTypes
<1>2. CASE asking[p].at # "wait" \/ a \notin asking[p].wait
  BY <1>1, <1>2 DEF Dns!Told
<1>3. CASE asking[p].at = "wait" /\ asking[p].wait = {a}
  BY <1>1, <1>3 DEF Dns!Told, Dns!Idle, Asking
<1>4. CASE asking[p].at = "wait" /\ a \in asking[p].wait /\ asking[p].wait # {a}
  <2>1. Dns!Told(p, a) = [asking[p] EXCEPT !.wait = @ \ {a}]
    BY <1>4 DEF Dns!Told
  <2> QED BY <1>1, <1>4, <2>1 DEF Asking
<1> QED BY <1>2, <1>3, <1>4

LEMMA ResolveStep == ASSUME Dns!DnsAssumption, DnsInv, NEW w \in Workers, Dns!Resolve(w) PROVE DnsInv'
<1>1. PICK s \in Addresses :
        /\ running[w] = s /\ running' = [running EXCEPT ![w] = Dns!Free] /\ inflight' = inflight \ {s}
        /\ asking' = [p \in Pages |-> Dns!Told(p, s)] /\ lookups' = lookups
  BY DEF Dns!Resolve
<1>2. running \in [Workers -> Addresses \cup {Dns!Forward, Dns!Free}] /\ Dns!Free \notin Addresses
  BY DEF DnsInv, DnsTypes, Dns!DnsAssumption
<1>3. running' \in [Workers -> Addresses \cup {Dns!Forward, Dns!Free}]
      /\ \A v \in Workers : running'[v] = IF v = w THEN Dns!Free ELSE running[v]
  BY <1>1, <1>2
<1>4. \A p \in Pages : /\ asking'[p] = Dns!Told(p, s) /\ asking'[p] \in Asking /\ asking'[p].submit = asking[p].submit
                       /\ asking'[p].at # "submit" => asking'[p].submit = {}
  BY <1>1, ToldKeeps DEF DnsInv
<1>5. DnsTypes'
  BY <1>1, <1>3, <1>4 DEF DnsInv, DnsTypes
<1>6. ASSUME NEW a \in Addresses PROVE Lookups(a)' = IF a \in inflight' THEN 1 ELSE 0
  <2>1. Unsubmitted(a)' = Unsubmitted(a) /\ Queued(a)' = Queued(a)
    BY <1>1, <1>4 DEF Unsubmitted, Queued
  <2>2. Busy(a)' = (IF a = s THEN Busy(a) \ {w} ELSE Busy(a)) /\ (a = s => w \in Busy(a))
    BY <1>1, <1>2, <1>3 DEF Busy
  <2>3. Cardinality(Busy(a)') = IF a = s THEN Cardinality(Busy(a)) - 1 ELSE Cardinality(Busy(a))
    BY <2>2, FS_RemoveElement, PlacesAreFinite DEF DnsInv
  <2>4. Cardinality(Busy(a)') \in Nat
    <3>1. IsFiniteSet(Busy(a)')
      BY <2>2, FS_RemoveElement, PlacesAreFinite DEF DnsInv
    <3> QED BY <3>1, FS_CardinalityType
  <2>5. Lookups(a) = IF a \in inflight THEN 1 ELSE 0
    BY DEF DnsInv, OnceEach
  <2>6. Lookups(a)' = Cardinality(Unsubmitted(a)) + Cardinality(Queued(a)) + Cardinality(Busy(a)')
    BY <2>1 DEF Lookups
  <2>7. CASE a = s
    <3>1. a \notin inflight'
      BY <1>1, <2>7
    <3> QED BY <2>3, <2>4, <2>5, <2>6, <2>7, <3>1, PlacesAreFinite DEF Lookups, DnsInv
  <2>8. CASE a # s
    <3>1. a \in inflight' <=> a \in inflight
      BY <1>1, <2>8
    <3> QED BY <2>3, <2>5, <2>6, <2>8, <3>1 DEF Lookups
  <2> QED BY <2>7, <2>8
<1> QED BY <1>5, <1>6 DEF DnsInv, OnceEach

LEMMA ResolveForwardStep == ASSUME Dns!DnsAssumption, DnsInv, NEW w \in Workers, Dns!ResolveForward(w) PROVE DnsInv'
<1>1. running[w] = Dns!Forward /\ running' = [running EXCEPT ![w] = Dns!Free] /\ UNCHANGED <<names, inflight, lookups, asking>>
  BY DEF Dns!ResolveForward
<1>2. running \in [Workers -> Addresses \cup {Dns!Forward, Dns!Free}] /\ {Dns!Forward, Dns!Free} \cap Addresses = {}
  BY DEF DnsInv, DnsTypes, Dns!DnsAssumption
<1>3. DnsTypes'
  BY <1>1, <1>2 DEF DnsInv, DnsTypes
<1>4. \A a \in Addresses : Cardinality(Queued(a)') = Cardinality(Queued(a)) /\ Busy(a)' = Busy(a)
  BY <1>1, <1>2 DEF Queued, Busy
<1> QED BY <1>1, <1>3, <1>4, NoLookupStep

LEMMA DnsHolds == ASSUME Dns!DnsAssumption, DnsInv, [Dns!Next]_(Dns!dnsVars) PROVE DnsInv'
<1>1. CASE UNCHANGED <<inflight, lookups, running, asking>>
  BY <1>1 DEF DnsInv, DnsTypes, OnceEach, Lookups, Unsubmitted, Queued, Busy
<1>2. CASE Dns!Tick \/ UNCHANGED Dns!dnsVars
  BY <1>1, <1>2 DEF Dns!Tick, Dns!dnsVars
<1> QED
  BY <1>2, ReverseManyStep, SubmitStep, GiveUpStep, ForwardStep, StartStep, ResolveStep, ResolveForwardStep DEF Dns!Next

LEMMA DnsInvariant ==
  ASSUME Dns!DnsAssumption PROVE Dns!Init /\ [][Dns!Next]_(Dns!dnsVars) => []DnsInv
<1>1. Dns!Init => DnsInv
  BY DnsInit
<1>2. DnsInv /\ [Dns!Next]_(Dns!dnsVars) => DnsInv'
  BY DnsHolds
<1> QED BY <1>1, <1>2, PTL

\* An address is marked in flight exactly while one lookup of it is under way (dns_cache.py's
\* _inflight), for any pages, any pool and any length of the pool's queue: nobody looks up
\* the same address twice at once, and no mark is left that keeps it from being looked up.
THEOREM LookupsAreDoneOnce == ASSUME Dns!DnsAssumption PROVE Dns!Spec => []Dns!InFlightIsLookedUp
<1>1. DnsInv => Dns!InFlightIsLookedUp
  BY InFlightImplied
<1> QED BY <1>1, DnsInvariant, PTL DEF Dns!Spec

-----------------------------------------------------------------------------
(* The cache keeps to its bound: a full one drops at least one entry, which  *)
(* it can because the entries that run out first can be told.                *)

Entry == [found : {"nothing", "name", "none"}, left : 0..Positive]
Bounded(S) == IsFiniteSet(S) /\ Cardinality(S) <= MaxEntries
NamesInv == names \in [Addresses -> Entry] /\ Bounded(Dns!Cached)

\* Of finitely many elements one has a value that none exceeds.
LEMMA LargestExists ==
  ASSUME NEW S, IsFiniteSet(S), S # {}, NEW f \in [S -> Int]
  PROVE  \E x \in S : \A y \in S : f[y] <= f[x]
<1> DEFINE above(x) == {y \in S : f[y] > f[x]}
<1>1. IsWellFoundedOn(StrictSubsetOrdering(S), SUBSET S)
  BY FS_StrictSubsetOrderingWellFounded, FS_FiniteSubsetsOfFinite
<1>2. {above(x) : x \in S} \subseteq SUBSET S /\ {above(x) : x \in S} # {}
  <2>1. \A x \in S : above(x) \in SUBSET S
    OBVIOUS
  <2>2. PICK x \in S : TRUE
    OBVIOUS
  <2>3. above(x) \in {above(z) : z \in S}
    BY <2>2
  <2> QED BY <2>1, <2>3
<1>3. \E u \in {above(x) : x \in S} : \A v \in {above(x) : x \in S} : <<v, u>> \notin StrictSubsetOrdering(S)
  BY <1>1, <1>2, WFMin
<1>4. PICK x \in S : \A z \in S : <<above(z), above(x)>> \notin StrictSubsetOrdering(S)
  BY <1>3
<1>5. ASSUME NEW z \in S, f[z] > f[x] PROVE FALSE
  <2>1. above(z) \subseteq above(x) /\ z \in above(x) /\ z \notin above(z)
    BY <1>5
  <2>2. <<above(z), above(x)>> \in StrictSubsetOrdering(S)
    BY <2>1 DEF StrictSubsetOrdering
  <2> QED BY <1>4, <2>2
<1> QED BY <1>5

\* Of finitely many elements any number can be told that have the least values.
LEMMA LeastExist ==
  ASSUME NEW S, IsFiniteSet(S), NEW f \in [S -> Int], NEW n \in Nat, n <= Cardinality(S)
  PROVE  \E s \in SUBSET S : Cardinality(s) = n /\ \A a \in s, b \in S \ s : f[a] <= f[b]
<1> DEFINE low == {s \in SUBSET S : n <= Cardinality(s) /\ \A a \in s, b \in S \ s : f[a] <= f[b]}
<1>1. IsWellFoundedOn(StrictSubsetOrdering(S), SUBSET S)
  BY FS_StrictSubsetOrderingWellFounded, FS_FiniteSubsetsOfFinite
<1>2. low \subseteq SUBSET S /\ low # {}
  <2>1. S \in low
    OBVIOUS
  <2> QED BY <2>1
<1>3. PICK s \in low : \A t \in low : <<t, s>> \notin StrictSubsetOrdering(S)
  BY <1>1, <1>2, WFMin
<1>4. IsFiniteSet(s) /\ Cardinality(s) \in Nat /\ s \in SUBSET S
  BY FS_Subset, FS_CardinalityType
<1>5. ASSUME Cardinality(s) # n PROVE FALSE
  <2>1. s # {}
    <3>1. Cardinality({}) = 0
      BY FS_EmptySet
    <3> QED BY <1>4, <1>5, <3>1
  <2>2. PICK x \in s : \A y \in s : f[y] <= f[x]
    <3> DEFINE g == [y \in s |-> f[y]]
    <3>1. g \in [s -> Int]
      BY <1>4
    <3>2. \E x \in s : \A y \in s : g[y] <= g[x]
      BY <1>4, <2>1, <3>1, LargestExists
    <3> QED BY <3>2
  <2>3. Cardinality(s \ {x}) = Cardinality(s) - 1
    BY <1>4, FS_RemoveElement
  <2>4. \A a \in s \ {x}, b \in S \ (s \ {x}) : f[a] <= f[b]
    BY <1>4, <2>2
  <2>5. s \ {x} \in low
    BY <1>4, <1>5, <2>3, <2>4
  <2>6. <<s \ {x}, s>> \in StrictSubsetOrdering(S)
    BY <1>4, <2>2 DEF StrictSubsetOrdering
  <2> QED BY <1>3, <2>5, <2>6
<1> QED BY <1>4, <1>5

LEMMA DnsTypesImplied == ASSUME DnsInv, NamesInv PROVE Dns!TypeOK
<1>1. \A a \in Addresses : names[a].found \in {"nothing", "name", "none"} /\ names[a].left \in 0..Positive
  BY DEF NamesInv, Entry
<1>2. Dns!Cardinality(Dns!Cached) <= MaxEntries
  BY DEF NamesInv, Bounded, Dns!Cardinality, Cardinality
<1>3. inflight \subseteq Lookupable /\ \A i \in DOMAIN lookups : lookups[i] \in Addresses \cup {Dns!Forward}
  BY DEF DnsInv, DnsTypes
<1>4. /\ \A w \in Workers : running[w] \in Addresses \cup {Dns!Forward, Dns!Free}
      /\ \A p \in Pages : asking[p].at \in {"idle", "submit", "wait", "forward"}
  BY DEF DnsInv, DnsTypes, Asking
<1> QED BY <1>1, <1>2, <1>3, <1>4 DEF Dns!TypeOK

LEMMA NamesInit == ASSUME Dns!DnsAssumption, Dns!Init PROVE NamesInv
<1>1. names = [a \in Addresses |-> Dns!Nothing] /\ Positive \in Nat /\ MaxEntries \in Nat
  BY DEF Dns!Init, Dns!DnsAssumption
<1>2. Dns!Nothing \in Entry
  BY <1>1 DEF Dns!Nothing, Entry
<1>3. Dns!Cached = {}
  BY <1>1 DEF Dns!Cached
<1> QED BY <1>1, <1>2, <1>3, FS_EmptySet DEF NamesInv, Bounded

LEMMA TickNames == ASSUME Dns!DnsAssumption, NamesInv, Dns!Tick PROVE NamesInv'
<1>1. names' = [a \in Addresses |-> [names[a] EXCEPT !.left = IF @ > 0 THEN @ - 1 ELSE 0]] /\ Positive \in Nat
  BY DEF Dns!Tick, Dns!DnsAssumption
<1>2. \A a \in Addresses : /\ names[a] \in Entry /\ names'[a] \in Entry
                           /\ names[a] = Dns!Nothing => names'[a] = Dns!Nothing
  <2> SUFFICES ASSUME NEW a \in Addresses
               PROVE  /\ names[a] \in Entry /\ names'[a] \in Entry
                      /\ names[a] = Dns!Nothing => names'[a] = Dns!Nothing
    OBVIOUS
  <2>1. names[a] \in Entry /\ names[a].left \in 0..Positive
    BY DEF NamesInv, Entry
  <2>2. PICK l \in 0..Positive : l = (IF names[a].left > 0 THEN names[a].left - 1 ELSE 0)
    BY <1>1, <2>1
  <2>3. names'[a] = [names[a] EXCEPT !.left = l]
    BY <1>1, <2>2
  <2>4. names'[a] \in Entry
    BY <2>1, <2>3 DEF Entry
  <2>5. ASSUME names[a] = Dns!Nothing PROVE names'[a] = Dns!Nothing
    <3>1. names[a] = [found |-> "nothing", left |-> 0] /\ l = 0
      BY <2>2, <2>5 DEF Dns!Nothing
    <3> QED BY <2>3, <2>5, <3>1
  <2> QED BY <2>1, <2>4, <2>5
<1>3. names' \in [Addresses -> Entry]
  BY <1>1, <1>2
<1>4. Dns!Cached' \in SUBSET Dns!Cached
  BY <1>2 DEF Dns!Cached
<1>5. Bounded(Dns!Cached')
  BY <1>4, FS_Subset, FS_CardinalityType DEF NamesInv, Bounded, Dns!DnsAssumption
<1> QED BY <1>3, <1>5 DEF NamesInv

\* What a full cache keeps leaves room for one entry more.
LEMMA KeptLeavesRoom ==
  ASSUME Dns!DnsAssumption, NamesInv
  PROVE  /\ Dns!Kept \in SUBSET Dns!Cached /\ IsFiniteSet(Dns!Kept)
         /\ Cardinality(Dns!Kept) \in Nat /\ Cardinality(Dns!Kept) < MaxEntries
<1> DEFINE n == MaxEntries \div Share
<1>1. n \in 1..MaxEntries /\ MaxEntries \in Nat
  <2>1. Share \in 1..MaxEntries /\ MaxEntries \in Nat
    BY DEF Dns!DnsAssumption
  <2> QED BY <2>1
<1>2. IsFiniteSet(Dns!Cached) /\ Cardinality(Dns!Cached) \in Nat /\ Cardinality(Dns!Cached) <= MaxEntries
  BY FS_CardinalityType DEF NamesInv, Bounded
<1>3. Dns!Cardinality(Dns!Cached) = Cardinality(Dns!Cached)
  BY DEF Dns!Cardinality, Cardinality
<1>4. CASE Cardinality(Dns!Cached) >= MaxEntries
  <2> DEFINE f == [a \in Dns!Cached |-> names[a].left]
  <2>1. f \in [Dns!Cached -> Int]
    <3>1. \A a \in Dns!Cached : a \in Addresses
      BY DEF Dns!Cached
    <3>2. \A a \in Addresses : names[a].left \in Int
      BY DEF NamesInv, Entry
    <3> QED BY <3>1, <3>2
  <2>2. \E s \in SUBSET Dns!Cached : Cardinality(s) = n /\ \A a \in s, b \in Dns!Cached \ s : f[a] <= f[b]
    <3>1. n \in Nat /\ n <= Cardinality(Dns!Cached)
      BY <1>1, <1>2, <1>4
    <3> HIDE DEF n, f
    <3> QED BY <1>2, <2>1, <3>1, LeastExist
  <2>3. \E s \in Dns!kSubset(n, Dns!Cached) : \A a \in s, b \in Dns!Cached \ s : names[a].left <= names[b].left
    <3>1. PICK s \in SUBSET Dns!Cached : Cardinality(s) = n /\ \A a \in s, b \in Dns!Cached \ s : f[a] <= f[b]
      BY <2>2
    <3>2. Dns!Cardinality(s) = n
      BY <3>1 DEF Dns!Cardinality, Cardinality
    <3>3. s \in Dns!kSubset(n, Dns!Cached)
      BY <3>2 DEF Dns!kSubset
    <3>4. \A a \in s, b \in Dns!Cached \ s : names[a].left <= names[b].left
      BY <3>1
    <3> QED BY <3>3, <3>4
  <2>4. Dns!Soonest(n) \in Dns!kSubset(n, Dns!Cached)
    BY <2>3 DEF Dns!Soonest
  <2>5. Dns!Soonest(n) \in SUBSET Dns!Cached /\ Cardinality(Dns!Soonest(n)) = n
    BY <2>4 DEF Dns!kSubset, Dns!Cardinality, Cardinality
  <2>6. Dns!Kept = Dns!Cached \ Dns!Soonest(n)
    BY <1>3, <1>4 DEF Dns!Kept
  <2>7. Dns!Cached \cap Dns!Soonest(n) = Dns!Soonest(n)
    BY <2>5
  <2>8. Cardinality(Dns!Kept) = Cardinality(Dns!Cached) - n /\ IsFiniteSet(Dns!Kept)
    BY <1>2, <2>5, <2>6, <2>7, FS_Difference
  <2> QED BY <1>1, <1>2, <2>6, <2>8, FS_CardinalityType
<1>5. CASE Cardinality(Dns!Cached) < MaxEntries
  <2>1. Dns!Kept = Dns!Cached
    BY <1>1, <1>2, <1>3, <1>5 DEF Dns!Kept
  <2> QED BY <1>2, <1>5, <2>1
<1> QED BY <1>1, <1>2, <1>4, <1>5

LEMMA ResolveNames == ASSUME Dns!DnsAssumption, NamesInv, NEW w \in Workers, Dns!Resolve(w) PROVE NamesInv'
<1>1. PICK a \in Addresses, found \in {"name", "none"} :
        names' = [b \in Addresses |->
                    IF b = a THEN [found |-> found, left |-> IF found = "name" THEN Positive ELSE Negative]
                    ELSE IF b \in Dns!Kept THEN names[b] ELSE Dns!Nothing]
  BY DEF Dns!Resolve
<1>2. Positive \in Nat /\ Negative \in Nat /\ Negative <= Positive /\ MaxEntries \in Nat
  BY DEF Dns!DnsAssumption
<1>3. PICK new \in Entry : new = [found |-> found, left |-> IF found = "name" THEN Positive ELSE Negative]
  <2>1. PICK left \in 0..Positive : left = (IF found = "name" THEN Positive ELSE Negative)
    BY <1>2
  <2>2. [found |-> found, left |-> left] \in Entry
    BY DEF Entry
  <2> QED BY <2>1, <2>2
<1>4. Dns!Nothing \in Entry
  BY <1>2 DEF Dns!Nothing, Entry
<1>5. names' = [b \in Addresses |-> IF b = a THEN new ELSE IF b \in Dns!Kept THEN names[b] ELSE Dns!Nothing]
  BY <1>1, <1>3
<1>6. names' \in [Addresses -> Entry]
  BY <1>3, <1>4, <1>5 DEF NamesInv
<1>7. Dns!Cached' \in SUBSET (Dns!Kept \cup {a})
  BY <1>5 DEF Dns!Cached
<1>8. Bounded(Dns!Kept \cup {a})
  <2>1. IsFiniteSet(Dns!Kept) /\ Cardinality(Dns!Kept) \in Nat /\ Cardinality(Dns!Kept) < MaxEntries
    BY KeptLeavesRoom
  <2>2. IsFiniteSet(Dns!Kept \cup {a})
        /\ Cardinality(Dns!Kept \cup {a}) = IF a \in Dns!Kept THEN Cardinality(Dns!Kept) ELSE Cardinality(Dns!Kept) + 1
    BY <2>1, FS_AddElement
  <2> QED BY <1>2, <2>1, <2>2 DEF Bounded
<1>9. Bounded(Dns!Cached')
  BY <1>2, <1>7, <1>8, FS_Subset, FS_CardinalityType DEF Bounded
<1> QED BY <1>6, <1>9 DEF NamesInv

LEMMA NamesHold == ASSUME Dns!DnsAssumption, NamesInv, [Dns!Next]_(Dns!dnsVars) PROVE NamesInv'
<1>1. CASE names' = names
  BY <1>1 DEF NamesInv, Bounded, Dns!Cached
<1>2. CASE Dns!Tick
  BY <1>2, TickNames
<1>3. CASE \E w \in Workers : Dns!Resolve(w)
  BY <1>3, ResolveNames
<1>4. ASSUME Dns!Next PROVE Dns!Tick \/ (\E w \in Workers : Dns!Resolve(w)) \/ names' = names
  BY <1>4 DEF Dns!Next, Dns!ReverseMany, Dns!Submit, Dns!GiveUp, Dns!ForwardLookup, Dns!Start, Dns!ResolveForward
<1>5. UNCHANGED Dns!dnsVars => names' = names
  BY DEF Dns!dnsVars
<1> QED BY <1>1, <1>2, <1>3, <1>4, <1>5

LEMMA NamesInvariant ==
  ASSUME Dns!DnsAssumption PROVE Dns!Init /\ [][Dns!Next]_(Dns!dnsVars) => []NamesInv
<1>1. Dns!Init => NamesInv
  BY NamesInit
<1>2. NamesInv /\ [Dns!Next]_(Dns!dnsVars) => NamesInv'
  BY NamesHold
<1> QED BY <1>1, <1>2, PTL

-------------------------------------------------------------------------------
(***************************************************************************)
(* Configuration: while requests do not crowd, one thread is at work (Solo)*)
(* and what it has made sure of at each of its steps (Steady) carries over *)
(* to what holds between requests (Settled): the file is whole if it is    *)
(* there, and a process that has booted knows of it.                       *)
(***************************************************************************)
SettingsFile == [dsn : Dsns \cup {NoDsn}, svc : Nat, is : {"absent", "torn", "whole"}]
Process == [configured : BOOLEAN, db : Dsns \cup {NoDsn}, devices : Dsns \cup {NoDsn},
            dsn : Dsns \cup {NoDsn}, svc : Nat]
SavingSteps == {"truncate", "write", "writeInPlace", "replace"}
Job == [at : Config!LoadingSteps \cup SavingSteps \cup {"idle", "boot", "ok"},
        kind : {"none", "boot", "setup", "update"}, new : SettingsFile]

ConfigTypes ==
  /\ file \in SettingsFile /\ tmp \in SettingsFile /\ proc \in Process
  /\ job \in [Config!Threads -> Job]
  /\ rows \in [Dsns -> 0..Legacy]
  /\ versions \in Nat /\ answered \in BOOLEAN /\ reopened \in BOOLEAN /\ crowded \in BOOLEAN

\* One thread is at work: the boot, or one request.
Working(c) == job[c].at # "idle"
Solo == \A c, d \in Config!Threads : Working(c) /\ Working(d) => c = d

Stored == file.is = "whole"

\* What a thread at work has made sure of.
Steady(c) ==
  /\ job[c].at # "writeInPlace"
  /\ job[c].at # "boot" => job[c].new.is = "whole"
  /\ job[c].at = "replace" => tmp = job[c].new
  /\ c = "boot" => job[c].kind = "boot" /\ (job[c].at = "ok" => proc.configured)
  /\ c # "boot" => /\ job[c].at # "boot" /\ job[c].kind \in {"setup", "update"}
                   /\ job[c].kind = "update" => proc.configured
                   /\ job[c].at \in SavingSteps \cup {"ok"} => proc.configured
                   /\ job[c].at = "ok" \/ (job[c].kind = "update" /\ job[c].at \in Config!LoadingSteps) => Stored

\* Once a file is there it is whole, and a process that has booted has read it.
Settled ==
  /\ file.is # "torn"
  /\ answered => Stored
  /\ ~ Working("boot") /\ Stored => proc.configured
  /\ ~ reopened

Closed == Solo /\ Settled /\ \A c \in Config!Threads : Working(c) => Steady(c)

ConfigInv == ConfigTypes /\ (~ crowded => Closed)

-----------------------------------------------------------------------------
LEMMA ConfigTypesImplied == ConfigInv => Config!TypeOK
BY DEF ConfigInv, ConfigTypes, Config!TypeOK, SettingsFile, Process

LEMMA SetupImplied == ConfigInv => Config!SetupStaysClosed
BY DEF ConfigInv, Closed, Settled, Config!SetupStaysClosed, Config!Torn

\* The threads of a process that starts: the boot is at work.
LEMMA FreshJobs ==
  ASSUME Config!ConfigurationAssumption, NEW jobs,
         jobs = [c \in Config!Threads |-> IF c = "boot" THEN [Config!Idle EXCEPT !.at = "boot", !.kind = "boot"] ELSE Config!Idle]
  PROVE  /\ jobs \in [Config!Threads -> Job]
         /\ \A c \in Config!Threads : jobs[c].at = (IF c = "boot" THEN "boot" ELSE "idle")
         /\ jobs["boot"].kind = "boot" /\ "boot" \in Config!Threads
<1>1. Config!Absent \in SettingsFile
  BY DEF Config!Absent, SettingsFile
<1>2. Config!Idle = [at |-> "idle", kind |-> "none", new |-> Config!Absent]
  BY DEF Config!Idle
<1>3. Config!Idle \in Job
  BY <1>1, <1>2 DEF Job
<1>4. /\ [Config!Idle EXCEPT !.at = "boot", !.kind = "boot"] \in Job
      /\ [Config!Idle EXCEPT !.at = "boot", !.kind = "boot"].at = "boot"
      /\ [Config!Idle EXCEPT !.at = "boot", !.kind = "boot"].kind = "boot"
  BY <1>3 DEF Job
<1>5. "boot" \in Config!Threads
  BY DEF Config!Threads
<1>6. \A c \in Config!Threads : jobs[c] \in Job /\ jobs[c].at = IF c = "boot" THEN "boot" ELSE "idle"
  BY <1>2, <1>3, <1>4
<1>7. jobs["boot"].kind = "boot"
  BY <1>4, <1>5
<1> QED BY <1>5, <1>6, <1>7

LEMMA BlankTyped == Config!Blank \in Process /\ ~ Config!Blank.configured
BY DEF Config!Blank, Process

\* Whatever file there is, a process that starts does not accept a setup before it has read it.
LEMMA Started ==
  ASSUME UNCHANGED <<file, answered, reopened>>, Settled, "boot" \in Config!Threads, job'["boot"].kind = "boot",
         \A c \in Config!Threads : job'[c].at = (IF c = "boot" THEN "boot" ELSE "idle")
  PROVE  Closed'
<1>1. \A c \in Config!Threads : Working(c)' => c = "boot"
  BY DEF Working
<1>2. Solo'
  BY <1>1 DEF Solo
<1>3. Steady("boot")' /\ Working("boot")'
  BY DEF Steady, Working
<1>4. Settled'
  BY <1>3 DEF Settled, Stored
<1> QED BY <1>1, <1>2, <1>3, <1>4 DEF Closed

LEMMA ConfigInit == ASSUME Config!ConfigurationAssumption, Config!Init PROVE ConfigInv
<1>1. Config!Absent \in SettingsFile /\ Config!Absent.is = "absent"
  BY DEF Config!Absent, SettingsFile
<1>2. /\ job \in [Config!Threads -> Job]
      /\ \A c \in Config!Threads : job[c].at = (IF c = "boot" THEN "boot" ELSE "idle")
      /\ job["boot"].kind = "boot" /\ "boot" \in Config!Threads
  <2>1. job = [c \in Config!Threads |-> IF c = "boot" THEN [Config!Idle EXCEPT !.at = "boot", !.kind = "boot"] ELSE Config!Idle]
    BY DEF Config!Init
  <2> QED BY <2>1, FreshJobs
<1>3. rows \in [Dsns -> 0..Legacy]
  BY DEF Config!Init, Config!ConfigurationAssumption
<1>4. ConfigTypes
  BY <1>1, <1>2, <1>3, BlankTyped DEF ConfigTypes, Config!Init
<1>5. \A c \in Config!Threads : Working(c) => c = "boot"
  BY <1>2 DEF Working
<1>6. Solo /\ Working("boot") /\ Steady("boot")
  BY <1>2, <1>5 DEF Solo, Working, Steady
<1>7. Settled
  BY <1>1, <1>6 DEF Settled, Stored, Config!Init
<1> QED BY <1>4, <1>5, <1>6, <1>7 DEF ConfigInv, Closed

\* One thread goes on: what it is to be sure of follows, and the others rest.
LEMMA OneGoesOn ==
  ASSUME Config!ConfigurationAssumption, ConfigInv, ConfigTypes', NEW c \in Config!Threads,
         \A d \in Config!Threads : d # c => job'[d] = job[d],
         ~ crowded => Working(c), crowded' = crowded,
         ~ crowded /\ Steady(c) => Settled' /\ (Working(c)' => Steady(c)')
  PROVE  ConfigInv'
<1> SUFFICES ASSUME ~ crowded PROVE Closed'
  BY DEF ConfigInv
<1>1. Closed /\ Working(c) /\ Steady(c)
  BY DEF ConfigInv, Closed
<1>2. \A d \in Config!Threads : Working(d)' => d = c
  BY <1>1 DEF Closed, Solo, Working
<1> QED BY <1>1, <1>2 DEF Closed, Solo


\* A thread goes to its next step and changes nothing else.
LEMMA GoesTo ==
  ASSUME ConfigTypes, NEW c \in Config!Threads, NEW at, Config!Goto(c, at),
         at \in Config!LoadingSteps \cup SavingSteps \cup {"idle", "boot", "ok"}
  PROVE  /\ job' \in [Config!Threads -> Job]
         /\ job'[c].at = at /\ job'[c].kind = job[c].kind /\ job'[c].new = job[c].new
         /\ \A d \in Config!Threads : d # c => job'[d] = job[d]
<1>1. job[c] \in Job
  BY DEF ConfigTypes
<1>2. job' = [job EXCEPT ![c] = [job[c] EXCEPT !.at = at]]
  BY DEF Config!Goto
<1>3. [job[c] EXCEPT !.at = at] \in Job /\ [job[c] EXCEPT !.at = at].at = at
      /\ [job[c] EXCEPT !.at = at].kind = job[c].kind /\ [job[c] EXCEPT !.at = at].new = job[c].new
  BY <1>1 DEF Job
<1> QED BY <1>2, <1>3 DEF ConfigTypes

\* A thread ends its request.
LEMMA Ends ==
  ASSUME ConfigTypes, NEW c \in Config!Threads, job' = [job EXCEPT ![c] = Config!Idle]
  PROVE  /\ job' \in [Config!Threads -> Job] /\ job'[c].at = "idle"
         /\ \A d \in Config!Threads : d # c => job'[d] = job[d]
<1>1. Config!Idle \in Job /\ Config!Idle.at = "idle"
  BY DEF Config!Idle, Job, Config!Absent, SettingsFile
<1> QED BY <1>1 DEF ConfigTypes

-----------------------------------------------------------------------------
(* Saving.                                                                 *)

\* A step of a thread at work after which the file and the histories are as before.
LEMMA WorksOn ==
  ASSUME Config!ConfigurationAssumption, ConfigInv, ConfigTypes', NEW c \in Config!Threads, Working(c), Working(c)',
         \A d \in Config!Threads : d # c => job'[d] = job[d], UNCHANGED <<file, answered, reopened, crowded>>,
         proc.configured => proc'.configured, Steady(c) => Steady(c)'
  PROVE  ConfigInv'
<1>1. ASSUME ~ crowded PROVE Settled'
  <2>1. Settled
    BY <1>1 DEF ConfigInv, Closed
  <2>2. "boot" \in Config!Threads /\ (Working("boot") <=> Working("boot")')
    BY DEF Working, Config!Threads
  <2>3. ~ Working("boot") => c # "boot"
    OBVIOUS
  <2> QED BY <2>1, <2>2 DEF Settled, Stored
<1> QED BY <1>1, OneGoesOn

LEMMA TruncateStep ==
  ASSUME Config!ConfigurationAssumption, ConfigInv, NEW c \in Config!Threads, Config!Truncate(c) PROVE ConfigInv'
<1>1. /\ job[c].at = "truncate" /\ tmp' = Config!Torn /\ Config!Goto(c, "write")
      /\ UNCHANGED <<file, proc, rows, answered, reopened, crowded, versions>>
  BY DEF Config!Truncate, Config!At, Config!UnchangedHistory
<1>2. /\ job' \in [Config!Threads -> Job] /\ job'[c].at = "write" /\ job'[c].kind = job[c].kind /\ job'[c].new = job[c].new
      /\ \A d \in Config!Threads : d # c => job'[d] = job[d]
  BY <1>1, GoesTo DEF ConfigInv, SavingSteps
<1>3. ConfigTypes'
  BY <1>1, <1>2 DEF ConfigInv, ConfigTypes, Config!Torn, SettingsFile
<1>4. Steady(c) => Steady(c)'
  BY <1>1, <1>2 DEF Steady, SavingSteps, Config!LoadingSteps
<1> QED BY <1>1, <1>2, <1>3, <1>4, WorksOn DEF Working

LEMMA WriteStep ==
  ASSUME Config!ConfigurationAssumption, ConfigInv, NEW c \in Config!Threads, Config!Write(c) PROVE ConfigInv'
<1>1. /\ job[c].at = "write" /\ tmp' = job[c].new /\ Config!Goto(c, "replace")
      /\ UNCHANGED <<file, proc, rows, answered, reopened, crowded, versions>>
  BY DEF Config!Write, Config!At, Config!UnchangedHistory
<1>2. /\ job' \in [Config!Threads -> Job] /\ job'[c].at = "replace" /\ job'[c].kind = job[c].kind /\ job'[c].new = job[c].new
      /\ \A d \in Config!Threads : d # c => job'[d] = job[d]
  BY <1>1, GoesTo DEF ConfigInv, SavingSteps
<1>3. ConfigTypes'
  BY <1>1, <1>2 DEF ConfigInv, ConfigTypes, Job
<1>4. Steady(c) => Steady(c)'
  BY <1>1, <1>2 DEF Steady, SavingSteps, Config!LoadingSteps
<1> QED BY <1>1, <1>2, <1>3, <1>4, WorksOn DEF Working

\* Nobody writes into the file itself, while nobody else is at work.
LEMMA WriteInPlaceStep ==
  ASSUME Config!ConfigurationAssumption, ConfigInv, NEW c \in Config!Threads, Config!WriteInPlace(c) PROVE ConfigInv'
<1>1. /\ job[c].at = "writeInPlace" /\ file' = job[c].new /\ Config!Goto(c, "replace")
      /\ UNCHANGED <<tmp, proc, rows, answered, reopened, crowded, versions>>
  BY DEF Config!WriteInPlace, Config!At, Config!UnchangedHistory
<1>2. job' \in [Config!Threads -> Job]
  BY <1>1, GoesTo DEF ConfigInv, SavingSteps
<1>3. ConfigTypes'
  BY <1>1, <1>2 DEF ConfigInv, ConfigTypes, Job
<1>4. crowded
  BY <1>1 DEF ConfigInv, Closed, Working, Steady
<1> QED BY <1>1, <1>3, <1>4 DEF ConfigInv

\* The file that is put in place is the one this thread wrote, which is whole.
LEMMA ReplaceStep ==
  ASSUME Config!ConfigurationAssumption, ConfigInv, NEW c \in Config!Threads, Config!Replace(c) PROVE ConfigInv'
<1>1. /\ job[c].at = "replace" /\ file' = tmp /\ tmp' = Config!Absent
      /\ job' = [d \in Config!Threads |-> IF d = c THEN [job[c] EXCEPT !.at = Config!AfterSave(c)]
                                          ELSE IF job[d].at = "write" THEN [job[d] EXCEPT !.at = "writeInPlace"] ELSE job[d]]
      /\ UNCHANGED <<proc, rows, answered, reopened, crowded, versions>>
  BY DEF Config!Replace, Config!At, Config!UnchangedHistory
<1>2. PICK after \in {"ok", "connect"} : after = Config!AfterSave(c) /\ after = IF job[c].kind = "setup" THEN "ok" ELSE "connect"
  BY DEF Config!AfterSave
<1>3. /\ job'[c] = [job[c] EXCEPT !.at = after]
      /\ \A d \in Config!Threads \ {c} : job'[d] = IF job[d].at = "write" THEN [job[d] EXCEPT !.at = "writeInPlace"] ELSE job[d]
  BY <1>1, <1>2
<1>4. \A d \in Config!Threads : job[d] \in Job
  BY DEF ConfigInv, ConfigTypes
<1>5. job'[c] \in Job /\ job'[c].at = after /\ job'[c].kind = job[c].kind /\ job'[c].new = job[c].new
  BY <1>3, <1>4 DEF Job, Config!LoadingSteps
<1>6. ASSUME NEW d \in Config!Threads PROVE job'[d] \in Job
  <2>1. CASE d = c
    BY <1>5, <2>1
  <2>2. CASE d # c /\ job[d].at = "write"
    <3>1. job'[d] = [job[d] EXCEPT !.at = "writeInPlace"] /\ job[d] \in Job
      BY <1>3, <1>4, <2>2
    <3> QED BY <3>1 DEF Job, SavingSteps
  <2>3. CASE d # c /\ job[d].at # "write"
    BY <1>3, <1>4, <2>3
  <2> QED BY <2>1, <2>2, <2>3
<1>7. ConfigTypes'
  BY <1>1, <1>6 DEF ConfigInv, ConfigTypes, Config!Absent, SettingsFile
<1>8. CASE crowded
  BY <1>1, <1>7, <1>8 DEF ConfigInv
<1>9. CASE ~ crowded
  <2>1. Closed /\ Working(c) /\ Steady(c)
    BY <1>1, <1>9 DEF ConfigInv, Closed, Working
  <2>2. \A d \in Config!Threads : d # c => job[d].at = "idle"
    BY <2>1 DEF Closed, Solo, Working
  <2>3. \A d \in Config!Threads : d # c => job'[d] = job[d]
    BY <1>3, <2>2
  <2>4. file'.is = "whole"
    BY <1>1, <2>1 DEF Steady
  <2>5. Working(c)' /\ (Working("boot")' <=> Working("boot")) /\ "boot" \in Config!Threads
    BY <1>1, <1>5, <2>1, <2>3 DEF Working, Config!Threads
  <2>6. Settled'
    <3>1. CASE c = "boot"
      BY <1>1, <2>1, <2>4, <2>5, <3>1 DEF Settled, Stored, Closed
    <3>2. CASE c # "boot"
      <4>1. proc.configured
        BY <1>1, <2>1, <3>2 DEF Steady, SavingSteps
      <4> QED BY <1>1, <2>1, <2>4, <4>1 DEF Settled, Stored, Closed
    <3> QED BY <3>1, <3>2
  <2>7. Steady(c)'
    BY <1>1, <1>2, <1>5, <2>1, <2>4 DEF Steady, Stored, SavingSteps, Config!LoadingSteps
  <2> QED BY <1>1, <1>7, <2>1, <2>3, <2>6, <2>7, OneGoesOn
<1> QED BY <1>8, <1>9

LEMMA ReplaceFailsStep ==
  ASSUME Config!ConfigurationAssumption, ConfigInv, NEW c \in Config!Threads, Config!ReplaceFails(c) PROVE ConfigInv'
<1>1. /\ job[c].at = "replace" /\ tmp = Config!Absent /\ job' = [job EXCEPT ![c] = Config!Idle]
      /\ UNCHANGED <<file, tmp, proc, rows, answered, reopened, crowded, versions>>
  BY DEF Config!ReplaceFails, Config!At, Config!UnchangedHistory
<1>2. job' \in [Config!Threads -> Job]
  BY <1>1, Ends DEF ConfigInv
<1>3. ConfigTypes'
  BY <1>1, <1>2 DEF ConfigInv, ConfigTypes
<1>4. tmp.is = "absent"
  BY <1>1 DEF Config!Absent
<1>5. crowded
  BY <1>1, <1>4 DEF ConfigInv, Closed, Working, Steady
<1> QED BY <1>1, <1>3, <1>5 DEF ConfigInv

-----------------------------------------------------------------------------
(* Loading.                                                                *)

LEMMA ConnectStep ==
  ASSUME Config!ConfigurationAssumption, ConfigInv, NEW c \in Config!Threads, Config!Connect(c) PROVE ConfigInv'
<1>1. /\ job[c].at = "connect" /\ proc' = [proc EXCEPT !.db = job[c].new.dsn] /\ Config!Goto(c, "orphans")
      /\ UNCHANGED <<file, tmp, rows, answered, reopened, crowded, versions>>
  BY DEF Config!Connect, Config!At, Config!UnchangedHistory
<1>2. /\ job' \in [Config!Threads -> Job] /\ job'[c].at = "orphans" /\ job'[c].kind = job[c].kind /\ job'[c].new = job[c].new
      /\ \A d \in Config!Threads : d # c => job'[d] = job[d]
  BY <1>1, GoesTo DEF ConfigInv, Config!LoadingSteps
<1>3. job[c].new.dsn \in Dsns \cup {NoDsn} /\ proc \in Process
  BY DEF ConfigInv, ConfigTypes, Job, SettingsFile
<1>4. proc' \in Process /\ proc'.configured = proc.configured
  BY <1>1, <1>3 DEF Process
<1>5. ConfigTypes'
  BY <1>1, <1>2, <1>4 DEF ConfigInv, ConfigTypes
<1>6. Steady(c) => Steady(c)'
  BY <1>1, <1>2, <1>4 DEF Steady, Stored, SavingSteps, Config!LoadingSteps
<1> QED BY <1>1, <1>2, <1>4, <1>5, <1>6, WorksOn DEF Working

LEMMA PassOnStep ==
  ASSUME Config!ConfigurationAssumption, ConfigInv, NEW c \in Config!Threads,
         Config!CloseOrphans(c) \/ Config!Migrate(c)
  PROVE  ConfigInv'
<1>1. PICK to \in {"migrate", "import", "devices"} : Config!Goto(c, to)
  BY DEF Config!CloseOrphans, Config!Migrate
<1>2. /\ job[c].at \in {"orphans", "migrate"}
      /\ UNCHANGED <<file, tmp, proc, rows, answered, reopened, crowded, versions>>
  BY DEF Config!CloseOrphans, Config!Migrate, Config!At, Config!UnchangedHistory
<1>3. /\ job' \in [Config!Threads -> Job] /\ job'[c].at = to /\ job'[c].kind = job[c].kind /\ job'[c].new = job[c].new
      /\ \A d \in Config!Threads : d # c => job'[d] = job[d]
  BY <1>1, GoesTo DEF ConfigInv, Config!LoadingSteps
<1>4. ConfigTypes'
  BY <1>2, <1>3 DEF ConfigInv, ConfigTypes
<1>5. Steady(c) => Steady(c)'
  BY <1>2, <1>3 DEF Steady, Stored, SavingSteps, Config!LoadingSteps
<1> QED BY <1>2, <1>3, <1>4, <1>5, WorksOn DEF Working

LEMMA ImportStep ==
  ASSUME Config!ConfigurationAssumption, ConfigInv, NEW c \in Config!Threads, Config!Import(c) PROVE ConfigInv'
<1>1. /\ job[c].at = "import"
      /\ rows' = [rows EXCEPT ![proc.db] = IF @ < Legacy THEN @ + 1 ELSE @]
      /\ Config!Goto(c, "devices") \/ job' = job
      /\ UNCHANGED <<file, tmp, proc, answered, reopened, crowded, versions>>
  BY DEF Config!Import, Config!At, Config!UnchangedHistory
<1>2. PICK to \in {"import", "devices"} :
         /\ job' \in [Config!Threads -> Job] /\ job'[c].at = to /\ job'[c].kind = job[c].kind /\ job'[c].new = job[c].new
         /\ \A d \in Config!Threads : d # c => job'[d] = job[d]
  <2>1. CASE Config!Goto(c, "devices")
    BY <2>1, GoesTo DEF ConfigInv, Config!LoadingSteps
  <2>2. CASE job' = job
    BY <1>1, <2>2 DEF ConfigInv, ConfigTypes
  <2> QED BY <1>1, <2>1, <2>2
<1>3. rows' \in [Dsns -> 0..Legacy]
  <2>1. rows \in [Dsns -> 0..Legacy] /\ Legacy \in Nat
    BY DEF ConfigInv, ConfigTypes, Config!ConfigurationAssumption
  <2>2. CASE proc.db \in Dsns
    <3>1. (IF rows[proc.db] < Legacy THEN rows[proc.db] + 1 ELSE rows[proc.db]) \in 0..Legacy
      BY <2>1, <2>2
    <3> QED BY <1>1, <2>1, <3>1
  <2>3. CASE proc.db \notin Dsns
    BY <1>1, <2>1, <2>3
  <2> QED BY <2>2, <2>3
<1>4. ConfigTypes'
  BY <1>1, <1>2, <1>3 DEF ConfigInv, ConfigTypes
<1>5. Steady(c) => Steady(c)'
  BY <1>1, <1>2 DEF Steady, Stored, SavingSteps, Config!LoadingSteps
<1> QED BY <1>1, <1>2, <1>4, <1>5, WorksOn DEF Working

LEMMA LoadDevicesStep ==
  ASSUME Config!ConfigurationAssumption, ConfigInv, NEW c \in Config!Threads, Config!LoadDevices(c) PROVE ConfigInv'
<1>1. /\ job[c].at = "devices"
      /\ proc' = [proc EXCEPT !.devices = proc.db, !.svc = job[c].new.svc, !.dsn = job[c].new.dsn, !.configured = TRUE]
      /\ UNCHANGED <<file, tmp, rows, answered, reopened, crowded, versions>>
  BY DEF Config!LoadDevices, Config!At, Config!UnchangedHistory
<1>2. PICK to \in {"truncate", "ok"} : Config!Goto(c, to) /\ to = IF job[c].kind = "setup" THEN "truncate" ELSE "ok"
  BY DEF Config!LoadDevices
<1>3. /\ job' \in [Config!Threads -> Job] /\ job'[c].at = to /\ job'[c].kind = job[c].kind /\ job'[c].new = job[c].new
      /\ \A d \in Config!Threads : d # c => job'[d] = job[d]
  BY <1>2, GoesTo DEF ConfigInv, SavingSteps
<1>4. job[c].new.dsn \in Dsns \cup {NoDsn} /\ job[c].new.svc \in Nat /\ proc \in Process
  BY DEF ConfigInv, ConfigTypes, Job, SettingsFile
<1>5. proc' \in Process /\ proc'.configured
  BY <1>1, <1>4 DEF Process
<1>6. ConfigTypes'
  BY <1>1, <1>3, <1>5 DEF ConfigInv, ConfigTypes
<1>7. Steady(c) => Steady(c)'
  BY <1>1, <1>2, <1>3, <1>5 DEF Steady, Stored, SavingSteps, Config!LoadingSteps
<1> QED BY <1>1, <1>3, <1>5, <1>6, <1>7, WorksOn DEF Working

\* A boot that fails is configured all the same.
LEMMA StepFailsStep ==
  ASSUME Config!ConfigurationAssumption, ConfigInv, NEW c \in Config!Threads, Config!StepFails(c) PROVE ConfigInv'
<1>1. /\ job[c].at \in Config!LoadingSteps /\ job' = [job EXCEPT ![c] = Config!Idle]
      /\ proc' = IF c = "boot" THEN [proc EXCEPT !.configured = TRUE, !.dsn = job[c].new.dsn] ELSE proc
      /\ UNCHANGED <<file, tmp, rows, answered, reopened, crowded, versions>>
  BY DEF Config!StepFails, Config!FailedBoot, Config!UnchangedHistory
<1>2. /\ job' \in [Config!Threads -> Job] /\ job'[c].at = "idle"
      /\ \A d \in Config!Threads : d # c => job'[d] = job[d]
  BY <1>1, Ends DEF ConfigInv
<1>3. job[c].new.dsn \in Dsns \cup {NoDsn} /\ proc \in Process
  BY DEF ConfigInv, ConfigTypes, Job, SettingsFile
<1>4. proc' \in Process /\ (c = "boot" => proc'.configured) /\ (c # "boot" => proc' = proc)
  BY <1>1, <1>3 DEF Process
<1>5. ConfigTypes'
  BY <1>1, <1>2, <1>4 DEF ConfigInv, ConfigTypes
<1>6. ASSUME ~ crowded PROVE Settled'
  <2>1. Settled
    BY <1>6 DEF ConfigInv, Closed
  <2>2. c # "boot" => (Working("boot") <=> Working("boot")')
    BY <1>2 DEF Working, Config!Threads
  <2> QED BY <1>1, <1>4, <2>1, <2>2 DEF Settled, Stored
<1>7. Working(c) /\ ~ Working(c)'
  BY <1>1, <1>2 DEF Working, Config!LoadingSteps
<1> QED BY <1>1, <1>2, <1>5, <1>6, <1>7, OneGoesOn

LEMMA OkStep ==
  ASSUME Config!ConfigurationAssumption, ConfigInv, NEW c \in Config!Threads, Config!Ok(c) PROVE ConfigInv'
<1>1. /\ job[c].at = "ok" /\ job' = [job EXCEPT ![c] = Config!Idle] /\ answered' = (answered \/ c # "boot")
      /\ UNCHANGED <<file, tmp, proc, rows, reopened, crowded, versions>>
  BY DEF Config!Ok, Config!At
<1>2. /\ job' \in [Config!Threads -> Job] /\ job'[c].at = "idle"
      /\ \A d \in Config!Threads : d # c => job'[d] = job[d]
  BY <1>1, Ends DEF ConfigInv
<1>3. ConfigTypes'
  BY <1>1, <1>2 DEF ConfigInv, ConfigTypes
<1>4. ASSUME ~ crowded, Steady(c) PROVE Settled'
  <2>1. Settled
    BY <1>4 DEF ConfigInv, Closed
  <2>2. c # "boot" => Stored /\ (Working("boot") <=> Working("boot")')
    BY <1>1, <1>2, <1>4 DEF Working, Config!Threads, Steady
  <2>3. c = "boot" => proc.configured
    BY <1>1, <1>4 DEF Steady
  <2> QED BY <1>1, <2>1, <2>2, <2>3 DEF Settled, Stored
<1>5. Working(c) /\ ~ Working(c)'
  BY <1>1, <1>2 DEF Working
<1> QED BY <1>1, <1>2, <1>3, <1>4, <1>5, OneGoesOn

-----------------------------------------------------------------------------
(* Where threads begin.                                                    *)

LEMMA BootStep == ASSUME Config!ConfigurationAssumption, ConfigInv, Config!Boot PROVE ConfigInv'
<1>1. /\ job["boot"].at = "boot" /\ "boot" \in Config!Threads
      /\ UNCHANGED <<file, tmp, proc, rows, answered, reopened, crowded, versions>>
  BY DEF Config!Boot, Config!At, Config!UnchangedHistory, Config!Threads
<1>2. job["boot"] \in Job /\ file \in SettingsFile
  BY <1>1 DEF ConfigInv, ConfigTypes
<1>3. CASE Stored
  <2>1. job' = [job EXCEPT !["boot"] = [job["boot"] EXCEPT !.at = "connect", !.new = file]]
    BY <1>3 DEF Config!Boot, Config!Stored, Stored
  <2>2. /\ [job["boot"] EXCEPT !.at = "connect", !.new = file] \in Job
        /\ [job["boot"] EXCEPT !.at = "connect", !.new = file].at = "connect"
        /\ [job["boot"] EXCEPT !.at = "connect", !.new = file].kind = job["boot"].kind
        /\ [job["boot"] EXCEPT !.at = "connect", !.new = file].new = file
    BY <1>2 DEF Job, Config!LoadingSteps
  <2>3. /\ job' \in [Config!Threads -> Job] /\ job'["boot"].at = "connect" /\ job'["boot"].kind = job["boot"].kind
        /\ job'["boot"].new = file /\ \A d \in Config!Threads : d # "boot" => job'[d] = job[d]
    BY <1>1, <2>1, <2>2 DEF ConfigInv, ConfigTypes
  <2>4. ConfigTypes'
    BY <1>1, <2>3 DEF ConfigInv, ConfigTypes
  <2>5. Steady("boot") => Steady("boot")'
    BY <1>1, <1>3, <2>3 DEF Steady, Stored
  <2> QED BY <1>1, <2>3, <2>4, <2>5, WorksOn DEF Working
<1>4. CASE ~ Stored /\ EnvDsn # NoDsn
  <2>1. PICK seeded \in SettingsFile : seeded = Config!Whole(EnvDsn, 0) /\ seeded.is = "whole"
    <3>1. Config!Whole(EnvDsn, 0) \in SettingsFile /\ Config!Whole(EnvDsn, 0).is = "whole"
      BY DEF Config!Whole, SettingsFile, Config!ConfigurationAssumption
    <3> QED BY <3>1
  <2>2. job' = [job EXCEPT !["boot"] = [job["boot"] EXCEPT !.at = "truncate", !.new = seeded]]
    BY <1>4, <2>1 DEF Config!Boot, Config!Stored, Stored
  <2>3. /\ [job["boot"] EXCEPT !.at = "truncate", !.new = seeded] \in Job
        /\ [job["boot"] EXCEPT !.at = "truncate", !.new = seeded].at = "truncate"
        /\ [job["boot"] EXCEPT !.at = "truncate", !.new = seeded].kind = job["boot"].kind
        /\ [job["boot"] EXCEPT !.at = "truncate", !.new = seeded].new = seeded
    BY <1>2 DEF Job, SavingSteps
  <2>4. /\ job' \in [Config!Threads -> Job] /\ job'["boot"].at = "truncate" /\ job'["boot"].kind = job["boot"].kind
        /\ job'["boot"].new = seeded /\ \A d \in Config!Threads : d # "boot" => job'[d] = job[d]
    BY <1>1, <2>2, <2>3 DEF ConfigInv, ConfigTypes
  <2>5. ConfigTypes'
    BY <1>1, <2>4 DEF ConfigInv, ConfigTypes
  <2>6. Steady("boot") => Steady("boot")'
    BY <1>1, <2>1, <2>4 DEF Steady
  <2> QED BY <1>1, <2>4, <2>5, <2>6, WorksOn DEF Working
<1>5. CASE ~ Stored /\ EnvDsn = NoDsn
  <2>1. job' = [job EXCEPT !["boot"] = Config!Idle]
    BY <1>5 DEF Config!Boot, Config!Stored, Stored
  <2>2. /\ job' \in [Config!Threads -> Job] /\ job'["boot"].at = "idle"
        /\ \A d \in Config!Threads : d # "boot" => job'[d] = job[d]
    BY <1>1, <2>1, Ends DEF ConfigInv
  <2>3. ConfigTypes'
    BY <1>1, <2>2 DEF ConfigInv, ConfigTypes
  <2>4. ASSUME ~ crowded PROVE Settled'
    BY <1>1, <1>5, <2>4 DEF ConfigInv, Closed, Settled, Stored
  <2>5. Working("boot") /\ ~ Working("boot")'
    BY <1>1, <2>2 DEF Working
  <2> QED BY <1>1, <2>2, <2>3, <2>4, <2>5, OneGoesOn
<1> QED BY <1>3, <1>4, <1>5

\* A request that begins alone: what it is to be sure of is there.
LEMMA RequestStep ==
  ASSUME Config!ConfigurationAssumption, ConfigInv, NEW c \in Savers, job["boot"].at = "idle", Config!NewRequest,
         NEW new \in Job, job' = [job EXCEPT ![c] = new],
         NEW p \in Process, proc' = p, p.configured = proc.configured,
         new.new.is = "whole", new.at \in {"connect", "truncate"}, new.kind \in {"setup", "update"},
         new.kind = "setup" => new.at = "connect", new.kind = "update" => new.at = "truncate" /\ proc.configured,
         reopened' = reopened \/ (new.kind = "setup" /\ ~ proc.configured /\ reopened' = (reopened \/ answered)),
         UNCHANGED <<file, tmp, rows, answered>>
  PROVE  ConfigInv'
<1>1. c # "boot" /\ c \in Config!Threads /\ "boot" \in Config!Threads
  BY DEF Config!ConfigurationAssumption, Config!Threads
<1>2. /\ job' \in [Config!Threads -> Job] /\ job'[c] = new /\ job'["boot"] = job["boot"]
      /\ \A d \in Config!Threads : d # c => job'[d] = job[d]
  BY <1>1 DEF ConfigInv, ConfigTypes
<1>3. /\ versions' = versions + 1
      /\ crowded' = (crowded \/ \E d \in Savers : job[d].at # "idle")
  BY DEF Config!NewRequest, Config!At
<1>4. ConfigTypes'
  <2>1. reopened' \in BOOLEAN
    BY DEF ConfigInv, ConfigTypes
  <2> QED BY <1>2, <1>3, <2>1 DEF ConfigInv, ConfigTypes
<1>5. ASSUME ~ crowded' PROVE Closed'
  <2>1. ~ crowded /\ \A d \in Config!Threads : job[d].at = "idle"
    BY <1>3, <1>5 DEF Config!Threads
  <2>2. Settled /\ ~ Working("boot") /\ ~ Working("boot")'
    BY <1>1, <1>2, <2>1 DEF ConfigInv, Closed, Working
  <2>3. ~ answered \/ proc.configured
    BY <2>2 DEF Settled
  <2>4. ~ reopened'
    BY <2>2, <2>3 DEF Settled
  <2>7. proc'.configured = proc.configured /\ file' = file /\ answered' = answered
    OBVIOUS
  <2>8. Settled'
    BY <2>2, <2>4, <2>7 DEF Settled, Stored
  <2>5. \A d \in Config!Threads : Working(d)' => d = c
    BY <1>2, <2>1 DEF Working
  <2>6. Steady(c)'
    BY <1>1, <1>2 DEF Steady, SavingSteps, Config!LoadingSteps
  <2> QED BY <2>5, <2>6, <2>8 DEF Closed, Solo
<1> QED BY <1>4, <1>5 DEF ConfigInv

LEMMA SetupStep == ASSUME Config!ConfigurationAssumption, ConfigInv, NEW c \in Savers, Config!Setup(c) PROVE ConfigInv'
<1>1. PICK d \in Dsns : job' = [job EXCEPT ![c] = [at |-> "connect", kind |-> "setup", new |-> Config!Whole(d, versions')]]
  BY DEF Config!Setup
<1>2. /\ job["boot"].at = "idle" /\ ~ proc.configured /\ Config!NewRequest
      /\ reopened' = (reopened \/ answered) /\ UNCHANGED <<file, tmp, rows, answered>> /\ proc' = proc
  BY DEF Config!Setup, Config!Booted, Config!At
<1>3. versions' \in Nat /\ proc \in Process
  BY <1>2 DEF Config!NewRequest, ConfigInv, ConfigTypes
<1>4. PICK new \in Job : /\ new = [at |-> "connect", kind |-> "setup", new |-> Config!Whole(d, versions')]
                         /\ new.at = "connect" /\ new.kind = "setup" /\ new.new.is = "whole"
  <2>1. Config!Whole(d, versions') \in SettingsFile /\ Config!Whole(d, versions').is = "whole"
    BY <1>3 DEF Config!Whole, SettingsFile
  <2>2. [at |-> "connect", kind |-> "setup", new |-> Config!Whole(d, versions')] \in Job
    BY <2>1 DEF Job, Config!LoadingSteps
  <2> QED BY <2>1, <2>2
<1> QED BY <1>1, <1>2, <1>3, <1>4, RequestStep

LEMMA UpdateStep == ASSUME Config!ConfigurationAssumption, ConfigInv, NEW c \in Savers, Config!Update(c) PROVE ConfigInv'
<1>1. PICK d \in Dsns \cup {proc.dsn}, svc \in {versions', IF Config!Stored THEN file.svc ELSE 0} :
        /\ job' = [job EXCEPT ![c] = [at |-> "truncate", kind |-> "update", new |-> Config!Whole(d, svc)]]
        /\ proc' = [proc EXCEPT !.svc = svc]
  BY DEF Config!Update
<1>2. /\ job["boot"].at = "idle" /\ proc.configured /\ Config!NewRequest /\ UNCHANGED <<file, tmp, rows, answered, reopened>>
  BY DEF Config!Update, Config!Booted, Config!At
<1>3. versions' \in Nat /\ proc \in Process /\ file.svc \in Nat /\ proc.dsn \in Dsns \cup {NoDsn}
  BY <1>2 DEF Config!NewRequest, ConfigInv, ConfigTypes, Process, SettingsFile
<1>4. svc \in Nat /\ d \in Dsns \cup {NoDsn}
  BY <1>3
<1>5. PICK p \in Process : p = [proc EXCEPT !.svc = svc] /\ p.configured = proc.configured
  <2>1. [proc EXCEPT !.svc = svc] \in Process /\ [proc EXCEPT !.svc = svc].configured = proc.configured
    BY <1>3, <1>4 DEF Process
  <2> QED BY <2>1
<1>6. PICK new \in Job : /\ new = [at |-> "truncate", kind |-> "update", new |-> Config!Whole(d, svc)]
                         /\ new.at = "truncate" /\ new.kind = "update" /\ new.new.is = "whole"
  <2>1. Config!Whole(d, svc) \in SettingsFile /\ Config!Whole(d, svc).is = "whole"
    BY <1>4 DEF Config!Whole, SettingsFile
  <2>2. [at |-> "truncate", kind |-> "update", new |-> Config!Whole(d, svc)] \in Job
    BY <2>1 DEF Job, SavingSteps
  <2> QED BY <2>1, <2>2
<1> QED BY <1>1, <1>2, <1>5, <1>6, RequestStep

LEMMA ConfigRestartStep == ASSUME Config!ConfigurationAssumption, ConfigInv, Config!Restart PROVE ConfigInv'
<1>1. /\ proc' = Config!Blank
      /\ job' = [c \in Config!Threads |-> IF c = "boot" THEN [Config!Idle EXCEPT !.at = "boot", !.kind = "boot"] ELSE Config!Idle]
      /\ UNCHANGED <<file, tmp, rows, answered, reopened, crowded, versions>>
  BY DEF Config!Restart, Config!UnchangedHistory
<1>2. PICK jobs \in [Config!Threads -> Job] :
         /\ job' = jobs
         /\ \A c \in Config!Threads : jobs[c].at = (IF c = "boot" THEN "boot" ELSE "idle")
         /\ jobs["boot"].kind = "boot" /\ "boot" \in Config!Threads
  <2>1. PICK jobs : /\ job' = jobs
                    /\ jobs = [c \in Config!Threads |-> IF c = "boot" THEN [Config!Idle EXCEPT !.at = "boot", !.kind = "boot"] ELSE Config!Idle]
    BY <1>1
  <2> QED BY <2>1, FreshJobs
<1>3. ConfigTypes'
  BY <1>1, <1>2, BlankTyped DEF ConfigInv, ConfigTypes
<1>4. ASSUME ~ crowded PROVE Closed'
  <2>1. Settled
    BY <1>4 DEF ConfigInv, Closed
  <2>2. /\ "boot" \in Config!Threads /\ job'["boot"].kind = "boot"
        /\ \A c \in Config!Threads : job'[c].at = (IF c = "boot" THEN "boot" ELSE "idle")
    BY <1>2
  <2>3. UNCHANGED <<file, answered, reopened>>
    BY <1>1
  <2> QED BY <2>1, <2>2, <2>3, Started
<1> QED BY <1>1, <1>3, <1>4 DEF ConfigInv

LEMMA ConfigStep == ASSUME Config!ConfigurationAssumption, ConfigInv, [Config!Next]_(Config!settingsVars) PROVE ConfigInv'
<1>1. CASE UNCHANGED Config!settingsVars
  BY <1>1 DEF Config!settingsVars, ConfigInv, ConfigTypes, Closed, Solo, Settled, Stored, Steady, Working
<1>2. CASE Config!Rest
  BY <1>1, <1>2 DEF Config!Rest
<1>3. ASSUME NEW c \in Config!Threads, Config!Loading(c) PROVE ConfigInv'
  BY <1>3, ConnectStep, PassOnStep, ImportStep, LoadDevicesStep, StepFailsStep DEF Config!Loading
<1>4. ASSUME NEW c \in Config!Threads, Config!Saving(c) PROVE ConfigInv'
  BY <1>4, TruncateStep, WriteStep, WriteInPlaceStep, ReplaceStep, ReplaceFailsStep DEF Config!Saving
<1> QED BY <1>1, <1>2, <1>3, <1>4, BootStep, ConfigRestartStep, OkStep, SetupStep, UpdateStep DEF Config!Next

LEMMA ConfigInvariant ==
  ASSUME Config!ConfigurationAssumption PROVE Config!Init /\ [][Config!Next]_(Config!settingsVars) => []ConfigInv
<1>1. Config!Init => ConfigInv
  BY ConfigInit
<1>2. ConfigInv /\ [Config!Next]_(Config!settingsVars) => ConfigInv'
  BY ConfigStep
<1> QED BY <1>1, <1>2, PTL

\* While requests do not crowd, a process that has answered "configured" never opens the
\* first-run setup again, and the settings file is never left torn (app.py's /api/setup and
\* settings.py), whatever step of a boot or of a request fails and wherever it is restarted.
THEOREM SetupIsClosedForGood == ASSUME Config!ConfigurationAssumption PROVE Config!Spec => []Config!SetupStaysClosed
<1>1. ConfigInv => Config!SetupStaysClosed
  BY SetupImplied
<1> QED BY <1>1, ConfigInvariant, PTL DEF Config!Spec

\* The settings file, the process and the requests keep their types.
THEOREM ConfigurationTyped == ASSUME Config!ConfigurationAssumption PROVE Config!Spec => []Config!TypeOK
<1>1. ConfigInv => Config!TypeOK
  BY ConfigTypesImplied
<1> QED BY <1>1, ConfigInvariant, PTL DEF Config!Spec
-------------------------------------------------------------------------------
(***************************************************************************)
(* SwitchSession, for any sessions, permits and bounds of its retries.     *)
(* A command is answered by its own output because, while nobody has lost  *)
(* patience with a read, nothing is on its way when run() sends (Silent),  *)
(* and while run() reads there is one line, or its answer, or what was     *)
(* read of it (OneOnTheWay).  The permits of the login semaphore and the   *)
(* sessions between acquire and release add up to what there was at first. *)
(***************************************************************************)
Stages == {"idle", "acquire", "handshake", "login", "send", "read"}
Call == [at : Stages, attempt : 0..Retries, try : 0..Resends, step : Nat]
Channels == {"none", "open", "dead"}
Lines == {"login", "enable", "secret", "terminal length 0", "cli", "set cli", "8", "show"}
Line == [no : Nat, line : Lines]
Chunk == [of : Nat, end : Ssh!Prompts]
Buffer == [of : SUBSET Nat, end : Ssh!Prompts \cup {"none"}]

CallsTyped ==
  /\ call \in [Sessions -> Call]
  /\ \A s \in Sessions : call[s].at = "login" => call[s].step \in 1..Len(Ssh!Login(s))
WiresTyped ==
  /\ chan \in [Sessions -> Channels] /\ mode \in [Sessions -> Ssh!Prompts]
  /\ owed \in [Sessions -> Seq(Line)] /\ inbox \in [Sessions -> Seq(Chunk)]
  /\ buf \in [Sessions -> Buffer]
HistoryTyped ==
  /\ runs \in [Sessions -> Nat] /\ impatient \in [Sessions -> BOOLEAN]
  /\ answers \in [Sessions -> [to : Nat, of : SUBSET Nat]]

\* The permits that are out are with the sessions between acquire and release.
Holding == {s \in Sessions : call[s].at \in {"handshake", "login"}}
PermitsBalance == permits \in Nat /\ permits + Cardinality(Holding) = Permits

\* While nobody lost patience, there is nothing on the way when run() sends, and
\* one line, its answer, or what was read of it while a read goes on.
Silent(s) == owed[s] = <<>> /\ inbox[s] = <<>>
OneOnTheWay(s) ==
  \/ Len(owed[s]) = 1 /\ inbox[s] = <<>> /\ buf[s] = Ssh!Nothing
  \/ owed[s] = <<>> /\ Len(inbox[s]) = 1 /\ buf[s] = Ssh!Nothing
  \/ Silent(s)
Mine(s) ==
  /\ \A i \in DOMAIN owed[s] : owed[s][i].no = runs[s]
  /\ \A i \in DOMAIN inbox[s] : inbox[s][i].of = runs[s]
  /\ buf[s].of \subseteq {runs[s]}
Orderly(s) ==
  /\ call[s].at \in {"idle", "send"} /\ chan[s] = "open" => Silent(s)
  /\ call[s].at \in {"login", "read"} /\ chan[s] # "none" => OneOnTheWay(s)
  /\ call[s].at = "read" /\ chan[s] # "none" => Mine(s)
  /\ answers[s].of \subseteq {answers[s].to}
Patient(s) == ~ impatient[s] => Orderly(s)

SshInv == CallsTyped /\ WiresTyped /\ HistoryTyped /\ PermitsBalance /\ \A s \in Sessions : Patient(s)

-----------------------------------------------------------------------------
LEMMA AnswersImplied == SshInv => Ssh!AnswersItsCommand
BY DEF SshInv, Patient, Orderly, Ssh!AnswersItsCommand

LEMMA HoldingIsFinite ==
  ASSUME Ssh!SessionAssumption PROVE IsFiniteSet(Holding) /\ Cardinality(Holding) \in Nat
<1>1. IsFiniteSet(Sessions)
  BY DEF Ssh!SessionAssumption, Ssh!IsFiniteSet, IsFiniteSet
<1>2. IsFiniteSet(Holding)
  BY <1>1, FS_Subset DEF Holding
<1> QED BY <1>2, FS_CardinalityType

LEMMA SshTypesImplied == ASSUME Ssh!SessionAssumption, SshInv PROVE Ssh!TypeOK
<1>1. permits \in 0..Permits
  BY HoldingIsFinite DEF SshInv, PermitsBalance
<1> QED BY <1>1 DEF SshInv, CallsTyped, WiresTyped, Call, Stages, Channels, Ssh!TypeOK

\* The logins of the three platforms.
LEMMA LoginTable ==
  ASSUME Ssh!SessionAssumption, NEW s \in Sessions
  PROVE  /\ Len(Ssh!Login(s)) \in Nat /\ 1 <= Len(Ssh!Login(s))
         /\ \A i \in 1..Len(Ssh!Login(s)) :
              Ssh!Login(s)[i].send \in Lines /\ "none" \notin Ssh!Login(s)[i].until
         /\ \A got : \A i \in Nat : Ssh!StepAfter(s, i, got) \in Nat /\ 1 <= Ssh!StepAfter(s, i, got)
         /\ Ssh!FirstPrompt(s) \in Ssh!Prompts
<1>0. PlatformOf[s] \in {"os9", "junos", "opnsense"}
  BY DEF Ssh!SessionAssumption
<1>1. \A got : \A i \in Nat : Ssh!StepAfter(s, i, got) \in Nat /\ 1 <= Ssh!StepAfter(s, i, got)
  BY DEF Ssh!StepAfter
<1>2. Ssh!FirstPrompt(s) \in Ssh!Prompts
  BY <1>0 DEF Ssh!FirstPrompt, Ssh!Prompts
<1>3. CASE PlatformOf[s] = "os9"
  <2>1. Len(Ssh!Login(s)) = 4
    BY <1>3 DEF Ssh!Login
  <2>2. /\ Ssh!Login(s)[1].send \in Lines /\ "none" \notin Ssh!Login(s)[1].until
        /\ Ssh!Login(s)[2].send \in Lines /\ "none" \notin Ssh!Login(s)[2].until
        /\ Ssh!Login(s)[3].send \in Lines /\ "none" \notin Ssh!Login(s)[3].until
        /\ Ssh!Login(s)[4].send \in Lines /\ "none" \notin Ssh!Login(s)[4].until
    BY <1>3 DEF Ssh!Login, Ssh!PROMPT_RE, Lines
  <2>3. \A i \in 1..4 : i = 1 \/ i = 2 \/ i = 3 \/ i = 4
    OBVIOUS
  <2> QED BY <1>1, <1>2, <2>1, <2>2, <2>3
<1>4. CASE PlatformOf[s] = "junos"
  <2>1. Len(Ssh!Login(s)) = 3
    BY <1>4 DEF Ssh!Login
  <2>2. /\ Ssh!Login(s)[1].send \in Lines /\ "none" \notin Ssh!Login(s)[1].until
        /\ Ssh!Login(s)[2].send \in Lines /\ "none" \notin Ssh!Login(s)[2].until
        /\ Ssh!Login(s)[3].send \in Lines /\ "none" \notin Ssh!Login(s)[3].until
    BY <1>4 DEF Ssh!Login, Ssh!PROMPT_RE, Lines
  <2>3. \A i \in 1..3 : i = 1 \/ i = 2 \/ i = 3
    OBVIOUS
  <2> QED BY <1>1, <1>2, <2>1, <2>2, <2>3
<1>5. CASE PlatformOf[s] = "opnsense"
  <2>1. Len(Ssh!Login(s)) = 2
    BY <1>5 DEF Ssh!Login
  <2>2. /\ Ssh!Login(s)[1].send \in Lines /\ "none" \notin Ssh!Login(s)[1].until
        /\ Ssh!Login(s)[2].send \in Lines /\ "none" \notin Ssh!Login(s)[2].until
    BY <1>5 DEF Ssh!Login, Ssh!PROMPT_RE, Lines
  <2>3. \A i \in 1..2 : i = 1 \/ i = 2
    OBVIOUS
  <2> QED BY <1>1, <1>2, <2>1, <2>2, <2>3
<1> QED BY <1>0, <1>3, <1>4, <1>5

LEMMA IdleAndNothing ==
  ASSUME Ssh!SessionAssumption
  PROVE  Ssh!Idle \in Call /\ Ssh!Idle.at = "idle" /\ Ssh!Nothing \in Buffer /\ Ssh!Nothing.of = {}
BY DEF Ssh!SessionAssumption, Ssh!Idle, Call, Stages, Ssh!Nothing, Buffer

LEMMA SshInit == ASSUME Ssh!SessionAssumption, Ssh!Init PROVE SshInv
<1>1. CallsTyped
  BY IdleAndNothing DEF Ssh!Init, CallsTyped
<1>2. WiresTyped
  BY IdleAndNothing, LoginTable DEF Ssh!Init, WiresTyped, Channels
<1>3. HistoryTyped
  BY DEF Ssh!Init, HistoryTyped
<1>4. PermitsBalance
  <2>1. Holding = {}
    BY IdleAndNothing DEF Ssh!Init, Holding
  <2>2. Cardinality({}) = 0
    BY FS_EmptySet
  <2> QED BY <2>1, <2>2 DEF Ssh!Init, PermitsBalance, Ssh!SessionAssumption
<1>5. \A s \in Sessions : Patient(s)
  BY IdleAndNothing DEF Ssh!Init, Patient, Orderly, Silent
<1> QED BY <1>1, <1>2, <1>3, <1>4, <1>5 DEF SshInv

-----------------------------------------------------------------------------
\* A step of one session leaves what the invariant says of the others alone.
Others(s) ==
  \A t \in Sessions \ {s} :
    /\ call'[t] = call[t] /\ chan'[t] = chan[t] /\ owed'[t] = owed[t] /\ inbox'[t] = inbox[t] /\ buf'[t] = buf[t]
    /\ runs'[t] = runs[t] /\ answers'[t] = answers[t] /\ impatient'[t] = impatient[t]

PermitAt(at) == IF at \in {"handshake", "login"} THEN 1 ELSE 0

LEMMA SessionMoves ==
  ASSUME Ssh!SessionAssumption, SshInv, NEW s \in Sessions, Others(s), call' \in [Sessions -> Call],
         call'[s].at = "login" => call'[s].step \in 1..Len(Ssh!Login(s)),
         WiresTyped', HistoryTyped', permits' \in Nat,
         permits' + PermitAt(call'[s].at) = permits + PermitAt(call[s].at), Patient(s)'
  PROVE  SshInv'
<1>1. CallsTyped'
  BY DEF SshInv, CallsTyped, Others
<1>2. \A t \in Sessions : Patient(t)'
  <2> SUFFICES ASSUME NEW t \in Sessions, t # s PROVE Patient(t)'
    OBVIOUS
  <2>1. Patient(t)
    BY DEF SshInv
  <2> QED BY <2>1 DEF Others, Patient, Orderly, Silent, OneOnTheWay, Mine
<1>3. PermitsBalance'
  <2>1. IsFiniteSet(Holding) /\ Cardinality(Holding) \in Nat /\ permits \in Nat /\ permits + Cardinality(Holding) = Permits
    BY HoldingIsFinite DEF SshInv, PermitsBalance
  <2>2. CASE PermitAt(call'[s].at) = PermitAt(call[s].at)
    <3>1. Holding' = Holding
      BY <2>2 DEF Holding, PermitAt, Others
    <3>2. PermitAt(call[s].at) \in {0, 1}
      BY DEF PermitAt
    <3>3. permits' = permits
      BY <2>1, <2>2, <3>2
    <3> QED BY <2>1, <3>1, <3>3 DEF PermitsBalance
  <2>3. CASE PermitAt(call'[s].at) = 1 /\ PermitAt(call[s].at) = 0
    <3>1. Holding' = Holding \cup {s} /\ s \notin Holding
      BY <2>3 DEF Holding, PermitAt, Others
    <3>2. Cardinality(Holding') = Cardinality(Holding) + 1
      BY <2>1, <3>1, FS_AddElement
    <3>3. permits = permits' + 1
      BY <2>1, <2>3
    <3> QED BY <2>1, <3>2, <3>3 DEF PermitsBalance
  <2>4. CASE PermitAt(call'[s].at) = 0 /\ PermitAt(call[s].at) = 1
    <3>1. Holding' = Holding \ {s} /\ s \in Holding
      BY <2>4 DEF Holding, PermitAt, Others
    <3>2. Cardinality(Holding') = Cardinality(Holding) - 1
      BY <2>1, <3>1, FS_RemoveElement
    <3>3. permits' = permits + 1
      BY <2>1, <2>4
    <3> QED BY <2>1, <3>2, <3>3 DEF PermitsBalance
  <2> QED BY <2>2, <2>3, <2>4 DEF PermitAt
<1> QED BY <1>1, <1>2, <1>3 DEF SshInv

\* What the invariant says of one session, as the steps need it.
LEMMA OfOne ==
  ASSUME SshInv, NEW s \in Sessions
  PROVE  /\ call[s] \in Call /\ chan[s] \in Channels /\ owed[s] \in Seq(Line) /\ inbox[s] \in Seq(Chunk)
         /\ buf[s] \in Buffer /\ runs[s] \in Nat /\ impatient[s] \in BOOLEAN /\ permits \in Nat
         /\ call[s].at = "login" => call[s].step \in 1..Len(Ssh!Login(s))
         /\ Patient(s)
BY DEF SshInv, CallsTyped, WiresTyped, HistoryTyped, PermitsBalance

OthersCall(s) == call' \in [Sessions -> Call] /\ \A t \in Sessions \ {s} : call'[t] = call[t]

LEMMA GotoIs ==
  ASSUME SshInv, NEW s \in Sessions, NEW at \in Stages, Ssh!Goto(s, at)
  PROVE  OthersCall(s) /\ call'[s].at = at /\ call'[s].step = call[s].step
<1>0. call[s] \in Call
  BY OfOne
<1>1. PICK c \in Call : c = [call[s] EXCEPT !.at = at] /\ c.at = at /\ c.step = call[s].step
  <2>1. /\ [call[s] EXCEPT !.at = at] \in Call /\ [call[s] EXCEPT !.at = at].at = at
        /\ [call[s] EXCEPT !.at = at].step = call[s].step
    BY <1>0 DEF Call
  <2> QED BY <2>1
<1>2. call' = [call EXCEPT ![s] = c]
  BY <1>1 DEF Ssh!Goto
<1> QED BY <1>1, <1>2 DEF OthersCall, SshInv, CallsTyped

LEMMA RaiseIs ==
  ASSUME Ssh!SessionAssumption, SshInv, NEW s \in Sessions, Ssh!Raise(s)
  PROVE  OthersCall(s) /\ call'[s].at = "idle"
BY IdleAndNothing DEF Ssh!Raise, OthersCall, SshInv, CallsTyped

LEMMA TryAgainIs ==
  ASSUME Ssh!SessionAssumption, SshInv, NEW s \in Sessions, Ssh!TryAgain(s)
  PROVE  OthersCall(s) /\ call'[s].at \in {"acquire", "idle"}
<1>1. CASE call[s].attempt < Retries
  <2>1. PICK c \in Call : c = [call[s] EXCEPT !.at = "acquire", !.attempt = call[s].attempt + 1] /\ c.at = "acquire"
    <3>1. call[s] \in Call /\ "acquire" \in Stages /\ call[s].attempt + 1 \in 0..Retries
      BY <1>1, OfOne DEF Call, Stages, Ssh!SessionAssumption
    <3>2. /\ [call[s] EXCEPT !.at = "acquire", !.attempt = call[s].attempt + 1] \in Call
          /\ [call[s] EXCEPT !.at = "acquire", !.attempt = call[s].attempt + 1].at = "acquire"
      BY <3>1 DEF Call
    <3> QED BY <3>2
  <2>2. call' = [call EXCEPT ![s] = c]
    BY <1>1, <2>1 DEF Ssh!TryAgain
  <2> QED BY <2>1, <2>2 DEF OthersCall, SshInv, CallsTyped
<1>2. CASE ~ (call[s].attempt < Retries)
  BY <1>2, RaiseIs DEF Ssh!TryAgain
<1> QED BY <1>1, <1>2

OthersWires(s) ==
  /\ chan' \in [Sessions -> Channels] /\ mode' \in [Sessions -> Ssh!Prompts]
  /\ owed' \in [Sessions -> Seq(Line)] /\ inbox' \in [Sessions -> Seq(Chunk)]
  /\ \A t \in Sessions \ {s} : chan'[t] = chan[t] /\ owed'[t] = owed[t] /\ inbox'[t] = inbox[t]

LEMMA NewChannelIs ==
  ASSUME SshInv, NEW s \in Sessions, NEW state \in Channels, NEW first \in Ssh!Prompts, NEW lines \in Seq(Line),
         Ssh!NewChannel(s, state, first, lines)
  PROVE  OthersWires(s) /\ chan'[s] = state /\ owed'[s] = lines /\ inbox'[s] = <<>>
BY DEF Ssh!NewChannel, OthersWires, SshInv, WiresTyped

LEMMA CloseIs ==
  ASSUME Ssh!SessionAssumption, SshInv, NEW s \in Sessions, Ssh!Close(s)
  PROVE  OthersWires(s) /\ chan'[s] = "none"
<1>1. Ssh!FirstPrompt(s) \in Ssh!Prompts /\ "none" \in Channels /\ <<>> \in Seq(Line)
  BY LoginTable DEF Channels
<1> QED BY <1>1, NewChannelIs DEF Ssh!Close

LEMMA WiresKept == ASSUME SshInv, NEW s \in Sessions, UNCHANGED <<chan, mode, owed, inbox>> PROVE OthersWires(s)
BY DEF OthersWires, SshInv, WiresTyped

LEMMA HistoryKept == ASSUME SshInv, UNCHANGED <<runs, answers, impatient>> PROVE HistoryTyped'
BY DEF SshInv, HistoryTyped

LEMMA BufferKept == ASSUME SshInv, UNCHANGED buf PROVE buf' \in [Sessions -> Buffer]
BY DEF SshInv, WiresTyped

LEMMA TailOfOne == \A S : \A q \in Seq(S) : Len(q) = 1 => Tail(q) = <<>>
<1> SUFFICES ASSUME NEW S, NEW q \in Seq(S), Len(q) = 1 PROVE Tail(q) = <<>>
  OBVIOUS
<1>1. Tail(q) \in Seq(S) /\ Len(Tail(q)) = 0
  BY HeadTailProperties
<1> QED BY <1>1, EmptySeq

\* A channel that is gone, and an answer as before: nothing else is claimed.
LEMMA GoneIsPatient ==
  ASSUME SshInv, NEW s \in Sessions, chan'[s] = "none", UNCHANGED <<answers, impatient>> PROVE Patient(s)'
BY OfOne DEF Patient, Orderly

-----------------------------------------------------------------------------
(* The device.                                                             *)

LEMMA AnswerStep == ASSUME Ssh!SessionAssumption, SshInv, NEW s \in Sessions, Ssh!Answer(s) PROVE SshInv'
<1>0. UNCHANGED <<permits, call, buf, runs, answers, impatient, chan>> /\ chan[s] = "open" /\ owed[s] # <<>>
  BY DEF Ssh!Answer, Ssh!UnchangedByDevice
<1>1. PICK prompt \in Ssh!After(mode[s], Head(owed[s]).line) :
         /\ mode' = [mode EXCEPT ![s] = prompt]
         /\ inbox' = [inbox EXCEPT ![s] = Append(inbox[s], [of |-> Head(owed[s]).no, end |-> prompt])]
         /\ owed' = [owed EXCEPT ![s] = Tail(owed[s])]
  BY DEF Ssh!Answer
<1>2. prompt \in Ssh!Prompts
  BY DEF Ssh!After, Ssh!Prompts, SshInv, WiresTyped
<1>3. Head(owed[s]) \in Line /\ Tail(owed[s]) \in Seq(Line) /\ Head(owed[s]) = owed[s][1] /\ Len(owed[s]) \in Nat
      /\ Len(owed[s]) >= 1
  BY <1>0, OfOne
<1>4. PICK chunk \in Chunk : chunk = [of |-> Head(owed[s]).no, end |-> prompt] /\ chunk.of = Head(owed[s]).no
  <2>1. [of |-> Head(owed[s]).no, end |-> prompt] \in Chunk
    BY <1>2, <1>3 DEF Line, Chunk
  <2> QED BY <2>1
<1>5. inbox' = [inbox EXCEPT ![s] = Append(inbox[s], chunk)] /\ Append(inbox[s], chunk) \in Seq(Chunk)
  BY <1>1, <1>4, OfOne
<1>6. OthersWires(s) /\ inbox'[s] = Append(inbox[s], chunk) /\ owed'[s] = Tail(owed[s])
  BY <1>0, <1>1, <1>2, <1>3, <1>5 DEF OthersWires, SshInv, WiresTyped
<1>7. Patient(s)'
  <2> SUFFICES ASSUME ~ impatient[s] PROVE Orderly(s)'
    BY <1>0 DEF Patient
  <2>1. Orderly(s)
    BY OfOne DEF Patient
  <2>2. call[s].at \notin {"idle", "send"}
    BY <1>0, <2>1 DEF Orderly, Silent
  <2>3. CASE call[s].at \in {"login", "read"}
    <3>1. Len(owed[s]) = 1 /\ inbox[s] = <<>> /\ buf[s] = Ssh!Nothing
      BY <1>0, <1>3, <2>1, <2>3 DEF Orderly, OneOnTheWay, Silent
    <3>2. owed'[s] = <<>>
      BY <1>6, <3>1, OfOne, TailOfOne
    <3>5. inbox'[s] = <<chunk>>
      BY <1>6, <3>1
    <3>3. OneOnTheWay(s)'
      BY <1>0, <3>1, <3>2, <3>5 DEF OneOnTheWay
    <3>4. call[s].at = "read" => Mine(s)'
      <4> SUFFICES ASSUME call[s].at = "read" PROVE Mine(s)'
        OBVIOUS
      <4>1. owed[s][1].no = runs[s] /\ buf[s].of \subseteq {runs[s]}
        BY <1>0, <1>3, <2>1 DEF Orderly, Mine
      <4> QED BY <1>0, <1>3, <1>4, <3>2, <3>5, <4>1 DEF Mine
    <3> QED BY <1>0, <2>1, <2>3, <3>3, <3>4 DEF Orderly
  <2> QED BY <1>0, <2>1, <2>2, <2>3 DEF Orderly
<1>8. Others(s) /\ WiresTyped' /\ HistoryTyped' /\ call' \in [Sessions -> Call]
  BY <1>0, <1>6, HistoryKept, BufferKept DEF Others, OthersWires, WiresTyped, SshInv, CallsTyped
<1> QED BY <1>0, <1>7, <1>8, OfOne, SessionMoves

LEMMA DiesStep == ASSUME Ssh!SessionAssumption, SshInv, NEW s \in Sessions, Ssh!Dies(s) PROVE SshInv'
<1>0. UNCHANGED <<permits, call, buf, runs, answers, impatient, mode, owed, inbox>> /\ chan[s] = "open"
      /\ chan' = [chan EXCEPT ![s] = "dead"]
  BY DEF Ssh!Dies, Ssh!UnchangedByDevice, Ssh!wire
<1>1. chan' \in [Sessions -> Channels] /\ chan'[s] = "dead"
  BY <1>0 DEF SshInv, WiresTyped, Channels
<1>2. Patient(s)'
  BY <1>0, <1>1, OfOne DEF Patient, Orderly, OneOnTheWay, Silent, Mine
<1>3. Others(s) /\ WiresTyped' /\ HistoryTyped' /\ call' \in [Sessions -> Call]
  BY <1>0, <1>1, HistoryKept DEF Others, WiresTyped, SshInv, CallsTyped
<1> QED BY <1>0, <1>2, <1>3, OfOne, SessionMoves

LEMMA ClosedElsewhereStep ==
  ASSUME Ssh!SessionAssumption, SshInv, NEW s \in Sessions, Ssh!ClosedElsewhere(s) PROVE SshInv'
<1>0. UNCHANGED <<permits, call, buf, runs, answers, impatient>> /\ Ssh!Close(s)
  BY DEF Ssh!ClosedElsewhere
<1>1. OthersWires(s) /\ chan'[s] = "none"
  BY <1>0, CloseIs
<1>2. Patient(s)'
  BY <1>0, <1>1, GoneIsPatient
<1>3. Others(s) /\ WiresTyped' /\ HistoryTyped' /\ call' \in [Sessions -> Call]
  BY <1>0, <1>1, HistoryKept DEF Others, OthersWires, WiresTyped, SshInv, CallsTyped
<1> QED BY <1>0, <1>2, <1>3, OfOne, SessionMoves

-----------------------------------------------------------------------------
(* run().                                                                  *)

LEMMA RunStep == ASSUME Ssh!SessionAssumption, SshInv, NEW s \in Sessions, Ssh!Run(s) PROVE SshInv'
<1>0. UNCHANGED <<permits, chan, mode, owed, inbox, buf, answers, impatient>> /\ call[s].at = "idle"
      /\ runs' = [runs EXCEPT ![s] = runs[s] + 1]
  BY DEF Ssh!Run, Ssh!wire
<1>1. PICK c \in Call : call' = [call EXCEPT ![s] = c] /\ c.at = IF chan[s] = "open" THEN "send" ELSE "acquire"
  <2>0. (IF chan[s] = "open" THEN "send" ELSE "acquire") \in Stages
    BY DEF Stages
  <2>1. PICK at \in Stages : at = IF chan[s] = "open" THEN "send" ELSE "acquire"
    BY <2>0
  <2>2. [Ssh!Idle EXCEPT !.at = at, !.attempt = 1, !.try = 1] \in Call
        /\ [Ssh!Idle EXCEPT !.at = at, !.attempt = 1, !.try = 1].at = at
    <3>1. Ssh!Idle \in Call
      BY IdleAndNothing
    <3>2. 1 \in 0..Retries /\ 1 \in 0..Resends
      BY DEF Ssh!SessionAssumption
    <3> QED BY <3>1, <3>2 DEF Call
  <2>3. call' = [call EXCEPT ![s] = [Ssh!Idle EXCEPT !.at = at, !.attempt = 1, !.try = 1]]
    BY <2>1 DEF Ssh!Run, Ssh!Connected
  <2> QED BY <2>1, <2>2, <2>3
<1>2. call' \in [Sessions -> Call] /\ call'[s] = c
  BY <1>1 DEF SshInv, CallsTyped
<1>3. Patient(s)'
  BY <1>0, <1>1, <1>2, OfOne DEF Patient, Orderly, Silent
<1>4. Others(s) /\ WiresTyped' /\ HistoryTyped'
  BY <1>0, <1>1 DEF Others, WiresTyped, SshInv, CallsTyped, HistoryTyped
<1>5. permits' + PermitAt(call'[s].at) = permits + PermitAt(call[s].at)
  BY <1>0, <1>1, <1>2 DEF PermitAt
<1>6. call'[s].at # "login"
  BY <1>1, <1>2
<1> QED BY <1>0, <1>2, <1>3, <1>4, <1>5, <1>6, OfOne, SessionMoves

LEMMA AcquirePermitStep == ASSUME Ssh!SessionAssumption, SshInv, NEW s \in Sessions, Ssh!Acquire(s) PROVE SshInv'
<1>0. UNCHANGED <<buf, runs, answers, impatient>> /\ call[s].at = "acquire" /\ Ssh!Close(s)
  BY DEF Ssh!Acquire, Ssh!UnchangedHistory
<1>1. OthersWires(s) /\ chan'[s] = "none"
  BY <1>0, CloseIs
<1>2. OthersCall(s) /\ permits' \in Nat /\ call'[s].at # "login"
      /\ permits' + PermitAt(call'[s].at) = permits + PermitAt(call[s].at)
  <2>1. CASE permits > 0 /\ permits' = permits - 1 /\ Ssh!Goto(s, "handshake")
    <3>1. OthersCall(s) /\ call'[s].at = "handshake"
      BY <2>1, GotoIs DEF Stages
    <3> QED BY <1>0, <2>1, <3>1, OfOne DEF PermitAt
  <2>2. CASE permits = 0 /\ permits' = permits /\ Ssh!Raise(s)
    <3>1. OthersCall(s) /\ call'[s].at = "idle"
      BY <2>2, RaiseIs
    <3> QED BY <1>0, <2>2, <3>1 DEF PermitAt
  <2> QED BY <2>1, <2>2 DEF Ssh!Acquire
<1>3. Patient(s)'
  BY <1>0, <1>1, GoneIsPatient
<1>4. Others(s) /\ WiresTyped' /\ HistoryTyped' /\ call' \in [Sessions -> Call]
  BY <1>0, <1>1, <1>2, HistoryKept DEF Others, OthersWires, OthersCall, WiresTyped, SshInv
<1> QED BY <1>2, <1>3, <1>4, SessionMoves

LEMMA HandshakeStep == ASSUME Ssh!SessionAssumption, SshInv, NEW s \in Sessions, Ssh!Handshake(s) PROVE SshInv'
<1>0. UNCHANGED <<runs, answers, impatient>> /\ call[s].at = "handshake"
  BY DEF Ssh!Handshake, Ssh!UnchangedHistory
<1>1. CASE Ssh!ReleasePermit /\ Ssh!Close(s) /\ Ssh!TryAgain(s) /\ UNCHANGED buf
  <2>1. OthersWires(s) /\ chan'[s] = "none" /\ OthersCall(s) /\ call'[s].at \in {"acquire", "idle"}
    BY <1>1, CloseIs, TryAgainIs
  <2>2. permits' = permits + 1 /\ permits \in Nat
    BY <1>1, OfOne DEF Ssh!ReleasePermit
  <2>3. permits' \in Nat /\ permits' + PermitAt(call'[s].at) = permits + PermitAt(call[s].at) /\ call'[s].at # "login"
    BY <1>0, <2>1, <2>2 DEF PermitAt
  <2>4. Patient(s)'
    BY <1>0, <2>1, GoneIsPatient
  <2>5. Others(s) /\ WiresTyped' /\ HistoryTyped' /\ call' \in [Sessions -> Call]
    BY <1>0, <1>1, <2>1, HistoryKept DEF Others, OthersWires, OthersCall, WiresTyped, SshInv
  <2> QED BY <2>3, <2>4, <2>5, SessionMoves
<1>2. CASE /\ Ssh!NewChannel(s, "open", Ssh!FirstPrompt(s), <<[no |-> 0, line |-> "login"]>>)
           /\ call' = [call EXCEPT ![s] = [@ EXCEPT !.at = "login", !.step = 1]]
           /\ buf' = [buf EXCEPT ![s] = Ssh!Nothing] /\ UNCHANGED permits
  <2>1. [no |-> 0, line |-> "login"] \in Line
    BY DEF Line, Lines
  <2>2. <<[no |-> 0, line |-> "login"]>> \in Seq(Line) /\ "open" \in Channels
    BY <2>1 DEF Channels
  <2>3. OthersWires(s) /\ chan'[s] = "open" /\ owed'[s] = <<[no |-> 0, line |-> "login"]>> /\ inbox'[s] = <<>>
    BY <1>2, <2>2, LoginTable, NewChannelIs
  <2>4. PICK c \in Call : c = [call[s] EXCEPT !.at = "login", !.step = 1] /\ c.at = "login" /\ c.step = 1
    <3>1. call[s] \in Call /\ "login" \in Stages
      BY OfOne DEF Stages
    <3>2. /\ [call[s] EXCEPT !.at = "login", !.step = 1] \in Call
          /\ [call[s] EXCEPT !.at = "login", !.step = 1].at = "login"
          /\ [call[s] EXCEPT !.at = "login", !.step = 1].step = 1
      BY <3>1 DEF Call
    <3> QED BY <3>2
  <2>5. call' \in [Sessions -> Call] /\ call'[s] = c /\ \A t \in Sessions \ {s} : call'[t] = call[t]
    BY <1>2, <2>4 DEF SshInv, CallsTyped
  <2>6. call'[s].step \in 1..Len(Ssh!Login(s))
    BY <2>4, <2>5, LoginTable
  <2>7. buf' \in [Sessions -> Buffer] /\ buf'[s] = Ssh!Nothing /\ \A t \in Sessions \ {s} : buf'[t] = buf[t]
    BY <1>2, IdleAndNothing DEF SshInv, WiresTyped
  <2>8. Patient(s)'
    <3>1. OneOnTheWay(s)'
      BY <2>3, <2>7 DEF OneOnTheWay
    <3> QED BY <1>0, <2>4, <2>5, <3>1, OfOne DEF Patient, Orderly
  <2>9. Others(s) /\ WiresTyped' /\ HistoryTyped'
    BY <1>0, <2>3, <2>5, <2>7, HistoryKept DEF Others, OthersWires, WiresTyped, SshInv
  <2>10. permits' \in Nat /\ permits' + PermitAt(call'[s].at) = permits + PermitAt(call[s].at)
    BY <1>0, <1>2, <2>4, <2>5, OfOne DEF PermitAt
  <2> QED BY <2>5, <2>6, <2>8, <2>9, <2>10, SessionMoves
<1> QED BY <1>1, <1>2 DEF Ssh!Handshake

LEMMA ReadChunkStep == ASSUME Ssh!SessionAssumption, SshInv, NEW s \in Sessions, Ssh!ReadChunk(s) PROVE SshInv'
<1>0. UNCHANGED <<permits, call, chan, mode, owed, runs, answers, impatient>> /\ inbox[s] # <<>>
      /\ call[s].at \in {"login", "read"} /\ chan[s] # "none" /\ inbox' = [inbox EXCEPT ![s] = Tail(inbox[s])]
  BY DEF Ssh!ReadChunk, Ssh!UnchangedHistory, Ssh!Reading
<1>1. Head(inbox[s]) \in Chunk /\ Tail(inbox[s]) \in Seq(Chunk) /\ Head(inbox[s]) = inbox[s][1] /\ Len(inbox[s]) \in Nat
      /\ Len(inbox[s]) >= 1
  BY <1>0, OfOne
<1>2. PICK b \in Buffer : /\ buf' = [buf EXCEPT ![s] = b]
                          /\ b.of = buf[s].of \cup {Head(inbox[s]).of}
  <2>1. [of |-> buf[s].of \cup {Head(inbox[s]).of}, end |-> Head(inbox[s]).end] \in Buffer
    BY <1>1, OfOne DEF Buffer, Chunk
  <2> QED BY <2>1 DEF Ssh!ReadChunk
<1>3. /\ buf' \in [Sessions -> Buffer] /\ buf'[s] = b /\ inbox'[s] = Tail(inbox[s])
      /\ \A t \in Sessions \ {s} : buf'[t] = buf[t]
      /\ inbox' \in [Sessions -> Seq(Chunk)] /\ \A t \in Sessions \ {s} : inbox'[t] = inbox[t]
  BY <1>0, <1>1, <1>2 DEF SshInv, WiresTyped
<1>4. Patient(s)'
  <2> SUFFICES ASSUME ~ impatient[s] PROVE Orderly(s)'
    BY <1>0 DEF Patient
  <2>1. Orderly(s)
    BY OfOne DEF Patient
  <2>2. owed[s] = <<>> /\ Len(inbox[s]) = 1
    BY <1>0, <2>1 DEF Orderly, OneOnTheWay, Silent
  <2>3. inbox'[s] = <<>>
    BY <1>3, <2>2, OfOne, TailOfOne
  <2>4. OneOnTheWay(s)'
    BY <1>0, <2>2, <2>3 DEF OneOnTheWay, Silent
  <2>5. call[s].at = "read" => Mine(s)'
    <3> SUFFICES ASSUME call[s].at = "read" PROVE Mine(s)'
      OBVIOUS
    <3>1. inbox[s][1].of = runs[s] /\ buf[s].of \subseteq {runs[s]}
      BY <1>0, <1>1, <2>1 DEF Orderly, Mine
    <3> QED BY <1>0, <1>1, <1>2, <1>3, <2>2, <2>3, <3>1 DEF Mine
  <2> QED BY <1>0, <2>1, <2>4, <2>5 DEF Orderly
<1>5. Others(s) /\ WiresTyped' /\ HistoryTyped' /\ call' \in [Sessions -> Call]
  BY <1>0, <1>3, HistoryKept DEF Others, WiresTyped, SshInv, CallsTyped
<1> QED BY <1>0, <1>4, <1>5, OfOne, SessionMoves

\* A patient read that returns leaves nothing on an open channel.
LEMMA ReadEnds ==
  ASSUME Ssh!SessionAssumption, SshInv, NEW s \in Sessions, Ssh!ReadReturns(s)
  PROVE  /\ impatient' \in [Sessions -> BOOLEAN] /\ \A t \in Sessions \ {s} : impatient'[t] = impatient[t]
         /\ ~ impatient'[s] => ~ impatient[s] /\ Orderly(s) /\ (chan[s] = "open" => Silent(s))
<1>0. /\ call[s].at \in {"login", "read"} /\ chan[s] # "none"
      /\ impatient' = [impatient EXCEPT ![s] = impatient[s] \/ ~ (Ssh!AtPrompt(s) \/ Ssh!Hopeless(s))]
  BY DEF Ssh!ReadReturns, Ssh!Reading
<1>1. impatient \in [Sessions -> BOOLEAN]
  BY DEF SshInv, HistoryTyped
<1>2. impatient' \in [Sessions -> BOOLEAN] /\ \A t \in Sessions \ {s} : impatient'[t] = impatient[t]
  BY <1>0, <1>1
<1>3. ~ impatient'[s] => ~ impatient[s] /\ (Ssh!AtPrompt(s) \/ Ssh!Hopeless(s))
  BY <1>0, <1>1
<1>4. ASSUME ~ impatient[s], Ssh!AtPrompt(s) \/ Ssh!Hopeless(s), chan[s] = "open" PROVE Silent(s)
  <2>1. OneOnTheWay(s)
    BY <1>0, <1>4, OfOne DEF Patient, Orderly
  <2>2. CASE Ssh!AtPrompt(s)
    <3>1. "none" \notin Ssh!Until(s)
      BY OfOne, LoginTable DEF Ssh!Until, Ssh!PROMPT_RE
    <3>2. buf[s] # Ssh!Nothing
      BY <2>2, <3>1 DEF Ssh!AtPrompt, Ssh!Nothing
    <3> QED BY <2>1, <3>2 DEF OneOnTheWay
  <2>3. CASE Ssh!Hopeless(s)
    BY <1>4, <2>3 DEF Ssh!Hopeless, Silent
  <2> QED BY <1>4, <2>2, <2>3
<1> QED BY <1>2, <1>3, <1>4, OfOne DEF Patient

LEMMA LoginReturnsStep == ASSUME Ssh!SessionAssumption, SshInv, NEW s \in Sessions, Ssh!LoginReturns(s) PROVE SshInv'
<1> DEFINE step == call[s].step
           next == Ssh!StepAfter(s, step, buf[s].end)
           need == Ssh!Login(s)[step].need
<1>0. UNCHANGED <<runs, answers>> /\ call[s].at = "login" /\ Ssh!ReadReturns(s)
  BY DEF Ssh!LoginReturns
<1>1. HistoryTyped' /\ \A t \in Sessions \ {s} : impatient'[t] = impatient[t]
  BY <1>0, ReadEnds DEF SshInv, HistoryTyped
<1>2. ~ impatient'[s] => Orderly(s) /\ (chan[s] = "open" => Silent(s))
  BY <1>0, ReadEnds
<1>3. permits \in Nat /\ step \in 1..Len(Ssh!Login(s)) /\ Len(Ssh!Login(s)) \in Nat /\ next \in Nat /\ 1 <= next
  BY <1>0, OfOne, LoginTable
\* The login is over, or given up.
<1>4. ASSUME NEW at \in {"idle", "send"}, OthersCall(s), call'[s].at = at, Ssh!ReleasePermit,
             UNCHANGED <<chan, mode, owed, inbox, buf>>
      PROVE  SshInv'
  <2>1. permits' \in Nat /\ permits' + PermitAt(call'[s].at) = permits + PermitAt(call[s].at) /\ call'[s].at # "login"
    BY <1>0, <1>3, <1>4 DEF PermitAt, Ssh!ReleasePermit
  <2>2. Patient(s)'
    BY <1>0, <1>2, <1>4 DEF Patient, Orderly, Silent
  <2>3. Others(s) /\ WiresTyped' /\ call' \in [Sessions -> Call]
    BY <1>0, <1>1, <1>4 DEF Others, OthersCall, WiresTyped, SshInv
  <2> QED BY <1>1, <2>1, <2>2, <2>3, SessionMoves
<1>5. CASE need # {} /\ buf[s].end \notin need
  <2>1. Ssh!ReleasePermit /\ Ssh!Raise(s) /\ UNCHANGED <<chan, mode, owed, inbox, buf>>
    BY <1>5 DEF Ssh!LoginReturns, Ssh!wire
  <2>2. OthersCall(s) /\ call'[s].at = "idle"
    BY <2>1, RaiseIs
  <2> QED BY <1>4, <2>1, <2>2
<1>6. CASE (need = {} \/ buf[s].end \in need) /\ next > Len(Ssh!Login(s))
  <2>1. Ssh!ReleasePermit /\ Ssh!Goto(s, "send") /\ UNCHANGED <<chan, mode, owed, inbox, buf>>
    BY <1>6 DEF Ssh!LoginReturns, Ssh!wire
  <2>2. OthersCall(s) /\ call'[s].at = "send"
    BY <2>1, GotoIs DEF Stages
  <2> QED BY <1>4, <2>1, <2>2
<1>7. CASE (need = {} \/ buf[s].end \in need) /\ ~ (next > Len(Ssh!Login(s))) /\ chan[s] = "open"
  <2>1. Ssh!SendLogin(s, next) /\ UNCHANGED <<permits, chan, mode, inbox>>
    BY <1>7 DEF Ssh!LoginReturns
  <2>2. next \in 1..Len(Ssh!Login(s))
    BY <1>3, <1>7
  <2>3. PICK line \in Line : line = [no |-> 0, line |-> Ssh!Login(s)[next].send]
    BY <2>2, LoginTable DEF Line
  <2> HIDE DEF next, need, step
  <2>4. PICK c \in Call : c = [call[s] EXCEPT !.at = "login", !.step = next] /\ c.at = "login" /\ c.step = next
    <3>1. call[s] \in Call /\ "login" \in Stages
      BY OfOne DEF Stages
    <3>2. /\ [call[s] EXCEPT !.at = "login", !.step = next] \in Call
          /\ [call[s] EXCEPT !.at = "login", !.step = next].at = "login"
          /\ [call[s] EXCEPT !.at = "login", !.step = next].step = next
      BY <1>3, <3>1 DEF Call
    <3> QED BY <3>2
  <2>5. owed' = [owed EXCEPT ![s] = Append(owed[s], line)] /\ call' = [call EXCEPT ![s] = c]
        /\ buf' = [buf EXCEPT ![s] = Ssh!Nothing]
    BY <2>1, <2>3, <2>4 DEF Ssh!SendLogin
  <2>6. Append(owed[s], line) \in Seq(Line)
    BY OfOne
  <2>7. /\ call' \in [Sessions -> Call] /\ call'[s] = c
        /\ owed' \in [Sessions -> Seq(Line)] /\ owed'[s] = Append(owed[s], line)
        /\ buf' \in [Sessions -> Buffer] /\ buf'[s] = Ssh!Nothing
        /\ \A t \in Sessions \ {s} : call'[t] = call[t] /\ owed'[t] = owed[t] /\ buf'[t] = buf[t]
    BY <2>5, <2>6, IdleAndNothing DEF SshInv, CallsTyped, WiresTyped
  <2>8. Patient(s)'
    <3> SUFFICES ASSUME ~ impatient'[s] PROVE Orderly(s)'
      BY DEF Patient
    <3>1. Orderly(s) /\ Silent(s)
      BY <1>2, <1>7
    <3>2. owed'[s] = <<line>> /\ inbox'[s] = <<>>
      BY <2>1, <2>7, <3>1 DEF Silent
    <3>3. OneOnTheWay(s)'
      BY <2>7, <3>2 DEF OneOnTheWay
    <3> QED BY <1>0, <2>4, <2>7, <3>1, <3>3 DEF Orderly
  <2>9. Others(s) /\ WiresTyped'
    BY <1>0, <1>1, <2>1, <2>7 DEF Others, WiresTyped, SshInv
  <2>10. permits' \in Nat /\ permits' + PermitAt(call'[s].at) = permits + PermitAt(call[s].at)
    BY <1>0, <1>3, <2>1, <2>4, <2>7 DEF PermitAt
  <2>11. call'[s].step \in 1..Len(Ssh!Login(s))
    BY <2>2, <2>4, <2>7
  <2> QED BY <1>1, <2>7, <2>8, <2>9, <2>10, <2>11, SessionMoves
<1>8. CASE (need = {} \/ buf[s].end \in need) /\ ~ (next > Len(Ssh!Login(s))) /\ chan[s] # "open"
  <2>1. Ssh!ReleasePermit /\ Ssh!Close(s) /\ Ssh!TryAgain(s) /\ UNCHANGED buf
    BY <1>8 DEF Ssh!LoginReturns
  <2>2. OthersWires(s) /\ chan'[s] = "none" /\ OthersCall(s) /\ call'[s].at \in {"acquire", "idle"}
    BY <2>1, CloseIs, TryAgainIs
  <2>3. permits' \in Nat /\ permits' + PermitAt(call'[s].at) = permits + PermitAt(call[s].at) /\ call'[s].at # "login"
    BY <1>0, <1>3, <2>1, <2>2 DEF PermitAt, Ssh!ReleasePermit
  <2>4. Patient(s)'
    BY <1>0, <1>2, <2>2 DEF Patient, Orderly
  <2>5. Others(s) /\ WiresTyped' /\ call' \in [Sessions -> Call]
    BY <1>0, <1>1, <2>1, <2>2 DEF Others, OthersWires, OthersCall, WiresTyped, SshInv
  <2> QED BY <1>1, <2>3, <2>4, <2>5, SessionMoves
<1> QED BY <1>5, <1>6, <1>7, <1>8

LEMMA SendStep == ASSUME Ssh!SessionAssumption, SshInv, NEW s \in Sessions, Ssh!Send(s) PROVE SshInv'
<1>0. UNCHANGED <<permits, chan, mode, inbox, runs, answers, impatient>> /\ call[s].at = "send" /\ chan[s] = "open"
      /\ buf' = [buf EXCEPT ![s] = Ssh!Nothing] /\ Ssh!Goto(s, "read")
  BY DEF Ssh!Send, Ssh!UnchangedHistory
<1>1. PICK line \in Line : line = [no |-> runs[s], line |-> "show"] /\ line.no = runs[s]
  <2>1. [no |-> runs[s], line |-> "show"] \in Line
    BY OfOne DEF Line, Lines
  <2> QED BY <2>1
<1>2. owed' = [owed EXCEPT ![s] = Append(owed[s], line)] /\ Append(owed[s], line) \in Seq(Line)
  BY <1>1, OfOne DEF Ssh!Send
<1>3. OthersCall(s) /\ call'[s].at = "read"
  BY <1>0, GotoIs DEF Stages
<1>4. /\ owed' \in [Sessions -> Seq(Line)] /\ owed'[s] = Append(owed[s], line)
      /\ buf' \in [Sessions -> Buffer] /\ buf'[s] = Ssh!Nothing
      /\ \A t \in Sessions \ {s} : owed'[t] = owed[t] /\ buf'[t] = buf[t]
  BY <1>0, <1>2, IdleAndNothing DEF SshInv, WiresTyped
<1>5. Patient(s)'
  <2> SUFFICES ASSUME ~ impatient[s] PROVE Orderly(s)'
    BY <1>0 DEF Patient
  <2>1. Orderly(s) /\ Silent(s)
    BY <1>0, OfOne DEF Patient, Orderly
  <2>2. owed'[s] = <<line>> /\ inbox'[s] = <<>>
    BY <1>0, <1>4, <2>1 DEF Silent
  <2>3. OneOnTheWay(s)'
    BY <1>4, <2>2 DEF OneOnTheWay
  <2>4. Mine(s)'
    <3>1. buf'[s].of = {} /\ runs'[s] = runs[s]
      BY <1>0, <1>4, IdleAndNothing
    <3>2. \A i \in DOMAIN <<line>> : <<line>>[i] = line
      OBVIOUS
    <3> QED BY <1>1, <2>2, <3>1, <3>2 DEF Mine
  <2> QED BY <1>0, <1>3, <2>1, <2>3, <2>4 DEF Orderly
<1>6. Others(s) /\ WiresTyped' /\ HistoryTyped' /\ call' \in [Sessions -> Call]
  BY <1>0, <1>3, <1>4, HistoryKept DEF Others, OthersCall, WiresTyped, SshInv
<1>7. permits' \in Nat /\ permits' + PermitAt(call'[s].at) = permits + PermitAt(call[s].at) /\ call'[s].at # "login"
  BY <1>0, <1>3, OfOne DEF PermitAt
<1> QED BY <1>5, <1>6, <1>7, SessionMoves

LEMMA SendFailsStep == ASSUME Ssh!SessionAssumption, SshInv, NEW s \in Sessions, Ssh!SendFails(s) PROVE SshInv'
<1>0. UNCHANGED <<permits, buf, runs, answers, impatient>> /\ call[s].at = "send" /\ Ssh!Close(s)
  BY DEF Ssh!SendFails, Ssh!UnchangedHistory
<1>1. OthersWires(s) /\ chan'[s] = "none"
  BY <1>0, CloseIs
<1>2. OthersCall(s) /\ call'[s].at \in {"acquire", "idle"}
  <2>1. CASE call[s].try < Resends
    <3>1. PICK c \in Call : c = [call[s] EXCEPT !.at = "acquire", !.try = call[s].try + 1, !.attempt = 1] /\ c.at = "acquire"
      <4>1. call[s] \in Call /\ "acquire" \in Stages /\ call[s].try + 1 \in 0..Resends /\ 1 \in 0..Retries
        BY <2>1, OfOne DEF Call, Stages, Ssh!SessionAssumption
      <4>2. /\ [call[s] EXCEPT !.at = "acquire", !.try = call[s].try + 1, !.attempt = 1] \in Call
            /\ [call[s] EXCEPT !.at = "acquire", !.try = call[s].try + 1, !.attempt = 1].at = "acquire"
        BY <4>1 DEF Call
      <4> QED BY <4>2
    <3>2. call' = [call EXCEPT ![s] = c]
      BY <2>1, <3>1 DEF Ssh!SendFails
    <3> QED BY <3>1, <3>2 DEF OthersCall, SshInv, CallsTyped
  <2>2. CASE ~ (call[s].try < Resends)
    BY <2>2, RaiseIs DEF Ssh!SendFails
  <2> QED BY <2>1, <2>2
<1>3. Patient(s)'
  BY <1>0, <1>1, GoneIsPatient
<1>4. Others(s) /\ WiresTyped' /\ HistoryTyped' /\ call' \in [Sessions -> Call]
  BY <1>0, <1>1, <1>2, HistoryKept DEF Others, OthersWires, OthersCall, WiresTyped, SshInv
<1>5. permits' \in Nat /\ permits' + PermitAt(call'[s].at) = permits + PermitAt(call[s].at) /\ call'[s].at # "login"
  BY <1>0, <1>2, OfOne DEF PermitAt
<1> QED BY <1>3, <1>4, <1>5, SessionMoves

LEMMA RunReturnsStep == ASSUME Ssh!SessionAssumption, SshInv, NEW s \in Sessions, Ssh!RunReturns(s) PROVE SshInv'
<1>0. UNCHANGED <<permits, chan, mode, owed, inbox, buf, runs>> /\ call[s].at = "read" /\ Ssh!ReadReturns(s)
      /\ Ssh!Raise(s)
  BY DEF Ssh!RunReturns, Ssh!wire
<1>1. PICK a \in [to : Nat, of : SUBSET Nat] :
        answers' = [answers EXCEPT ![s] = a] /\ a.to = runs[s] /\ a.of = buf[s].of
  <2>1. [to |-> runs[s], of |-> buf[s].of] \in [to : Nat, of : SUBSET Nat]
    BY OfOne DEF Buffer
  <2> QED BY <2>1 DEF Ssh!RunReturns
<1>2. /\ answers' \in [Sessions -> [to : Nat, of : SUBSET Nat]] /\ answers'[s] = a
      /\ \A t \in Sessions \ {s} : answers'[t] = answers[t]
  BY <1>1 DEF SshInv, HistoryTyped
<1>3. OthersCall(s) /\ call'[s].at = "idle"
  BY <1>0, RaiseIs
<1>4. HistoryTyped' /\ \A t \in Sessions \ {s} : impatient'[t] = impatient[t]
  BY <1>0, <1>2, ReadEnds DEF SshInv, HistoryTyped
<1>5. Patient(s)'
  <2> SUFFICES ASSUME ~ impatient'[s] PROVE Orderly(s)'
    BY DEF Patient
  <2>1. Orderly(s) /\ (chan[s] = "open" => Silent(s)) /\ chan[s] # "none"
    BY <1>0, ReadEnds DEF Ssh!ReadReturns
  <2>2. buf[s].of \subseteq {runs[s]}
    BY <1>0, <2>1 DEF Orderly, Mine
  <2> QED BY <1>0, <1>1, <1>2, <1>3, <2>1, <2>2 DEF Orderly, Silent
<1>6. Others(s) /\ WiresTyped' /\ call' \in [Sessions -> Call]
  BY <1>0, <1>2, <1>3, <1>4 DEF Others, OthersCall, WiresTyped, SshInv
<1>7. permits' \in Nat /\ permits' + PermitAt(call'[s].at) = permits + PermitAt(call[s].at) /\ call'[s].at # "login"
  BY <1>0, <1>3, OfOne DEF PermitAt
<1> QED BY <1>4, <1>5, <1>6, <1>7, SessionMoves

LEMMA FindsNoneStep == ASSUME Ssh!SessionAssumption, SshInv, NEW s \in Sessions, Ssh!FindsNone(s) PROVE SshInv'
<1>0. UNCHANGED <<chan, mode, owed, inbox, buf, runs, answers, impatient>> /\ chan[s] = "none"
      /\ call[s].at \in {"login", "send", "read"} /\ Ssh!Raise(s)
      /\ permits' = IF call[s].at = "login" THEN permits + 1 ELSE permits
  BY DEF Ssh!FindsNone, Ssh!UnchangedHistory, Ssh!wire, Ssh!ReleasePermit
<1>1. OthersCall(s) /\ call'[s].at = "idle"
  BY <1>0, RaiseIs
<1>2. Patient(s)'
  BY <1>0, GoneIsPatient
<1>3. Others(s) /\ WiresTyped' /\ HistoryTyped' /\ call' \in [Sessions -> Call]
  BY <1>0, <1>1, HistoryKept DEF Others, OthersCall, WiresTyped, SshInv
<1>4. permits' \in Nat /\ permits' + PermitAt(call'[s].at) = permits + PermitAt(call[s].at) /\ call'[s].at # "login"
  BY <1>0, <1>1, OfOne DEF PermitAt
<1> QED BY <1>2, <1>3, <1>4, SessionMoves

LEMMA SshHolds == ASSUME Ssh!SessionAssumption, SshInv, [Ssh!Next]_(Ssh!switchVars) PROVE SshInv'
<1>1. CASE UNCHANGED Ssh!switchVars
  <2>1. UNCHANGED <<permits, call, chan, mode, owed, inbox, buf, runs, answers, impatient>>
    BY <1>1 DEF Ssh!switchVars
  <2>2. CallsTyped' /\ WiresTyped' /\ HistoryTyped' /\ PermitsBalance'
    BY <2>1 DEF SshInv, CallsTyped, WiresTyped, HistoryTyped, PermitsBalance, Holding
  <2>3. \A s \in Sessions : Patient(s)'
    BY <2>1 DEF SshInv, Patient, Orderly, Silent, OneOnTheWay, Mine
  <2> QED BY <2>2, <2>3 DEF SshInv
<1>2. CASE Ssh!Rest
  BY <1>1, <1>2 DEF Ssh!Rest
<1>3. ASSUME NEW s \in Sessions, Ssh!Client(s) PROVE SshInv'
  BY <1>3, AcquirePermitStep, HandshakeStep, LoginReturnsStep, SendStep, SendFailsStep, ReadChunkStep, RunReturnsStep,
     FindsNoneStep DEF Ssh!Client
<1> QED BY <1>1, <1>2, <1>3, RunStep, AnswerStep, DiesStep, ClosedElsewhereStep DEF Ssh!Next

LEMMA SshInvariant ==
  ASSUME Ssh!SessionAssumption PROVE Ssh!Init /\ [][Ssh!Next]_(Ssh!switchVars) => []SshInv
<1>1. Ssh!Init => SshInv
  BY SshInit
<1>2. SshInv /\ [Ssh!Next]_(Ssh!switchVars) => SshInv'
  BY SshHolds
<1> QED BY <1>1, <1>2, PTL

\* As long as no read is ended by the clock, run() returns what the device said to this
\* very command (ssh_client.py's run and _read_until), for any sessions and platforms,
\* whatever logins fail and channels die or are closed by another thread meanwhile.
THEOREM AnswersAreOnesOwn == ASSUME Ssh!SessionAssumption PROVE Ssh!Spec => []Ssh!AnswersItsCommand
<1>1. SshInv => Ssh!AnswersItsCommand
  BY AnswersImplied
<1> QED BY <1>1, SshInvariant, PTL DEF Ssh!Spec

\* Every permit of the handshake semaphore is with one session between its acquire and
\* its release, or back: it is neither lost nor given back twice, however a login ends.
THEOREM PermitsAreReturned == ASSUME Ssh!SessionAssumption PROVE Ssh!Spec => []PermitsBalance
<1>1. SshInv => PermitsBalance
  BY DEF SshInv
<1> QED BY <1>1, SshInvariant, PTL DEF Ssh!Spec

\* The calls, the channels and the semaphore keep their types.
THEOREM CallsStayTyped == ASSUME Ssh!SessionAssumption PROVE Ssh!Spec => []Ssh!TypeOK
<1>1. Ssh!SessionAssumption /\ SshInv => Ssh!TypeOK
  BY SshTypesImplied
<1> QED BY <1>1, SshInvariant, PTL DEF Ssh!Spec

-------------------------------------------------------------------------------
(***************************************************************************)
(* Housekeeping, for any schedules, policies and ages.  A step either      *)
(* leaves a saved result where there was one and an open event where there *)
(* was one (Kept), or counts as somebody's edit (Edited): one lemma per    *)
(* action says which.  That needs what the policies may name, and that no  *)
(* row is older than MaxAge, both from the assumption and the types.       *)
(***************************************************************************)
ScheduleRow == [interval : Intervals \cup {0}, enabled : BOOLEAN, left : Nat]
DueRun == [id : Schedules, interval : Intervals \cup {0}]
LoopState == [at : {"sleep", "run", "mark"}, run : DueRun \cup {House!NoRun}, todo : SUBSET DueRun]
PersonState == [at : {"away", "run", "mark"}, run : DueRun \cup {House!NoRun}]
PrunerState == [policy : 0..Len(Policies), left : 0..Day]

HouseTypes ==
  /\ schedule \in [Schedules -> ScheduleRow]
  /\ loop \in LoopState
  /\ loop.at = "mark" => loop.run \in DueRun
  /\ person \in PersonState
  /\ person.at # "away" => person.run \in DueRun
  /\ ages \in [House!Kinds -> SUBSET (0..MaxAge)]
  /\ pruner \in PrunerState
  /\ houseEdits \in Nat

\* What the deliberate keeps of a step are, next to what it leaves of them.
Kept == \A k \in {"saved", "open"} : ages[k] # {} => ages'[k] # {}
Edited == houseEdits' = houseEdits + 1
Keeps == Kept \/ Edited

-----------------------------------------------------------------------------
LEMMA HouseTypesImplied == HouseTypes => House!TypeOK
BY DEF HouseTypes, House!TypeOK, ScheduleRow, LoopState, PersonState, PrunerState

\* What a sequence holds has the type of its elements.
LEMMA ElementTyped == ASSUME NEW S, NEW q \in Seq(S), NEW i \in 1..Len(q) PROVE q[i] \in S
OBVIOUS

LEMMA HouseConstants ==
  ASSUME House!HouseAssumption
  PROVE  /\ Day \in Nat /\ MaxAge \in Nat /\ Intervals \subseteq Nat
         /\ Len(Policies) \in Nat /\ 1 <= Len(Policies) /\ DOMAIN Policies = 1..Len(Policies)
         /\ \A p \in DOMAIN Policies : Policies[p].kind \notin {"saved", "open"}
         /\ House!Deleted \in ScheduleRow
         /\ House!Slept \in LoopState /\ House!Slept.at = "sleep"
         /\ House!Away \in PersonState /\ House!Away.at = "away"
         /\ House!Asleep \in PrunerState /\ House!Startup \in PrunerState
<1>1. /\ Day \in Nat /\ MaxAge \in Nat /\ Intervals \subseteq Nat
      /\ Len(Policies) \in Nat /\ 1 <= Len(Policies) /\ DOMAIN Policies = 1..Len(Policies)
  BY DEF House!HouseAssumption
<1>2. ASSUME NEW p \in DOMAIN Policies PROVE Policies[p].kind \notin {"saved", "open"}
  <2>1. Policies[p] \in [kind : {"samples", "auto", "resolved"}, keep : Nat]
    <3>1. Policies \in Seq([kind : {"samples", "auto", "resolved"}, keep : Nat]) /\ p \in 1..Len(Policies)
      BY <1>1 DEF House!HouseAssumption
    <3> QED BY <3>1, ElementTyped
  <2>2. Policies[p].kind \in {"samples", "auto", "resolved"}
    BY <2>1
  <2> QED BY <2>2
<1>3. House!Deleted \in ScheduleRow
  BY DEF House!Deleted, ScheduleRow
<1>4. House!Slept \in LoopState /\ House!Slept.at = "sleep"
  BY DEF House!Slept, LoopState
<1>5. House!Away \in PersonState /\ House!Away.at = "away"
  BY DEF House!Away, PersonState
<1>6. House!Asleep \in PrunerState /\ House!Startup \in PrunerState
  BY <1>1 DEF House!Asleep, House!Startup, PrunerState
<1> QED BY <1>1, <1>2, <1>3, <1>4, <1>5, <1>6

LEMMA HouseInit == ASSUME House!HouseAssumption, House!Init PROVE HouseTypes
BY HouseConstants DEF House!Init, HouseTypes

\* A step that leaves the rows of all tables and the pruner alone.
RowsRest == ages' = ages /\ pruner' = pruner

LEMMA RowsRestKeep == RowsRest => Kept
BY DEF RowsRest, Kept

LEMMA SnapshotTyped ==
  ASSUME HouseTypes, NEW s \in Schedules PROVE House!Snapshot(s) \in DueRun
BY DEF HouseTypes, House!Snapshot, ScheduleRow, DueRun

LEMMA LookUpStep ==
  ASSUME House!HouseAssumption, HouseTypes, House!LookUpDue PROVE HouseTypes' /\ Kept
<1>1. UNCHANGED <<schedule, person, ages, pruner, houseEdits>>
  BY DEF House!LookUpDue
<1>2. {House!Snapshot(s) : s \in {t \in Schedules : House!Due(t)}} \in SUBSET DueRun
  BY SnapshotTyped
<1>3. loop' = [at |-> "run", run |-> House!NoRun, todo |-> {House!Snapshot(s) : s \in {t \in Schedules : House!Due(t)}}]
  BY DEF House!LookUpDue
<1>4. loop' \in LoopState /\ loop'.at = "run"
  BY <1>2, <1>3 DEF LoopState
<1> QED BY <1>1, <1>4 DEF HouseTypes, Kept

\* A run may add a result that is not kept on purpose.
LEMMA RunAndSaveIs ==
  ASSUME House!HouseAssumption, HouseTypes, House!RunAndSave
  PROVE  ages' \in [House!Kinds -> SUBSET (0..MaxAge)] /\ Kept
<1>1. ages \in [House!Kinds -> SUBSET (0..MaxAge)] /\ MaxAge \in Nat
  BY HouseConstants DEF HouseTypes
<1>2. CASE ages' = [ages EXCEPT !["auto"] = @ \cup {0}]
  BY <1>1, <1>2 DEF Kept, House!Kinds
<1>3. CASE ages' = ages
  BY <1>1, <1>3 DEF Kept
<1> QED BY <1>2, <1>3 DEF House!RunAndSave

LEMMA RunDueStep ==
  ASSUME House!HouseAssumption, HouseTypes, NEW s \in Schedules, House!RunDue(s) PROVE HouseTypes' /\ Kept
<1>1. UNCHANGED <<schedule, person, pruner, houseEdits>>
  BY DEF House!RunDue
<1>2. PICK run \in loop.todo : loop' = [at |-> "mark", run |-> run, todo |-> loop.todo \ {run}]
  BY DEF House!RunDue, House!Caught
<1>3. run \in DueRun /\ loop.todo \ {run} \in SUBSET DueRun
  BY <1>2 DEF HouseTypes, LoopState
<1>4. loop' \in LoopState /\ loop'.run \in DueRun
  BY <1>2, <1>3 DEF LoopState
<1>5. ages' \in [House!Kinds -> SUBSET (0..MaxAge)] /\ Kept
  BY RunAndSaveIs DEF House!RunDue, Kept, HouseTypes
<1> QED BY <1>1, <1>4, <1>5 DEF HouseTypes

LEMMA MarkRunIs ==
  ASSUME House!HouseAssumption, HouseTypes, NEW run \in DueRun, House!MarkRun(run)
  PROVE  schedule' \in [Schedules -> ScheduleRow]
<1>1. run.id \in Schedules /\ run.interval \in Nat /\ schedule \in [Schedules -> ScheduleRow]
  BY HouseConstants DEF DueRun, HouseTypes
<1>2. PICK r \in ScheduleRow : r = [schedule[run.id] EXCEPT !.left = run.interval]
  <2>1. schedule[run.id] \in ScheduleRow
    BY <1>1
  <2>2. [schedule[run.id] EXCEPT !.left = run.interval] \in ScheduleRow
    BY <1>1, <2>1 DEF ScheduleRow
  <2> QED BY <2>2
<1>3. schedule' = schedule \/ schedule' = [schedule EXCEPT ![run.id] = r]
  BY <1>2 DEF House!MarkRun
<1> QED BY <1>1, <1>3

LEMMA MarkDueStep ==
  ASSUME House!HouseAssumption, HouseTypes, House!MarkDue PROVE HouseTypes' /\ Kept
<1>1. UNCHANGED <<person, ages, pruner, houseEdits>> /\ loop.at = "mark" /\ House!Continue(loop.todo)
  BY DEF House!MarkDue
<1>2. schedule' \in [Schedules -> ScheduleRow]
  BY <1>1, MarkRunIs DEF House!MarkDue, HouseTypes
<1>3. loop' \in LoopState /\ loop'.at # "mark"
  <2>1. CASE loop.todo = {}
    BY <1>1, <2>1, HouseConstants DEF House!Continue
  <2>2. CASE loop.todo # {}
    <3>1. loop' = [at |-> "run", run |-> House!NoRun, todo |-> loop.todo] /\ loop.todo \in SUBSET DueRun
      BY <1>1, <2>2 DEF House!Continue, HouseTypes, LoopState
    <3> QED BY <3>1 DEF LoopState
  <2> QED BY <2>1, <2>2
<1> QED BY <1>1, <1>2, <1>3 DEF HouseTypes, Kept

LEMMA EditScheduleStep ==
  ASSUME House!HouseAssumption, HouseTypes, NEW s \in Schedules, House!EditSchedule(s) PROVE HouseTypes' /\ Kept /\ Edited
<1>1. UNCHANGED <<loop, person, ages, pruner>> /\ houseEdits' = houseEdits + 1
  BY DEF House!EditSchedule, House!Edit
<1>2. schedule \in [Schedules -> ScheduleRow] /\ schedule[s] \in ScheduleRow
  BY DEF HouseTypes
<1>3. PICK r \in ScheduleRow : schedule' = [schedule EXCEPT ![s] = r]
  <2>1. \A i \in Intervals : House!Row(i) \in ScheduleRow
    BY HouseConstants DEF House!Row, ScheduleRow
  <2>2. \A i \in Intervals : [schedule[s] EXCEPT !.interval = i] \in ScheduleRow
    BY <1>2 DEF ScheduleRow
  <2>3. [schedule[s] EXCEPT !.enabled = ~ schedule[s].enabled] \in ScheduleRow
    BY <1>2 DEF ScheduleRow
  <2>4. House!Deleted \in ScheduleRow
    BY HouseConstants
  <2>5. \/ \E i \in Intervals : schedule' = [schedule EXCEPT ![s] = House!Row(i)]
        \/ \E i \in Intervals : schedule' = [schedule EXCEPT ![s] = [schedule[s] EXCEPT !.interval = i]]
        \/ schedule' = [schedule EXCEPT ![s] = [schedule[s] EXCEPT !.enabled = ~ schedule[s].enabled]]
        \/ schedule' = [schedule EXCEPT ![s] = House!Deleted]
    BY DEF House!EditSchedule
  <2> QED BY <2>1, <2>2, <2>3, <2>4, <2>5
<1> QED BY <1>1, <1>2, <1>3 DEF HouseTypes, Kept, Edited

LEMMA RunNowStep ==
  ASSUME House!HouseAssumption, HouseTypes, NEW s \in Schedules, House!RunNow(s) PROVE HouseTypes' /\ Kept
<1>1. UNCHANGED <<schedule, loop, ages, pruner>> /\ houseEdits' = houseEdits + 1
      /\ person' = [at |-> "run", run |-> House!Snapshot(s)]
  BY DEF House!RunNow, House!Edit
<1>2. person' \in PersonState /\ person'.run \in DueRun
  BY <1>1, SnapshotTyped DEF PersonState
<1> QED BY <1>1, <1>2 DEF HouseTypes, Kept

LEMMA PersonSteps ==
  ASSUME House!HouseAssumption, HouseTypes, House!PersonRuns \/ House!PersonMarks PROVE HouseTypes' /\ Kept
<1>1. CASE House!PersonRuns
  <2>1. UNCHANGED <<schedule, loop, pruner, houseEdits>> /\ person.at = "run" /\ person \in PersonState /\ person.run \in DueRun
        /\ (person' = [person EXCEPT !.at = "mark"] \/ person' = House!Away)
    BY <1>1 DEF House!PersonRuns, HouseTypes
  <2>2. person' \in PersonState /\ (person'.at # "away" => person'.run \in DueRun)
    BY <2>1, HouseConstants DEF PersonState
  <2>3. ages' \in [House!Kinds -> SUBSET (0..MaxAge)] /\ Kept
    BY <1>1, RunAndSaveIs DEF House!PersonRuns
  <2> QED BY <2>1, <2>2, <2>3 DEF HouseTypes
<1>2. CASE House!PersonMarks
  <2>1. UNCHANGED <<loop, ages, pruner, houseEdits>> /\ person.at = "mark" /\ person' = House!Away /\ House!MarkRun(person.run)
    BY <1>2 DEF House!PersonMarks
  <2>2. schedule' \in [Schedules -> ScheduleRow]
    BY <2>1, MarkRunIs DEF HouseTypes
  <2> QED BY <2>1, <2>2, HouseConstants DEF HouseTypes, Kept
<1> QED BY <1>1, <1>2

LEMMA OtherEditStep ==
  ASSUME House!HouseAssumption, HouseTypes, House!OtherEdit PROVE HouseTypes' /\ Edited
<1>1. UNCHANGED <<schedule, loop, person, pruner>> /\ houseEdits' = houseEdits + 1
  BY DEF House!OtherEdit, House!Edit
<1>2. ages \in [House!Kinds -> SUBSET (0..MaxAge)] /\ MaxAge \in Nat
  BY HouseConstants DEF HouseTypes
<1>3. ages' \in [House!Kinds -> SUBSET (0..MaxAge)]
  BY <1>2 DEF House!OtherEdit, House!Kinds
<1> QED BY <1>1, <1>3 DEF HouseTypes, Edited

\* Every DELETE spares what its policy does not name.
LEMMA PruneStep ==
  ASSUME House!HouseAssumption, HouseTypes, NEW p \in DOMAIN Policies, House!Prune(p) PROVE HouseTypes' /\ Kept
<1>1. UNCHANGED <<schedule, loop, person, houseEdits>> /\ pruner.policy = p
  BY DEF House!Prune
<1>2. pruner' \in PrunerState
  <2>1. pruner \in PrunerState /\ p \in 1..Len(Policies) /\ Len(Policies) \in Nat
    BY HouseConstants DEF HouseTypes
  <2>2. pruner' = IF p = Len(Policies) THEN House!Asleep ELSE [pruner EXCEPT !.policy = p + 1]
    BY <1>1 DEF House!Prune, House!NextPolicy, House!AfterFailure
  <2>3. CASE p = Len(Policies)
    BY <2>2, <2>3, HouseConstants
  <2>4. CASE p # Len(Policies)
    <3>1. pruner' = [pruner EXCEPT !.policy = p + 1] /\ p + 1 \in 0..Len(Policies)
      BY <2>1, <2>2, <2>4
    <3> QED BY <2>1, <3>1 DEF PrunerState
  <2> QED BY <2>3, <2>4
<1>3. ages' \in [House!Kinds -> SUBSET (0..MaxAge)] /\ Kept
  <2>1. ages \in [House!Kinds -> SUBSET (0..MaxAge)]
    BY DEF HouseTypes
  <2>2. CASE ages' = ages
    BY <2>1, <2>2 DEF Kept
  <2>3. CASE ages' = [k \in House!Kinds |-> IF k \in House!Matches(Policies[p]) THEN ages[k] \ House!Expired(Policies[p]) ELSE ages[k]]
    <3>1. ages' \in [House!Kinds -> SUBSET (0..MaxAge)]
      BY <2>1, <2>3
    <3>2. \A k \in {"saved", "open"} : k \notin House!Matches(Policies[p]) /\ k \in House!Kinds
      BY HouseConstants DEF House!Matches, House!Kinds
    <3> QED BY <2>3, <3>1, <3>2 DEF Kept
  <2> QED BY <2>2, <2>3 DEF House!Prune
<1> QED BY <1>1, <1>2, <1>3 DEF HouseTypes

LEMMA WakeStep == ASSUME House!HouseAssumption, HouseTypes, House!Wake PROVE HouseTypes' /\ Kept
<1>1. UNCHANGED <<schedule, loop, person, ages, houseEdits>> /\ pruner' = [policy |-> 1, left |-> 0]
  BY DEF House!Wake
<1>2. pruner' \in PrunerState
  BY <1>1, HouseConstants DEF PrunerState
<1> QED BY <1>1, <1>2 DEF HouseTypes, Kept

\* Rows grow older, none goes.
LEMMA HouseTickStep == ASSUME House!HouseAssumption, HouseTypes, House!Tick PROVE HouseTypes' /\ Kept
<1>1. UNCHANGED <<loop, person, houseEdits>>
  BY DEF House!Tick
<1>2. schedule' \in [Schedules -> ScheduleRow]
  <2>1. schedule' = [s \in Schedules |-> IF schedule[s].left > 0 THEN [schedule[s] EXCEPT !.left = schedule[s].left - 1] ELSE schedule[s]]
    BY DEF House!Tick
  <2>2. ASSUME NEW s \in Schedules
        PROVE  (IF schedule[s].left > 0 THEN [schedule[s] EXCEPT !.left = schedule[s].left - 1] ELSE schedule[s]) \in ScheduleRow
    <3>1. schedule[s] \in ScheduleRow
      BY DEF HouseTypes
    <3>2. schedule[s].left \in Nat
      BY <3>1 DEF ScheduleRow
    <3>3. CASE schedule[s].left > 0
      <4>1. schedule[s].left - 1 \in Nat
        BY <3>2, <3>3
      <4>2. [schedule[s] EXCEPT !.left = schedule[s].left - 1] \in ScheduleRow
        BY <3>1, <4>1 DEF ScheduleRow
      <4> QED BY <3>3, <4>2
    <3>4. CASE ~ (schedule[s].left > 0)
      BY <3>1, <3>4
    <3> QED BY <3>3, <3>4
  <2> QED BY <2>1, <2>2
<1>3. pruner' \in PrunerState
  <2>1. pruner \in PrunerState /\ Day \in Nat
    BY HouseConstants DEF HouseTypes
  <2>2. CASE pruner.left > 0
    <3>1. pruner' = [pruner EXCEPT !.left = pruner.left - 1] /\ pruner.left - 1 \in 0..Day
      BY <2>1, <2>2 DEF House!Tick, PrunerState
    <3> QED BY <2>1, <3>1 DEF PrunerState
  <2>3. CASE ~ (pruner.left > 0)
    BY <2>1, <2>3 DEF House!Tick
  <2> QED BY <2>2, <2>3
<1>4. ages' \in [House!Kinds -> SUBSET (0..MaxAge)] /\ Kept
  <2>1. ages \in [House!Kinds -> SUBSET (0..MaxAge)] /\ MaxAge \in Nat
    BY HouseConstants DEF HouseTypes
  <2>2. ages' = [k \in House!Kinds |-> {IF a < MaxAge THEN a + 1 ELSE a : a \in ages[k]}]
    BY DEF House!Tick
  <2>3. ASSUME NEW k \in House!Kinds
        PROVE  /\ ages'[k] \in SUBSET (0..MaxAge) /\ (ages[k] # {} => ages'[k] # {})
    BY <2>1, <2>2
  <2> QED BY <2>2, <2>3 DEF Kept, House!Kinds
<1> QED BY <1>1, <1>2, <1>3, <1>4 DEF HouseTypes

LEMMA RedeployStep ==
  ASSUME House!HouseAssumption, HouseTypes, House!Redeploy \/ House!Connect PROVE HouseTypes' /\ Kept
BY HouseConstants DEF House!Redeploy, House!Connect, HouseTypes, Kept

LEMMA HouseHolds ==
  ASSUME House!HouseAssumption, HouseTypes, [House!Next]_(House!houseVars) PROVE HouseTypes' /\ Keeps
<1>1. CASE UNCHANGED House!houseVars
  BY <1>1 DEF House!houseVars, HouseTypes, Keeps, Kept
<1> QED
  BY <1>1, LookUpStep, RunDueStep, MarkDueStep, EditScheduleStep, RunNowStep, PersonSteps, OtherEditStep, PruneStep,
     WakeStep, HouseTickStep, RedeployStep DEF House!Next, Keeps

LEMMA HouseInvariant ==
  ASSUME House!HouseAssumption PROVE House!Init /\ [][House!Next]_(House!houseVars) => []HouseTypes
<1>1. House!Init => HouseTypes
  BY HouseInit
<1>2. HouseTypes /\ [House!Next]_(House!houseVars) => HouseTypes'
  BY HouseHolds
<1> QED BY <1>1, <1>2, PTL

LEMMA HouseKeeps ==
  ASSUME House!HouseAssumption PROVE House!Init /\ [][House!Next]_(House!houseVars) => House!KeepsStay
<1> DEFINE Step == \A k \in {"saved", "open"} : ages[k] # {} /\ ages'[k] = {} => houseEdits' > houseEdits
<1>1. HouseTypes /\ [House!Next]_(House!houseVars) => [Step]_(House!houseVars)
  BY HouseHolds DEF Keeps, Kept, Edited, HouseTypes
<1> QED BY <1>1, HouseInvariant, PTL DEF House!KeepsStay

\* Results somebody saved and events that are open go only by somebody's hand: no run, no
\* policy of the retention loop, no tick and no redeploy takes the last of them, for any
\* policies that name neither (retention.py's POLICIES) and any schedules.
THEOREM KeptUntilEdited == ASSUME House!HouseAssumption PROVE House!Spec => House!KeepsStay
<1> QED BY HouseKeeps, PTL DEF House!Spec

\* Schedules, loops, requests and rows keep their types.
THEOREM HouseTyped == ASSUME House!HouseAssumption PROVE House!Spec => []House!TypeOK
<1> QED BY HouseTypesImplied, HouseInvariant, PTL DEF House!Spec

-------------------------------------------------------------------------------
(***************************************************************************)
(* EventBus, for any emitters, requests that save, receivers and bounds:   *)
(* a receiver hears of the envelopes in the order they were put, and of    *)
(* none it acknowledged again.  The numbers on the queue ascend, and what  *)
(* is handed out or was heard came before them (EnvelopesNumbered).  While *)
(* no two emitters looked for a worker at once there is one worker         *)
(* (OneEmitter); while no two requests wired the bus at once, one          *)
(* subscriber of a kind (Uncrossed), and who acknowledged the envelope in  *)
(* hand is not among the receivers it is still to be taken to (Ahead).     *)
(***************************************************************************)
\* The worker has an envelope in hand; its thread has been started.
HasInHand(w) == delivery[w].at \notin {"unborn", "made", "get"}
IsStarted(w) == delivery[w].at \notin {"unborn", "made"}

\* The subscriber that is called, the receivers of one, and who may still hear of the
\* envelope that is handed out.
KindOf(x) == IF x.at \in {"hooks", "post"} THEN "hooks" ELSE "push"
Of(kind) == IF kind = "hooks" THEN Hooks ELSE Browsers
Ahead(x, r) ==
  \/ r \in IF x.at \in {"post", "page"} THEN x.left ELSE Of(KindOf(x))
  \/ \E i \in DOMAIN x.todo : r \in Of(x.todo[i].kind)

\* No two of these subscribers are of one kind; nor are those still to be called and the one
\* that is.
KindsDiffer(s) == \A i, j \in DOMAIN s : s[i].kind = s[j].kind => i = j
CalledOnce(x) ==
  /\ KindsDiffer(x.todo)
  /\ \A i \in DOMAIN x.todo : x.todo[i].kind # KindOf(x)
None(kind) == \A i \in DOMAIN subscribers : subscribers[i].kind # kind

\* Every emitter under way has a number left for its envelope.
Counted == put + dropped + Cardinality(Bus!UnderWay) <= MaxEnvelopes

\* The numbers on the queue ascend, and what is handed out or heard came before them.
EnvelopesNumbered ==
  /\ \A i, j \in DOMAIN queue : i < j => queue[i].n < queue[j].n
  /\ \A i \in DOMAIN queue : queue[i].n <= put
  /\ \A w \in Bus!Threads : HasInHand(w) =>
       /\ delivery[w].item.n <= put
       /\ \A i \in DOMAIN queue : delivery[w].item.n < queue[i].n
       /\ delivery[w].at \in {"post", "page"} => delivery[w].left # {}
  /\ \A v, w \in Bus!Threads : HasInHand(v) /\ HasInHand(w) /\ delivery[v].item.n = delivery[w].item.n => v = w
  /\ \A r \in Bus!Receivers : \A i \in DOMAIN heard[r] :
       /\ heard[r][i].n <= put
       /\ \A j \in DOMAIN queue : heard[r][i].n < queue[j].n

\* No two emitters have looked for a worker at once.
OneEmitter ==
  /\ \A e, f \in Bus!UnderWay : e = f
  /\ \A w \in Bus!Threads : IsStarted(w) => w = worker
  /\ Bus!UnderWay # {} => \A w \in Bus!Threads : ~ IsStarted(w)
  /\ \A w \in Bus!Threads : HasInHand(w) => \A r \in Bus!Receivers : \A i \in DOMAIN heard[r] : heard[r][i].n <= delivery[w].item.n

\* No two admins have saved at once.
Uncrossed ==
  /\ \A a, b \in Wirers : wiring[a] # "idle" /\ wiring[b] # "idle" => a = b
  /\ KindsDiffer(subscribers)
  /\ \A i \in DOMAIN subscribers :
       subscribers[i].made = IF subscribers[i].kind = "hooks" THEN dispatcher ELSE notifier
  /\ \A a \in Wirers :
       /\ wiring[a] \in {"removePush", "addHooks"} => None("hooks")
       /\ wiring[a] \in {"addHooks", "addPush"} => None("push")
  /\ \A w \in Bus!Threads : HasInHand(w) => CalledOnce(delivery[w])
  /\ \A w \in Bus!Threads : HasInHand(w) =>
       \A r \in Bus!Receivers : \A i \in DOMAIN heard[r] :
         heard[r][i].ok /\ heard[r][i].n = delivery[w].item.n => ~ Ahead(delivery[w], r)

BusInv ==
  /\ Bus!TypeOK /\ Counted /\ EnvelopesNumbered
  /\ ~ raced => OneEmitter
  /\ ~ crossed => Uncrossed
  /\ Bus!HeardInOrder

-----------------------------------------------------------------------------

\* The constants of this part.
LEMMA BusIs == Bus!BusAssumption
BY ServicesAssumption

LEMMA IdleAre ==
  /\ Bus!Unborn \in Bus!Idle /\ Bus!Made \in Bus!Idle /\ Bus!Waiting \in Bus!Idle
  /\ Bus!Unborn.at = "unborn" /\ Bus!Made.at = "made" /\ Bus!Waiting.at = "get"
  /\ \A x \in Bus!Idle : x.at \in {"unborn", "made", "get"}
BY DEF Bus!Idle, Bus!Unborn, Bus!Made, Bus!Waiting

\* What is handed out is an envelope of the queue, with the subscribers left to call.
LEMMA HandingAre == ASSUME NEW x \in Bus!Handing
  PROVE /\ x.at \in {"hooks", "push", "post", "page"}
        /\ x.item \in Bus!Queued /\ x.item.n \in 1..MaxEnvelopes /\ x.todo \in Seq(Bus!Subscribers)
        /\ x.at = "post" => x.left \subseteq Hooks /\ x.tries \in 0..Attempts
        /\ x.at = "page" => x.left \subseteq Browsers
<1>1. /\ x.at \in {"hooks", "push", "post", "page"}
      /\ x.item \in Bus!Queued /\ x.todo \in Seq(Bus!Subscribers)
      /\ x.at = "post" => x.left \subseteq Hooks /\ x.tries \in 0..Attempts
      /\ x.at = "page" => x.left \subseteq Browsers
  BY DEF Bus!Handing
<1> QED BY <1>1 DEF Bus!Queued

LEMMA WorkIs == ASSUME BusInv, NEW w \in Bus!Threads
  PROVE /\ delivery[w] \in Bus!Idle \cup Bus!Handing
        /\ HasInHand(w) => delivery[w] \in Bus!Handing
        /\ delivery[w] \in Bus!Handing => HasInHand(w)
        /\ HasInHand(w) => IsStarted(w)
BY IdleAre, HandingAre DEF BusInv, Bus!TypeOK, HasInHand, IsStarted

LEMMA HandedIs ==
  ASSUME NEW item \in Bus!Queued, NEW todo \in Seq(Bus!Subscribers), NEW kind \in {"hooks", "push"},
         NEW x, x = [at |-> kind, item |-> item, todo |-> todo]
  PROVE  x \in Bus!Handing /\ x.at = kind /\ x.item = item /\ x.todo = todo
BY DEF Bus!Handing

\* What the worker turns to when it has called a subscriber: the next one, for the
\* same envelope, or the queue.
LEMMA NextCall ==
  ASSUME NEW item \in Bus!Queued, NEW todo \in Seq(Bus!Subscribers), NEW x, x = Bus!CallNext(item, todo)
  PROVE  \/ x = Bus!Waiting
         \/ /\ x \in Bus!Handing /\ x.at \in {"hooks", "push"} /\ x.item = item
            /\ KindsDiffer(todo) => CalledOnce(x)
            /\ \A r : Ahead(x, r) => \E i \in DOMAIN todo : r \in Of(todo[i].kind)
<1>1. CASE todo = <<>>
  BY <1>1 DEF Bus!CallNext
<1>2. CASE todo # <<>>
  <2>1. /\ Head(todo) = todo[1] /\ todo[1] \in Bus!Subscribers /\ 1 \in DOMAIN todo
        /\ Tail(todo) \in Seq(Bus!Subscribers)
        /\ \A i \in DOMAIN Tail(todo) : i + 1 \in DOMAIN todo /\ i + 1 # 1 /\ Tail(todo)[i] = todo[i + 1]
        /\ \A i, j \in DOMAIN Tail(todo) : i + 1 = j + 1 => i = j
    BY <1>2
  <2>2. todo[1].kind \in {"hooks", "push"}
    BY <2>1 DEF Bus!Subscribers
  <2>3. x = [at |-> todo[1].kind, item |-> item, todo |-> Tail(todo)]
    BY <1>2, <2>1 DEF Bus!CallNext
  <2>4. x \in Bus!Handing /\ x.at = todo[1].kind /\ x.item = item /\ x.todo = Tail(todo)
    <3>1. PICK kind \in {"hooks", "push"} : kind = todo[1].kind
      BY <2>2
    <3>2. PICK rest \in Seq(Bus!Subscribers) : rest = Tail(todo)
      BY <2>1
    <3>3. x = [at |-> kind, item |-> item, todo |-> rest]
      BY <2>3, <3>1, <3>2
    <3>4. x \in Bus!Handing /\ x.at = kind /\ x.item = item /\ x.todo = rest
      BY <3>3, HandedIs
    <3> QED BY <3>1, <3>2, <3>4
  <2>5. KindOf(x) = todo[1].kind
    BY <2>2, <2>4 DEF KindOf
  <2>6. KindsDiffer(todo) => CalledOnce(x)
    BY <2>1, <2>4, <2>5 DEF KindsDiffer, CalledOnce
  <2>7. \A r : Ahead(x, r) => \E i \in DOMAIN todo : r \in Of(todo[i].kind)
    BY <2>1, <2>2, <2>4, <2>5 DEF Ahead
  <2> QED BY <2>2, <2>4, <2>6, <2>7
<1> QED BY <1>1, <1>2

-----------------------------------------------------------------------------
\* A worker stays with the envelope it has in hand, calls no subscriber again and turns
\* to no receiver it was done with; or it is done and waits.
GoesOn(y, x) ==
  /\ x \in Bus!Handing /\ x.item = y.item
  /\ x.at \in {"post", "page"} => x.left # {}
  /\ CalledOnce(y) => CalledOnce(x)
  /\ \A r : Ahead(x, r) => Ahead(y, r)

\* What the step of worker w, after which it is at x, adds to what was heard.
Adds(w, x) ==
  \/ heard' = heard
  \/ \E r \in Bus!Receivers, ok \in BOOLEAN :
       /\ heard' = [heard EXCEPT ![r] = Append(heard[r], [n |-> delivery[w].item.n, ok |-> ok])]
       /\ Ahead(delivery[w], r)
       /\ ok /\ CalledOnce(delivery[w]) => x = Bus!Waiting \/ ~ Ahead(x, r)

\* What was heard after the step: what was heard before, and what one receiver was told.
LEMMA HeardAfter ==
  ASSUME BusInv, NEW w \in Bus!Threads, HasInHand(w), NEW x, Adds(w, x)
  PROVE  /\ heard' \in [Bus!Receivers -> Seq([n : 1..MaxEnvelopes, ok : BOOLEAN])]
         /\ \A s \in Bus!Receivers : \A j \in DOMAIN heard'[s] :
              \/ /\ j \in DOMAIN heard[s] /\ heard'[s][j] = heard[s][j]
                 /\ \A i \in DOMAIN heard'[s] : i < j => i \in DOMAIN heard[s] /\ heard'[s][i] = heard[s][i]
              \/ /\ heard'[s][j].n = delivery[w].item.n /\ Ahead(delivery[w], s)
                 /\ heard'[s][j].ok /\ CalledOnce(delivery[w]) => x = Bus!Waiting \/ ~ Ahead(x, s)
                 /\ \A i \in DOMAIN heard'[s] : i < j => i \in DOMAIN heard[s] /\ heard'[s][i] = heard[s][i]
<1> DEFINE Notes == [n : 1..MaxEnvelopes, ok : BOOLEAN]
<1>1. heard \in [Bus!Receivers -> Seq(Notes)]
  BY DEF BusInv, Bus!TypeOK
<1>2. CASE heard' = heard
  BY <1>1, <1>2
<1>3. ASSUME NEW r \in Bus!Receivers, NEW ok \in BOOLEAN,
             heard' = [heard EXCEPT ![r] = Append(heard[r], [n |-> delivery[w].item.n, ok |-> ok])],
             Ahead(delivery[w], r), ok /\ CalledOnce(delivery[w]) => x = Bus!Waiting \/ ~ Ahead(x, r)
      PROVE  /\ heard' \in [Bus!Receivers -> Seq(Notes)]
             /\ \A s \in Bus!Receivers : \A j \in DOMAIN heard'[s] :
              \/ /\ j \in DOMAIN heard[s] /\ heard'[s][j] = heard[s][j]
                 /\ \A i \in DOMAIN heard'[s] : i < j => i \in DOMAIN heard[s] /\ heard'[s][i] = heard[s][i]
              \/ /\ heard'[s][j].n = delivery[w].item.n /\ Ahead(delivery[w], s)
                 /\ heard'[s][j].ok /\ CalledOnce(delivery[w]) => x = Bus!Waiting \/ ~ Ahead(x, s)
                 /\ \A i \in DOMAIN heard'[s] : i < j => i \in DOMAIN heard[s] /\ heard'[s][i] = heard[s][i]
  <2>1. PICK note \in Notes : note = [n |-> delivery[w].item.n, ok |-> ok] /\ note.n = delivery[w].item.n /\ note.ok = ok
    <3>1. delivery[w].item.n \in 1..MaxEnvelopes
      BY WorkIs, HandingAre
    <3>2. /\ [n |-> delivery[w].item.n, ok |-> ok] \in Notes
          /\ [n |-> delivery[w].item.n, ok |-> ok].n = delivery[w].item.n /\ [n |-> delivery[w].item.n, ok |-> ok].ok = ok
      BY <3>1
    <3> QED BY <3>2
  <2>2. heard' = [heard EXCEPT ![r] = Append(heard[r], note)]
    BY <1>3, <2>1
  <2>3. PICK q \in Seq(Notes) : q = heard[r]
    BY <1>1
  <2>4. /\ Append(q, note) \in Seq(Notes)
        /\ \A j \in DOMAIN Append(q, note) :
             /\ (j \in DOMAIN q /\ Append(q, note)[j] = q[j]) \/ Append(q, note)[j] = note
             /\ \A i \in DOMAIN Append(q, note) : i < j => i \in DOMAIN q /\ Append(q, note)[i] = q[i]
    OBVIOUS
  <2>5. /\ heard' \in [Bus!Receivers -> Seq(Notes)]
        /\ heard'[r] = Append(q, note)
        /\ \A s \in Bus!Receivers \ {r} : heard'[s] = heard[s]
    BY <1>1, <2>2, <2>3, <2>4
  <2>6. ASSUME NEW j \in DOMAIN heard'[r]
        PROVE  \/ /\ j \in DOMAIN heard[r] /\ heard'[r][j] = heard[r][j]
                  /\ \A i \in DOMAIN heard'[r] : i < j => i \in DOMAIN heard[r] /\ heard'[r][i] = heard[r][i]
               \/ /\ heard'[r][j].n = delivery[w].item.n /\ Ahead(delivery[w], r)
                  /\ heard'[r][j].ok /\ CalledOnce(delivery[w]) => x = Bus!Waiting \/ ~ Ahead(x, r)
                  /\ \A i \in DOMAIN heard'[r] : i < j => i \in DOMAIN heard[r] /\ heard'[r][i] = heard[r][i]
    BY <1>3, <2>1, <2>3, <2>4, <2>5, <2>6
  <2> QED BY <1>1, <2>5, <2>6
<1> QED BY <1>2, <1>3 DEF Adds

\* A step of a busy worker that goes on with its envelope, or lets go of it.
LEMMA WorkerMoves ==
  ASSUME BusInv, NEW w \in Bus!Threads, HasInHand(w), NEW x,
         delivery' = [delivery EXCEPT ![w] = x], x = Bus!Waiting \/ GoesOn(delivery[w], x), Adds(w, x),
         UNCHANGED <<queue, worker, emitting, raced, put, dropped, busEdits, subscribers, wiring, crossed,
                     dispatcher, notifier, made>>,
         webhooks' \in [Hooks -> SUBSET Bus!Events], browsers' \in [Browsers -> Bus!Prefs \cup {Bus!Gone}]
  PROVE  BusInv'
<1>1. /\ x \in Bus!Idle \cup Bus!Handing /\ x.at \notin {"unborn", "made"}
      /\ x = Bus!Waiting => x.at = "get"
      /\ x.at # "get" => GoesOn(delivery[w], x)
  BY IdleAre, HandingAre DEF GoesOn
<1>2. /\ delivery' \in [Bus!Threads -> Bus!Idle \cup Bus!Handing]
      /\ delivery'[w] = x /\ \A v \in Bus!Threads \ {w} : delivery'[v] = delivery[v]
  BY <1>1 DEF BusInv, Bus!TypeOK
<1>3. \A v \in Bus!Threads :
        /\ HasInHand(v)' => HasInHand(v) /\ delivery'[v].item = delivery[v].item
        /\ IsStarted(v)' => IsStarted(v)
  BY <1>1, <1>2, WorkIs DEF HasInHand, IsStarted, GoesOn
<1>4. /\ heard' \in [Bus!Receivers -> Seq([n : 1..MaxEnvelopes, ok : BOOLEAN])]
      /\ \A s \in Bus!Receivers : \A j \in DOMAIN heard'[s] :
           \/ /\ j \in DOMAIN heard[s] /\ heard'[s][j] = heard[s][j]
              /\ \A i \in DOMAIN heard'[s] : i < j => i \in DOMAIN heard[s] /\ heard'[s][i] = heard[s][i]
           \/ /\ heard'[s][j].n = delivery[w].item.n /\ Ahead(delivery[w], s)
              /\ heard'[s][j].ok /\ CalledOnce(delivery[w]) => x = Bus!Waiting \/ ~ Ahead(x, s)
              /\ \A i \in DOMAIN heard'[s] : i < j => i \in DOMAIN heard[s] /\ heard'[s][i] = heard[s][i]
  BY HeardAfter
<1>5. Bus!TypeOK'
  BY <1>2, <1>4 DEF BusInv, Bus!TypeOK
<1>6. Counted'
  BY DEF BusInv, Counted, Bus!UnderWay
<1>7. EnvelopesNumbered'
  <2>1. \A v \in Bus!Threads : HasInHand(v)' =>
          /\ delivery'[v].item.n <= put
          /\ \A i \in DOMAIN queue : delivery'[v].item.n < queue[i].n
          /\ delivery'[v].at \in {"post", "page"} => delivery'[v].left # {}
    BY <1>1, <1>2, <1>3 DEF BusInv, EnvelopesNumbered, HasInHand, GoesOn
  <2>2. \A u, v \in Bus!Threads : HasInHand(u)' /\ HasInHand(v)' /\ delivery'[u].item.n = delivery'[v].item.n => u = v
    BY <1>3 DEF BusInv, EnvelopesNumbered
  <2>3. \A r \in Bus!Receivers : \A i \in DOMAIN heard'[r] :
          /\ heard'[r][i].n <= put
          /\ \A j \in DOMAIN queue : heard'[r][i].n < queue[j].n
    BY <1>4 DEF BusInv, EnvelopesNumbered
  <2> QED BY <2>1, <2>2, <2>3 DEF BusInv, EnvelopesNumbered
<1>8. ASSUME ~ raced' PROVE OneEmitter'
  <2>1. OneEmitter /\ IsStarted(w)
    BY <1>8, WorkIs DEF BusInv
  <2>2. \A v \in Bus!Threads : HasInHand(v)' => v = w
    BY <1>3, <2>1, WorkIs DEF OneEmitter
  <2>3. delivery[w].item.n \in 1..MaxEnvelopes
    BY WorkIs, HandingAre
  <2>4. \A r \in Bus!Receivers : \A i \in DOMAIN heard'[r] : heard'[r][i].n <= delivery[w].item.n
    <3>1. delivery[w].item.n <= delivery[w].item.n
      BY <2>3
    <3>2. \A r \in Bus!Receivers : \A i \in DOMAIN heard[r] : heard[r][i].n <= delivery[w].item.n
      BY <2>1 DEF OneEmitter
    <3>3. ASSUME NEW r \in Bus!Receivers, NEW i \in DOMAIN heard'[r]
          PROVE  (i \in DOMAIN heard[r] /\ heard'[r][i] = heard[r][i]) \/ heard'[r][i].n = delivery[w].item.n
      BY <1>4
    <3> QED BY <3>1, <3>2, <3>3
  <2>5. \A v \in Bus!Threads : HasInHand(v)' => \A r \in Bus!Receivers : \A i \in DOMAIN heard'[r] : heard'[r][i].n <= delivery'[v].item.n
    BY <1>3, <2>2, <2>4
  <2>6. Bus!UnderWay' = Bus!UnderWay
    BY DEF Bus!UnderWay
  <2> QED BY <1>3, <2>1, <2>5, <2>6 DEF OneEmitter
<1>9. ASSUME ~ crossed' PROVE Uncrossed'
  <2>1. Uncrossed /\ CalledOnce(delivery[w])
    BY <1>9 DEF BusInv, Uncrossed
  <2>2. \A v \in Bus!Threads : HasInHand(v)' => CalledOnce(delivery'[v])
    BY <1>1, <1>2, <1>3, <2>1 DEF Uncrossed, HasInHand, GoesOn
  <2>3. ASSUME NEW v \in Bus!Threads, HasInHand(v)', NEW r \in Bus!Receivers, NEW i \in DOMAIN heard'[r],
               heard'[r][i].ok, heard'[r][i].n = delivery'[v].item.n
        PROVE  ~ Ahead(delivery'[v], r)
    <3>1. HasInHand(v) /\ delivery'[v].item.n = delivery[v].item.n
      BY <1>3, <2>3
    <3>2. CASE i \in DOMAIN heard[r] /\ heard'[r][i] = heard[r][i]
      <4>1. ~ Ahead(delivery[v], r)
        BY <2>1, <2>3, <3>1, <3>2 DEF Uncrossed
      <4>2. Ahead(delivery'[v], r) => Ahead(delivery[v], r)
        BY <1>1, <1>2, <2>3 DEF HasInHand, GoesOn
      <4> QED BY <4>1, <4>2
    <3>3. CASE heard'[r][i].n = delivery[w].item.n /\ (x = Bus!Waiting \/ ~ Ahead(x, r))
      <4>1. v = w
        BY <2>3, <3>1, <3>3 DEF BusInv, EnvelopesNumbered
      <4>2. x # Bus!Waiting
        BY <1>1, <1>2, <2>3, <4>1 DEF HasInHand
      <4> QED BY <1>2, <3>3, <4>1, <4>2
    <3> QED BY <1>4, <2>1, <2>3, <3>2, <3>3
  <2>4. KindsDiffer(subscribers)' /\ None("hooks")' = None("hooks") /\ None("push")' = None("push")
    BY <2>1 DEF Uncrossed, KindsDiffer, None
  <2> QED BY <2>1, <2>2, <2>3, <2>4 DEF Uncrossed
<1>10. Bus!HeardInOrder'
  <2>1. ASSUME NEW r \in Bus!Receivers, NEW i \in DOMAIN heard'[r], NEW j \in DOMAIN heard'[r], i < j, ~ raced
        PROVE  heard'[r][i].n <= heard'[r][j].n
    <3>1. i \in DOMAIN heard[r] /\ heard'[r][i] = heard[r][i]
      BY <1>4, <2>1
    <3>2. IsStarted(w) /\ OneEmitter
      BY <2>1, WorkIs DEF BusInv
    <3> QED BY <1>4, <2>1, <3>1, <3>2 DEF BusInv, Bus!HeardInOrder, OneEmitter
  <2>2. ASSUME NEW r \in Bus!Receivers, NEW i \in DOMAIN heard'[r], NEW j \in DOMAIN heard'[r], i < j, ~ crossed,
               heard'[r][i].ok
        PROVE  heard'[r][i].n # heard'[r][j].n
    <3>1. i \in DOMAIN heard[r] /\ heard'[r][i] = heard[r][i]
      BY <1>4, <2>2
    <3>2. Uncrossed
      BY <2>2 DEF BusInv
    <3>3. CASE j \in DOMAIN heard[r] /\ heard'[r][j] = heard[r][j]
      BY <2>2, <3>1, <3>3 DEF BusInv, Bus!HeardInOrder
    <3>4. CASE heard'[r][j].n = delivery[w].item.n /\ Ahead(delivery[w], r)
      BY <2>2, <3>1, <3>2, <3>4 DEF Uncrossed
    <3> QED BY <1>4, <3>3, <3>4
  <2> QED BY <2>1, <2>2 DEF Bus!HeardInOrder
<1> QED BY <1>5, <1>6, <1>7, <1>8, <1>9, <1>10 DEF BusInv

-----------------------------------------------------------------------------
\* A receiver that the subscriber in hand tells is none of the next subscribers'.
LEMMA NotAgain ==
  ASSUME BusInv, NEW w \in Bus!Threads, HasInHand(w), CalledOnce(delivery[w]), NEW r \in Of(KindOf(delivery[w])),
         NEW i \in DOMAIN delivery[w].todo
  PROVE  r \notin Of(delivery[w].todo[i].kind)
<1>1. delivery[w] \in Bus!Handing /\ delivery[w].todo \in Seq(Bus!Subscribers)
  BY WorkIs, HandingAre
<1>2. delivery[w].todo[i].kind \in {"hooks", "push"} /\ delivery[w].todo[i].kind # KindOf(delivery[w])
  <2>1. PICK todo \in Seq(Bus!Subscribers) : todo = delivery[w].todo
    BY <1>1
  <2>2. todo[i] \in Bus!Subscribers
    BY <2>1
  <2>3. todo[i].kind \in {"hooks", "push"}
    BY <2>2 DEF Bus!Subscribers
  <2> QED BY <2>1, <2>3 DEF CalledOnce
<1> QED BY <1>2, BusIs DEF Of, KindOf, Bus!BusAssumption

LEMMA Returns ==
  ASSUME BusInv, NEW w \in Bus!Threads, HasInHand(w), NEW x, x = Bus!CallNext(delivery[w].item, delivery[w].todo)
  PROVE  /\ x = Bus!Waiting \/ GoesOn(delivery[w], x)
         /\ CalledOnce(delivery[w]) => \A r \in Of(KindOf(delivery[w])) : x = Bus!Waiting \/ ~ Ahead(x, r)
<1>1. delivery[w] \in Bus!Handing /\ delivery[w].item \in Bus!Queued /\ delivery[w].todo \in Seq(Bus!Subscribers)
  BY WorkIs, HandingAre
<1>2. \/ x = Bus!Waiting
      \/ /\ x \in Bus!Handing /\ x.at \in {"hooks", "push"} /\ x.item = delivery[w].item
         /\ KindsDiffer(delivery[w].todo) => CalledOnce(x)
         /\ \A r : Ahead(x, r) => \E i \in DOMAIN delivery[w].todo : r \in Of(delivery[w].todo[i].kind)
  BY <1>1, NextCall
<1>3. \A r : (\E i \in DOMAIN delivery[w].todo : r \in Of(delivery[w].todo[i].kind)) => Ahead(delivery[w], r)
  BY DEF Ahead
<1>4. x = Bus!Waiting \/ GoesOn(delivery[w], x)
  BY <1>2, <1>3 DEF GoesOn, CalledOnce
<1>5. ASSUME CalledOnce(delivery[w]), NEW r \in Of(KindOf(delivery[w])), x # Bus!Waiting PROVE ~ Ahead(x, r)
  BY <1>2, <1>5, NotAgain
<1> QED BY <1>4, <1>5

LEMMA Turns ==
  ASSUME BusInv, NEW w \in Bus!Threads, HasInHand(w), NEW x \in Bus!Handing,
         x.at \in {"post", "page"}, KindOf(x) = KindOf(delivery[w]),
         x.item = delivery[w].item, x.todo = delivery[w].todo, x.left # {},
         x.left \subseteq IF delivery[w].at \in {"post", "page"} THEN delivery[w].left ELSE Of(KindOf(delivery[w]))
  PROVE  /\ GoesOn(delivery[w], x)
         /\ CalledOnce(delivery[w]) => \A r \in Of(KindOf(delivery[w])) \ x.left : ~ Ahead(x, r)
<1>1. \A r : Ahead(x, r) => Ahead(delivery[w], r)
  BY DEF Ahead
<1>2. CalledOnce(delivery[w]) => CalledOnce(x)
  BY DEF CalledOnce
<1>3. ASSUME CalledOnce(delivery[w]), NEW r \in Of(KindOf(delivery[w])) \ x.left PROVE ~ Ahead(x, r)
  BY <1>3, NotAgain DEF Ahead
<1> QED BY <1>1, <1>2, <1>3 DEF GoesOn

Posting == [at : {"post"}, item : Bus!Queued, todo : Seq(Bus!Subscribers), left : SUBSET Hooks, tries : 0..Attempts]
LEMMA PostingIs == /\ \A y \in Bus!Handing : y.at = "post" => y \in Posting
                   /\ \A y \in Posting : y \in Bus!Handing /\ y.at = "post"
BY DEF Bus!Handing, Posting

LEMMA RaisesStep == ASSUME BusInv, NEW w \in Bus!Threads, Bus!Raises(w) PROVE BusInv'
<1>1. HasInHand(w)
  BY DEF Bus!Raises, HasInHand
<1>2. /\ delivery' = [delivery EXCEPT ![w] = Bus!CallNext(delivery[w].item, delivery[w].todo)]
      /\ UNCHANGED <<queue, worker, emitting, raced, put, dropped, busEdits, subscribers, wiring, crossed,
                     dispatcher, notifier, made, webhooks, browsers, heard>>
  BY DEF Bus!Raises, Bus!Caught, Bus!Return, Bus!Working, Bus!UnchangedByWorker, Bus!emitters, Bus!busWires, Bus!busRows
<1>3. webhooks' \in [Hooks -> SUBSET Bus!Events] /\ browsers' \in [Browsers -> Bus!Prefs \cup {Bus!Gone}]
  BY <1>2 DEF BusInv, Bus!TypeOK
<1>4. PICK x : x = Bus!CallNext(delivery[w].item, delivery[w].todo)
  OBVIOUS
<1>5. (x = Bus!Waiting \/ GoesOn(delivery[w], x)) /\ Adds(w, x)
  BY <1>1, <1>2, <1>4, Returns DEF Adds
<1> QED BY <1>1, <1>2, <1>3, <1>4, <1>5, WorkerMoves

LEMMA LoadHooksStep == ASSUME BusInv, NEW w \in Bus!Threads, Bus!LoadHooks(w) PROVE BusInv'
<1> DEFINE state == [at |-> "post", item |-> delivery[w].item, todo |-> delivery[w].todo,
                     left |-> Bus!Wanting(delivery[w].item.envelope.event), tries |-> 0]
<1>1. HasInHand(w) /\ delivery[w].at = "hooks" /\ delivery[w] \in Bus!Handing
  BY WorkIs DEF Bus!LoadHooks, HasInHand
<1>2. /\ delivery' = [delivery EXCEPT ![w] = IF state.left = {} THEN Bus!CallNext(delivery[w].item, delivery[w].todo) ELSE state]
      /\ UNCHANGED <<queue, worker, emitting, raced, put, dropped, busEdits, subscribers, wiring, crossed,
                     dispatcher, notifier, made, webhooks, browsers, heard>>
  BY DEF Bus!LoadHooks, Bus!Proceed, Bus!Return, Bus!Working, Bus!UnchangedByWorker, Bus!emitters, Bus!busWires, Bus!busRows
<1>3. webhooks' \in [Hooks -> SUBSET Bus!Events] /\ browsers' \in [Browsers -> Bus!Prefs \cup {Bus!Gone}]
  BY <1>2 DEF BusInv, Bus!TypeOK
<1>4. PICK x : x = IF state.left = {} THEN Bus!CallNext(delivery[w].item, delivery[w].todo) ELSE state
  OBVIOUS
<1>5. x = Bus!Waiting \/ GoesOn(delivery[w], x)
  <2>1. CASE state.left = {}
    BY <1>1, <1>4, <2>1, Returns
  <2>2. CASE state.left # {}
    <3>1. /\ x = state /\ Bus!Wanting(delivery[w].item.envelope.event) \in SUBSET Hooks
          /\ delivery[w].item \in Bus!Queued /\ delivery[w].todo \in Seq(Bus!Subscribers) /\ 0 \in 0..Attempts
      BY <1>1, <1>4, <2>2, HandingAre, BusIs DEF Bus!Wanting, Bus!BusAssumption
    <3>2. x \in Bus!Handing /\ x.at = "post" /\ x.item = delivery[w].item /\ x.todo = delivery[w].todo /\ x.left \subseteq Hooks
      BY <3>1 DEF Bus!Handing
    <3>3. KindOf(x) = "hooks" /\ KindOf(delivery[w]) = "hooks" /\ x.left # {}
      BY <1>1, <2>2, <3>1, <3>2 DEF KindOf
    <3>4. x.left \subseteq IF delivery[w].at \in {"post", "page"} THEN delivery[w].left ELSE Of(KindOf(delivery[w]))
      BY <1>1, <3>2, <3>3 DEF Of
    <3> QED BY <1>1, <3>2, <3>3, <3>4, Turns
  <2> QED BY <2>1, <2>2
<1>6. Adds(w, x)
  BY <1>2 DEF Adds
<1> QED BY <1>1, <1>2, <1>3, <1>4, <1>5, <1>6, WorkerMoves

\* A subscriber goes on to the receivers that are left to it, or returns.
LEMMA Proceeds ==
  ASSUME BusInv, NEW w \in Bus!Threads, HasInHand(w), NEW s \in Bus!Handing,
         s.at \in {"post", "page"}, KindOf(s) = KindOf(delivery[w]), s.item = delivery[w].item, s.todo = delivery[w].todo,
         s.left \subseteq IF delivery[w].at \in {"post", "page"} THEN delivery[w].left ELSE Of(KindOf(delivery[w])),
         NEW x, x = IF s.left = {} THEN Bus!CallNext(delivery[w].item, delivery[w].todo) ELSE s
  PROVE  /\ x = Bus!Waiting \/ GoesOn(delivery[w], x)
         /\ CalledOnce(delivery[w]) => \A r \in Of(KindOf(delivery[w])) \ s.left : x = Bus!Waiting \/ ~ Ahead(x, r)
<1>1. CASE s.left = {}
  BY <1>1, Returns
<1>2. CASE s.left # {}
  BY <1>2, Turns
<1> QED BY <1>1, <1>2

\* What one receiver is told by the worker it is the turn of.
LEMMA Hears ==
  ASSUME BusInv, NEW w \in Bus!Threads, HasInHand(w), NEW r \in Bus!Receivers, NEW ok \in BOOLEAN, Bus!Hear(r, w, ok),
         Ahead(delivery[w], r), NEW x, ok /\ CalledOnce(delivery[w]) => x = Bus!Waiting \/ ~ Ahead(x, r)
  PROVE  Adds(w, x)
<1>1. heard' = [heard EXCEPT ![r] = Append(heard[r], [n |-> delivery[w].item.n, ok |-> ok])]
  BY DEF Bus!Hear
<1> QED BY <1>1 DEF Adds

LEMMA PostStep == ASSUME BusInv, NEW w \in Bus!Threads, Bus!Post(w) PROVE BusInv'
<1> DEFINE h == CHOOSE y \in delivery[w].left : TRUE
           settled == [delivery[w] EXCEPT !.left = @ \ {h}, !.tries = 0]
           again == IF delivery[w].tries + 1 < Attempts THEN [delivery[w] EXCEPT !.tries = @ + 1] ELSE settled
           turns(s) == IF s.left = {} THEN Bus!CallNext(delivery[w].item, delivery[w].todo) ELSE s
<1>1. HasInHand(w) /\ delivery[w].at = "post" /\ delivery[w] \in Bus!Handing
  BY WorkIs DEF Bus!Post, HasInHand
<1>2. /\ delivery[w].left \subseteq Hooks /\ delivery[w].left # {} /\ h \in delivery[w].left
      /\ delivery[w].tries \in 0..Attempts /\ Attempts \in Nat
  <2>1. delivery[w].left \subseteq Hooks /\ delivery[w].tries \in 0..Attempts
    BY <1>1, HandingAre
  <2>2. delivery[w].left # {}
    BY <1>1 DEF BusInv, EnvelopesNumbered
  <2> QED BY <2>1, <2>2, BusIs DEF Bus!BusAssumption
<1>3. /\ UNCHANGED <<queue, worker, emitting, raced, put, dropped, busEdits, subscribers, wiring, crossed,
                     dispatcher, notifier, made, webhooks, browsers>>
      /\ \/ /\ delivery' = [delivery EXCEPT ![w] = turns(settled)]
            /\ Bus!Hear(h, w, TRUE) \/ heard' = heard
         \/ /\ delivery' = [delivery EXCEPT ![w] = turns(again)]
            /\ Bus!Hear(h, w, FALSE) \/ heard' = heard
  BY DEF Bus!Post, Bus!Proceed, Bus!Return, Bus!Working, Bus!UnchangedByWorker, Bus!emitters, Bus!busWires, Bus!busRows
<1>4. webhooks' \in [Hooks -> SUBSET Bus!Events] /\ browsers' \in [Browsers -> Bus!Prefs \cup {Bus!Gone}]
  BY <1>3 DEF BusInv, Bus!TypeOK
<1>5. /\ settled \in Bus!Handing /\ settled.at = "post" /\ settled.item = delivery[w].item /\ settled.todo = delivery[w].todo
      /\ settled.left = delivery[w].left \ {h}
  <2>1. delivery[w] \in Posting /\ delivery[w].left \ {h} \in SUBSET Hooks /\ 0 \in 0..Attempts
    BY <1>1, <1>2, PostingIs
  <2>2. settled = [delivery[w] EXCEPT !.left = delivery[w].left \ {h}, !.tries = 0]
    OBVIOUS
  <2> HIDE DEF settled, h
  <2>3. /\ settled \in Posting /\ settled.item = delivery[w].item /\ settled.todo = delivery[w].todo
        /\ settled.left = delivery[w].left \ {h}
    BY <2>1, <2>2 DEF Posting
  <2> QED BY <2>3, PostingIs
<1>6. /\ again \in Bus!Handing /\ again.at = "post" /\ again.item = delivery[w].item /\ again.todo = delivery[w].todo
      /\ again.left \subseteq delivery[w].left
  <2>1. CASE delivery[w].tries + 1 < Attempts
    <3>1. delivery[w] \in Posting /\ delivery[w].tries + 1 \in 0..Attempts
      BY <1>1, <1>2, <2>1, PostingIs
    <3>2. again = [delivery[w] EXCEPT !.tries = delivery[w].tries + 1]
      BY <2>1
    <3> HIDE DEF again
    <3>3. /\ again \in Posting /\ again.item = delivery[w].item /\ again.todo = delivery[w].todo
          /\ again.left = delivery[w].left
      BY <3>1, <3>2 DEF Posting
    <3> QED BY <3>3, PostingIs
  <2> QED BY <1>5, <2>1
<1> HIDE DEF settled, again, h
<1>7. /\ Of(KindOf(delivery[w])) = Hooks /\ h \in Bus!Receivers /\ Ahead(delivery[w], h)
      /\ KindOf(settled) = "hooks" /\ KindOf(again) = "hooks" /\ KindOf(delivery[w]) = "hooks"
  BY <1>1, <1>2, <1>5, <1>6 DEF Of, KindOf, Bus!Receivers, Ahead
<1>8. ASSUME NEW x, x = turns(settled), delivery' = [delivery EXCEPT ![w] = x], Bus!Hear(h, w, TRUE) \/ heard' = heard PROVE BusInv'
  <2>1. /\ x = Bus!Waiting \/ GoesOn(delivery[w], x)
        /\ CalledOnce(delivery[w]) => \A r \in Of(KindOf(delivery[w])) \ settled.left : x = Bus!Waiting \/ ~ Ahead(x, r)
    BY <1>1, <1>5, <1>7, <1>8, Proceeds
  <2>2. Adds(w, x)
    BY <1>1, <1>2, <1>5, <1>7, <1>8, <2>1, Hears DEF Adds
  <2> QED BY <1>1, <1>3, <1>4, <1>8, <2>1, <2>2, WorkerMoves
<1>9. ASSUME NEW x, x = turns(again), delivery' = [delivery EXCEPT ![w] = x], Bus!Hear(h, w, FALSE) \/ heard' = heard PROVE BusInv'
  <2>1. x = Bus!Waiting \/ GoesOn(delivery[w], x)
    BY <1>1, <1>6, <1>7, <1>9, Proceeds
  <2>2. Adds(w, x)
    BY <1>1, <1>7, <1>9, Hears DEF Adds
  <2> QED BY <1>1, <1>3, <1>4, <1>9, <2>1, <2>2, WorkerMoves
<1> QED BY <1>3, <1>8, <1>9

Paging == [at : {"page"}, item : Bus!Queued, todo : Seq(Bus!Subscribers), left : SUBSET Browsers]
LEMMA PagingIs == /\ \A y \in Bus!Handing : y.at = "page" => y \in Paging
                  /\ \A y \in Paging : y \in Bus!Handing /\ y.at = "page"
BY DEF Bus!Handing, Paging

LEMMA LoadBrowsersStep == ASSUME BusInv, NEW w \in Bus!Threads, Bus!LoadBrowsers(w) PROVE BusInv'
<1> DEFINE concerned == {b \in Browsers : Bus!Concerns(delivery[w].item.envelope, browsers[b])}
           state == [at |-> "page", item |-> delivery[w].item, todo |-> delivery[w].todo, left |-> concerned]
<1>1. HasInHand(w) /\ delivery[w].at = "push" /\ delivery[w] \in Bus!Handing
  BY WorkIs DEF Bus!LoadBrowsers, HasInHand
<1>2. /\ delivery' = [delivery EXCEPT ![w] = IF state.left = {} THEN Bus!CallNext(delivery[w].item, delivery[w].todo) ELSE state]
      /\ UNCHANGED <<queue, worker, emitting, raced, put, dropped, busEdits, subscribers, wiring, crossed,
                     dispatcher, notifier, made, webhooks, browsers, heard>>
  BY DEF Bus!LoadBrowsers, Bus!Proceed, Bus!Return, Bus!Working, Bus!UnchangedByWorker, Bus!emitters, Bus!busWires, Bus!busRows
<1>3. webhooks' \in [Hooks -> SUBSET Bus!Events] /\ browsers' \in [Browsers -> Bus!Prefs \cup {Bus!Gone}]
  BY <1>2 DEF BusInv, Bus!TypeOK
<1>4. concerned \in SUBSET Browsers /\ delivery[w].item \in Bus!Queued /\ delivery[w].todo \in Seq(Bus!Subscribers)
  BY <1>1, HandingAre
<1> HIDE DEF concerned
<1>5. /\ state \in Paging /\ state.item = delivery[w].item /\ state.todo = delivery[w].todo
      /\ state.left \subseteq Browsers
  BY <1>4 DEF Paging
<1> HIDE DEF state
<1>6. /\ state \in Bus!Handing /\ state.at = "page" /\ KindOf(state) = "push" /\ KindOf(delivery[w]) = "push"
      /\ state.left \subseteq IF delivery[w].at \in {"post", "page"} THEN delivery[w].left ELSE Of(KindOf(delivery[w]))
  BY <1>1, <1>5, PagingIs DEF KindOf, Of
<1>7. PICK x : x = IF state.left = {} THEN Bus!CallNext(delivery[w].item, delivery[w].todo) ELSE state
  OBVIOUS
<1>8. x = Bus!Waiting \/ GoesOn(delivery[w], x)
  BY <1>1, <1>5, <1>6, <1>7, Proceeds
<1>9. Adds(w, x)
  BY <1>2 DEF Adds
<1> QED BY <1>1, <1>2, <1>3, <1>7, <1>8, <1>9, WorkerMoves

LEMMA PageStep == ASSUME BusInv, NEW w \in Bus!Threads, Bus!Page(w) PROVE BusInv'
<1> DEFINE b == CHOOSE y \in delivery[w].left : TRUE
           on == [delivery[w] EXCEPT !.left = @ \ {b}]
           next == Bus!CallNext(delivery[w].item, delivery[w].todo)
           turn == IF on.left = {} THEN Bus!CallNext(delivery[w].item, delivery[w].todo) ELSE on
<1>1. HasInHand(w) /\ delivery[w].at = "page" /\ delivery[w] \in Bus!Handing /\ delivery[w] \in Paging
  BY WorkIs, PagingIs DEF Bus!Page, HasInHand
<1>2. delivery[w].left \subseteq Browsers /\ delivery[w].left # {} /\ b \in delivery[w].left
  <2>1. delivery[w].left \subseteq Browsers
    BY <1>1 DEF Paging
  <2>2. delivery[w].left # {}
    BY <1>1 DEF BusInv, EnvelopesNumbered
  <2> QED BY <2>1, <2>2
<1>3. /\ UNCHANGED <<queue, worker, emitting, raced, put, dropped, busEdits, subscribers, wiring, crossed,
                     dispatcher, notifier, made, webhooks>>
      /\ delivery' = [delivery EXCEPT ![w] = turn] \/ delivery' = [delivery EXCEPT ![w] = next]
      /\ Bus!Hear(b, w, TRUE) \/ heard' = heard
      /\ browsers' = browsers \/ browsers' = [browsers EXCEPT ![b] = Bus!Gone]
  BY DEF Bus!Page, Bus!Proceed, Bus!Caught, Bus!Return, Bus!Working, Bus!UnchangedByWorker, Bus!emitters, Bus!busWires, Bus!busRows
<1>4. webhooks' \in [Hooks -> SUBSET Bus!Events] /\ browsers' \in [Browsers -> Bus!Prefs \cup {Bus!Gone}]
  BY <1>2, <1>3 DEF BusInv, Bus!TypeOK
<1> HIDE DEF b
<1>5. on \in Paging /\ on.item = delivery[w].item /\ on.todo = delivery[w].todo /\ on.left = delivery[w].left \ {b}
  <2>1. delivery[w].left \ {b} \in SUBSET Browsers
    BY <1>2
  <2>2. on = [delivery[w] EXCEPT !.left = delivery[w].left \ {b}]
    OBVIOUS
  <2> HIDE DEF on
  <2> QED BY <1>1, <2>1, <2>2 DEF Paging
<1> HIDE DEF on, next
<1>6. /\ on \in Bus!Handing /\ on.at = "page" /\ KindOf(on) = "push" /\ KindOf(delivery[w]) = "push"
      /\ Of(KindOf(delivery[w])) = Browsers /\ b \in Bus!Receivers /\ Ahead(delivery[w], b)
  BY <1>1, <1>2, <1>5, PagingIs DEF KindOf, Of, Bus!Receivers, Ahead
<1>7. ASSUME NEW x, x = turn \/ x = next
      PROVE  /\ x = Bus!Waiting \/ GoesOn(delivery[w], x)
             /\ CalledOnce(delivery[w]) => x = Bus!Waiting \/ ~ Ahead(x, b)
  <2>1. CASE x = turn
    BY <1>1, <1>2, <1>5, <1>6, <1>7, <2>1, Proceeds
  <2>2. CASE x = next
    BY <1>1, <1>2, <1>6, <2>2, Returns DEF next
  <2> QED BY <1>7, <2>1, <2>2
<1>8. ASSUME NEW x, x = turn \/ x = next, delivery' = [delivery EXCEPT ![w] = x] PROVE BusInv'
  <2>1. /\ x = Bus!Waiting \/ GoesOn(delivery[w], x)
        /\ CalledOnce(delivery[w]) => x = Bus!Waiting \/ ~ Ahead(x, b)
    BY <1>7, <1>8
  <2> HIDE DEF turn
  <2>2. Adds(w, x)
    <3>1. CASE heard' = heard
      BY <3>1 DEF Adds
    <3>2. CASE Bus!Hear(b, w, TRUE)
      BY <1>1, <1>6, <2>1, <3>2, Hears
    <3> QED BY <1>3, <3>1, <3>2
  <2> QED BY <1>1, <1>3, <1>4, <1>8, <2>1, <2>2, WorkerMoves
<1> QED BY <1>3, <1>8

-----------------------------------------------------------------------------
LEMMA TakeStep == ASSUME BusInv, NEW w \in Bus!Threads, Bus!Take(w) PROVE BusInv'
<1>1. /\ delivery[w].at = "get" /\ queue # <<>> /\ queue' = Tail(queue)
      /\ delivery' = [delivery EXCEPT ![w] = Bus!CallNext(Head(queue), subscribers)]
      /\ UNCHANGED <<worker, emitting, raced, put, dropped, busEdits, subscribers, wiring, crossed,
                     dispatcher, notifier, made, webhooks, browsers, heard>>
  BY DEF Bus!Take, Bus!Working, Bus!UnchangedByWorker, Bus!emitters, Bus!busWires, Bus!busRows
<1>2. /\ queue \in Seq(Bus!Queued) /\ Len(queue) <= QueueSize /\ QueueSize \in Nat
      /\ subscribers \in Seq(Bus!Subscribers)
  BY BusIs DEF BusInv, Bus!TypeOK, Bus!BusAssumption
<1>3. PICK item \in Bus!Queued : item = queue[1] /\ item = Head(queue) /\ 1 \in DOMAIN queue
  BY <1>1, <1>2
<1>4. /\ queue' \in Seq(Bus!Queued) /\ Len(queue') <= QueueSize
      /\ \A i \in DOMAIN queue' : i + 1 \in DOMAIN queue /\ queue'[i] = queue[i + 1]
      /\ \A i, j \in DOMAIN queue' : i < j => i + 1 < j + 1
      /\ \A i \in DOMAIN queue' : 1 < i + 1
  BY <1>1, <1>2
<1>5. item.n \in Nat /\ item.n <= put /\ \A i \in DOMAIN queue' : item.n < queue'[i].n
  BY <1>3, <1>4 DEF BusInv, EnvelopesNumbered, Bus!Queued
<1>6. PICK x : x = Bus!CallNext(item, subscribers)
  OBVIOUS
<1>7. \/ x = Bus!Waiting
      \/ x \in Bus!Handing /\ x.at \in {"hooks", "push"} /\ x.item = item /\ (KindsDiffer(subscribers) => CalledOnce(x))
  BY <1>2, <1>6, NextCall
<1>8. /\ delivery' \in [Bus!Threads -> Bus!Idle \cup Bus!Handing]
      /\ delivery'[w] = x /\ \A v \in Bus!Threads \ {w} : delivery'[v] = delivery[v]
  BY <1>1, <1>3, <1>6, <1>7, IdleAre DEF BusInv, Bus!TypeOK
<1>9. /\ IsStarted(w) /\ ~ HasInHand(w) /\ \A v \in Bus!Threads : IsStarted(v)' => IsStarted(v)
      /\ HasInHand(w)' => x.item = item /\ x.at \in {"hooks", "push"} /\ (KindsDiffer(subscribers) => CalledOnce(x))
      /\ \A v \in Bus!Threads \ {w} : HasInHand(v)' => HasInHand(v)
  BY <1>1, <1>7, <1>8, IdleAre DEF IsStarted, HasInHand
<1>10. Bus!TypeOK'
  BY <1>1, <1>4, <1>8 DEF BusInv, Bus!TypeOK
<1>11. Counted'
  BY <1>1 DEF BusInv, Counted, Bus!UnderWay
<1>12. ASSUME NEW v \in Bus!Threads \ {w}, HasInHand(v)'
       PROVE  /\ delivery'[v].item.n < item.n /\ delivery'[v].item.n <= put
              /\ \A i \in DOMAIN queue' : delivery'[v].item.n < queue'[i].n
              /\ delivery'[v].at \in {"post", "page"} => delivery'[v].left # {}
  <2>1. HasInHand(v) /\ delivery'[v] = delivery[v]
    BY <1>8, <1>9, <1>12
  <2> QED BY <1>3, <1>4, <2>1 DEF BusInv, EnvelopesNumbered
<1>13. \A r \in Bus!Receivers : \A i \in DOMAIN heard'[r] :
         heard'[r][i].n <= put /\ heard'[r][i].n < item.n /\ \A j \in DOMAIN queue' : heard'[r][i].n < queue'[j].n
  BY <1>1, <1>3, <1>4 DEF BusInv, EnvelopesNumbered
<1>14. EnvelopesNumbered'
  <2>1. \A i, j \in DOMAIN queue' : i < j => queue'[i].n < queue'[j].n
    BY <1>4 DEF BusInv, EnvelopesNumbered
  <2>2. \A i \in DOMAIN queue' : queue'[i].n <= put
    BY <1>4 DEF BusInv, EnvelopesNumbered
  <2>3. ASSUME NEW v \in Bus!Threads, HasInHand(v)'
        PROVE  /\ delivery'[v].item.n <= put
               /\ \A i \in DOMAIN queue' : delivery'[v].item.n < queue'[i].n
               /\ delivery'[v].at \in {"post", "page"} => delivery'[v].left # {}
    <3>1. CASE v = w
      <4>1. delivery'[v].item = item /\ delivery'[v].at \in {"hooks", "push"}
        BY <1>8, <1>9, <2>3, <3>1
      <4>2. delivery'[v].at \notin {"post", "page"}
        BY <4>1
      <4>3. delivery'[v].item.n <= put /\ \A i \in DOMAIN queue' : delivery'[v].item.n < queue'[i].n
        BY <1>5, <4>1
      <4> QED BY <4>2, <4>3
    <3>2. CASE v # w
      <4>1. v \in Bus!Threads \ {w}
        BY <3>2
      <4> QED BY <1>12, <2>3, <4>1
    <3> QED BY <3>1, <3>2
  <2>4. ASSUME NEW u \in Bus!Threads, NEW v \in Bus!Threads, HasInHand(u)', HasInHand(v)', delivery'[u].item.n = delivery'[v].item.n
        PROVE  u = v
    <3>1. CASE u # w /\ v # w
      <4>1. HasInHand(u) /\ HasInHand(v) /\ delivery[u].item.n = delivery[v].item.n
        BY <1>8, <1>9, <2>4, <3>1
      <4> QED BY <4>1 DEF BusInv, EnvelopesNumbered
    <3>2. \A y \in Bus!Threads \ {w} : HasInHand(y)' => delivery'[y].item.n # item.n
      BY <1>5, <1>12
    <3>3. HasInHand(w)' => delivery'[w].item.n = item.n
      BY <1>8, <1>9
    <3> QED BY <2>4, <3>1, <3>2, <3>3
  <2> QED BY <1>1, <1>13, <2>1, <2>2, <2>3, <2>4 DEF EnvelopesNumbered
<1>15. ASSUME ~ raced' PROVE OneEmitter'
  <2>1. OneEmitter /\ Bus!UnderWay' = Bus!UnderWay
    BY <1>1, <1>15 DEF BusInv, Bus!UnderWay
  <2>2. \A v \in Bus!Threads : HasInHand(v)' => v = w
    BY <1>9, <2>1, WorkIs DEF OneEmitter
  <2>3. ASSUME NEW v \in Bus!Threads, HasInHand(v)', NEW r \in Bus!Receivers, NEW i \in DOMAIN heard'[r]
        PROVE  heard'[r][i].n <= delivery'[v].item.n
    <3>1. v = w /\ delivery'[v].item = item /\ heard'[r][i].n < item.n
      BY <1>8, <1>9, <1>13, <2>2, <2>3
    <3>2. heard'[r][i].n \in Nat
      <4>1. PICK q \in Seq([n : 1..MaxEnvelopes, ok : BOOLEAN]) : q = heard'[r]
        BY <1>10 DEF Bus!TypeOK
      <4>2. i \in 1..Len(q)
        BY <2>3, <4>1
      <4>3. q[i] \in [n : 1..MaxEnvelopes, ok : BOOLEAN]
        BY <4>1, <4>2, ElementTyped
      <4>4. q[i].n \in 1..MaxEnvelopes
        BY <4>3
      <4>5. q[i].n \in Nat
        BY <4>4
      <4> QED BY <4>1, <4>5
    <3> QED BY <1>5, <3>1, <3>2
  <2> QED BY <1>1, <1>9, <2>1, <2>3 DEF OneEmitter
<1>16. ASSUME ~ crossed' PROVE Uncrossed'
  <2>1. Uncrossed
    BY <1>1, <1>16 DEF BusInv
  <2>2. \A v \in Bus!Threads : HasInHand(v)' => CalledOnce(delivery'[v])
    BY <1>8, <1>9, <2>1 DEF Uncrossed
  <2>3. ASSUME NEW v \in Bus!Threads, HasInHand(v)', NEW r \in Bus!Receivers, NEW i \in DOMAIN heard'[r],
               heard'[r][i].ok, heard'[r][i].n = delivery'[v].item.n
        PROVE  ~ Ahead(delivery'[v], r)
    <3>1. v # w
      <4>1. heard'[r][i].n < item.n /\ (v = w => delivery'[v].item.n = item.n)
        BY <1>8, <1>9, <1>13, <2>3
      <4>2. ~ (item.n < item.n)
        BY <1>5
      <4> QED BY <2>3, <4>1, <4>2
    <3> QED BY <1>1, <1>8, <1>9, <2>1, <2>3, <3>1 DEF Uncrossed
  <2>4. KindsDiffer(subscribers)' /\ None("hooks")' = None("hooks") /\ None("push")' = None("push")
    BY <1>1, <2>1 DEF Uncrossed, KindsDiffer, None
  <2> QED BY <1>1, <2>1, <2>2, <2>3, <2>4 DEF Uncrossed
<1>17. Bus!HeardInOrder'
  BY <1>1 DEF BusInv, Bus!HeardInOrder
<1> QED BY <1>10, <1>11, <1>14, <1>15, <1>16, <1>17 DEF BusInv

-----------------------------------------------------------------------------
\* What may have been put on the queue: nothing, or the envelope with the next number.
Fuller ==
  /\ queue' \in Seq(Bus!Queued) /\ Len(queue') <= QueueSize /\ put' \in Nat /\ dropped' \in Nat
  /\ put <= put' /\ put' + dropped' <= put + dropped + 1
  /\ \A i, j \in DOMAIN queue' : i < j => queue'[i].n < queue'[j].n
  /\ \A i \in DOMAIN queue' : queue'[i].n <= put'
  /\ \A i \in DOMAIN queue' : put < queue'[i].n \/ (i \in DOMAIN queue /\ queue'[i] = queue[i])

LEMMA Unput == ASSUME BusInv, UNCHANGED <<queue, put, dropped>> PROVE Fuller
<1>1. put \in Nat /\ dropped \in Nat /\ put <= put
  BY DEF BusInv, Bus!TypeOK
<1> QED BY <1>1 DEF BusInv, Bus!TypeOK, EnvelopesNumbered, Fuller

LEMMA Puts == ASSUME BusInv, Bus!PutNowait, put + 1 <= MaxEnvelopes PROVE Fuller
<1>1. /\ put \in Nat /\ dropped \in Nat /\ put <= put /\ put <= put + 1 /\ put + 1 <= put + 1 /\ put < put + 1
      /\ MaxEnvelopes \in Nat
      /\ queue \in Seq(Bus!Queued) /\ Len(queue) <= QueueSize /\ QueueSize \in Nat
  BY BusIs DEF BusInv, Bus!TypeOK, Bus!BusAssumption
<1>2. ASSUME NEW v \in Bus!Envelopes, Len(queue) < QueueSize,
             queue' = Append(queue, [n |-> put + 1, envelope |-> v]), put' = put + 1, UNCHANGED dropped
      PROVE  Fuller
  <2>1. PICK item \in Bus!Queued : item = [n |-> put + 1, envelope |-> v] /\ item.n = put + 1
    <3>1. put + 1 \in 1..MaxEnvelopes
      BY <1>1
    <3>2. [n |-> put + 1, envelope |-> v] \in Bus!Queued /\ [n |-> put + 1, envelope |-> v].n = put + 1
      BY <3>1 DEF Bus!Queued
    <3> QED BY <3>2
  <2>2. queue' = Append(queue, item)
    BY <1>2, <2>1
  <2>3. /\ queue' \in Seq(Bus!Queued) /\ Len(queue') = Len(queue) + 1 /\ DOMAIN queue = 1..Len(queue)
        /\ DOMAIN queue' = 1..(Len(queue) + 1) /\ queue'[Len(queue) + 1] = item
        /\ \A i \in DOMAIN queue : queue'[i] = queue[i]
    BY <1>1, <2>2
  <2>4. Len(queue') <= QueueSize
    BY <1>1, <1>2, <2>3
  <2>5. ASSUME NEW i \in DOMAIN queue' PROVE (i \in DOMAIN queue /\ queue'[i] = queue[i]) \/ queue'[i] = item
    BY <1>1, <2>3, <2>5
  <2>6. \A i \in DOMAIN queue : queue[i].n <= put /\ queue[i].n \in Nat
    <3>1. ASSUME NEW i \in DOMAIN queue PROVE queue[i].n \in Nat
      <4>1. i \in 1..Len(queue)
        BY <1>1, <3>1
      <4>2. queue[i] \in Bus!Queued
        BY <1>1, <4>1, ElementTyped
      <4>3. queue[i].n \in 1..MaxEnvelopes
        BY <4>2 DEF Bus!Queued
      <4> QED BY <4>3
    <3> QED BY <3>1 DEF BusInv, EnvelopesNumbered
  <2>7. ASSUME NEW i \in DOMAIN queue', NEW j \in DOMAIN queue', i < j PROVE queue'[i].n < queue'[j].n
    <3>1. i \in DOMAIN queue /\ (j \in DOMAIN queue \/ j = Len(queue) + 1)
      BY <1>1, <2>3, <2>7
    <3>2. CASE j \in DOMAIN queue
      BY <2>3, <2>7, <3>1, <3>2 DEF BusInv, EnvelopesNumbered
    <3>3. CASE j = Len(queue) + 1
      BY <1>1, <2>1, <2>3, <2>6, <3>1, <3>3
    <3> QED BY <3>1, <3>2, <3>3
  <2>8. \A i \in DOMAIN queue' : queue'[i].n <= put'
    BY <1>1, <1>2, <2>1, <2>5, <2>6
  <2>9. \A i \in DOMAIN queue' : put < queue'[i].n \/ (i \in DOMAIN queue /\ queue'[i] = queue[i])
    BY <1>1, <2>1, <2>5
  <2>10. put' \in Nat /\ dropped' \in Nat /\ put <= put' /\ put' + dropped' <= put + dropped + 1
    BY <1>1, <1>2
  <2> QED BY <2>3, <2>4, <2>7, <2>8, <2>9, <2>10 DEF Fuller
<1>3. ASSUME dropped' = dropped + 1, UNCHANGED <<queue, put>> PROVE Fuller
  BY <1>1, <1>3 DEF BusInv, EnvelopesNumbered, Fuller
<1> QED BY <1>2, <1>3 DEF Bus!PutNowait

\* Emitters leave the workers that have something in hand alone, and the rows and the
\* subscribers too.
LEMMA EmitterMoves ==
  ASSUME BusInv, Fuller, Counted', delivery' \in [Bus!Threads -> Bus!Idle \cup Bus!Handing], worker' \in 0..MaxWorkers,
         \A v \in Bus!Threads : delivery'[v] = delivery[v] \/ (~ HasInHand(v)' /\ ~ HasInHand(v)),
         emitting' \in [Emitters -> {"no", "make", "start"}], raced' \in BOOLEAN, raced => raced',
         ~ raced' => /\ \A e, f \in Bus!UnderWay' : e = f
                     /\ \A v \in Bus!Threads : IsStarted(v)' => v = worker'
                     /\ Bus!UnderWay' # {} => \A v \in Bus!Threads : ~ IsStarted(v)',
         UNCHANGED <<busEdits, subscribers, wiring, crossed, dispatcher, notifier, made, webhooks, browsers, heard>>
  PROVE  BusInv'
<1>1. \A v \in Bus!Threads : HasInHand(v)' => HasInHand(v) /\ delivery'[v] = delivery[v]
  BY DEF HasInHand
<1>2. put \in Nat /\ put' \in Nat /\ put <= put'
  BY DEF Fuller, BusInv, Bus!TypeOK
<1>3. Bus!TypeOK'
  BY DEF BusInv, Bus!TypeOK, Fuller
<1>4. ASSUME NEW n \in Nat, n <= put, \A j \in DOMAIN queue : n < queue[j].n
      PROVE  n <= put' /\ \A j \in DOMAIN queue' : n < queue'[j].n
  <2>1. n <= put'
    BY <1>2, <1>4
  <2>2. ASSUME NEW j \in DOMAIN queue' PROVE n < queue'[j].n
    <3>1. CASE put < queue'[j].n
      <4>1. j \in 1..Len(queue') /\ queue' \in Seq(Bus!Queued)
        BY DEF Fuller
      <4>2. queue'[j] \in Bus!Queued
        BY <4>1, ElementTyped
      <4>3. queue'[j].n \in Nat
        BY <4>2 DEF Bus!Queued
      <4> QED BY <1>2, <1>4, <3>1, <4>3
    <3>2. CASE j \in DOMAIN queue /\ queue'[j] = queue[j]
      BY <1>4, <3>2
    <3> QED BY <3>1, <3>2 DEF Fuller
  <2> QED BY <2>1, <2>2
<1>5. ASSUME NEW v \in Bus!Threads, HasInHand(v)'
      PROVE  /\ delivery'[v].item.n <= put'
             /\ \A i \in DOMAIN queue' : delivery'[v].item.n < queue'[i].n
             /\ delivery'[v].at \in {"post", "page"} => delivery'[v].left # {}
  <2>1. HasInHand(v) /\ delivery'[v] = delivery[v] /\ delivery[v].item.n \in Nat
    BY <1>1, <1>5, WorkIs, HandingAre
  <2>2. /\ delivery[v].item.n <= put /\ \A i \in DOMAIN queue : delivery[v].item.n < queue[i].n
        /\ delivery[v].at \in {"post", "page"} => delivery[v].left # {}
    BY <2>1 DEF BusInv, EnvelopesNumbered
  <2> QED BY <1>4, <2>1, <2>2
<1>6. ASSUME NEW r \in Bus!Receivers, NEW i \in DOMAIN heard'[r]
      PROVE  heard'[r][i].n <= put' /\ \A j \in DOMAIN queue' : heard'[r][i].n < queue'[j].n
  <2>1. heard[r][i].n \in Nat
    <3>1. heard[r] \in Seq([n : 1..MaxEnvelopes, ok : BOOLEAN])
      BY DEF BusInv, Bus!TypeOK
    <3>2. i \in 1..Len(heard[r])
      BY <1>6, <3>1
    <3>3. heard[r][i] \in [n : 1..MaxEnvelopes, ok : BOOLEAN]
      BY <3>1, <3>2, ElementTyped
    <3> QED BY <3>3
  <2>2. heard[r][i].n <= put /\ \A j \in DOMAIN queue : heard[r][i].n < queue[j].n
    BY <1>6 DEF BusInv, EnvelopesNumbered
  <2> QED BY <1>4, <2>1, <2>2
<1>7. EnvelopesNumbered'
  <2>1. \A u, v \in Bus!Threads : HasInHand(u)' /\ HasInHand(v)' /\ delivery'[u].item.n = delivery'[v].item.n => u = v
    BY <1>1 DEF BusInv, EnvelopesNumbered
  <2> QED BY <1>5, <1>6, <2>1 DEF Fuller, EnvelopesNumbered
<1>8. ASSUME ~ raced' PROVE OneEmitter'
  <2>1. OneEmitter
    BY <1>8 DEF BusInv
  <2>2. \A v \in Bus!Threads : HasInHand(v)' => \A r \in Bus!Receivers : \A i \in DOMAIN heard'[r] : heard'[r][i].n <= delivery'[v].item.n
    BY <1>1, <2>1 DEF OneEmitter
  <2> QED BY <1>8, <2>2 DEF OneEmitter
<1>9. ASSUME ~ crossed' PROVE Uncrossed'
  <2>1. Uncrossed
    BY <1>9 DEF BusInv
  <2>2. \A v \in Bus!Threads : HasInHand(v)' => CalledOnce(delivery'[v])
    BY <1>1, <2>1 DEF Uncrossed
  <2>3. \A v \in Bus!Threads : HasInHand(v)' => \A r \in Bus!Receivers : \A i \in DOMAIN heard'[r] :
          heard'[r][i].ok /\ heard'[r][i].n = delivery'[v].item.n => ~ Ahead(delivery'[v], r)
    BY <1>1, <2>1 DEF Uncrossed
  <2>4. KindsDiffer(subscribers)' /\ None("hooks")' = None("hooks") /\ None("push")' = None("push")
    BY <2>1 DEF Uncrossed, KindsDiffer, None
  <2> QED BY <2>1, <2>2, <2>3, <2>4 DEF Uncrossed
<1>10. Bus!HeardInOrder'
  BY DEF BusInv, Bus!HeardInOrder
<1> QED BY <1>3, <1>7, <1>8, <1>9, <1>10 DEF BusInv

LEMMA EmittersAreFinite == IsFiniteSet(Emitters)
BY BusIs DEF Bus!BusAssumption, Bus!IsFiniteSet, IsFiniteSet

\* The emitters under way are finitely many: one more, one less, as many.
LEMMA UnderWayIsFinite ==
  ASSUME BusInv
  PROVE  /\ Cardinality(Bus!UnderWay) \in Nat
         /\ \A e \in Emitters : e \notin Bus!UnderWay => Cardinality(Bus!UnderWay \cup {e}) = Cardinality(Bus!UnderWay) + 1
         /\ \A e \in Bus!UnderWay : Cardinality(Bus!UnderWay \ {e}) = Cardinality(Bus!UnderWay) - 1
<1>1. IsFiniteSet(Bus!UnderWay)
  BY EmittersAreFinite, FS_Subset DEF Bus!UnderWay
<1> QED BY <1>1, FS_AddElement, FS_RemoveElement, FS_CardinalityType

LEMMA OneMore ==
  ASSUME NEW p \in Nat, NEW d \in Nat, NEW c \in Nat, NEW p1 \in Nat, NEW d1 \in Nat, NEW m \in Nat,
         p + d + c < m, p1 + d1 <= p + d + 1
  PROVE  p1 + d1 + c <= m
OBVIOUS

LEMMA EmitStep == ASSUME BusInv, NEW e \in Emitters, Bus!Emit(e) PROVE BusInv'
<1>1. /\ emitting[e] = "no" /\ put + dropped + Cardinality(Bus!UnderWay) < MaxEnvelopes
      /\ UNCHANGED <<worker, delivery, busEdits, subscribers, wiring, crossed, dispatcher, notifier, made, webhooks, browsers, heard>>
  BY DEF Bus!Emit, Bus!busWires, Bus!busRows, Bus!Cardinality, Cardinality
<1>2. /\ put \in Nat /\ dropped \in Nat /\ MaxEnvelopes \in Nat /\ Cardinality(Bus!UnderWay) \in Nat
      /\ delivery' \in [Bus!Threads -> Bus!Idle \cup Bus!Handing] /\ worker' \in 0..MaxWorkers
      /\ emitting \in [Emitters -> {"no", "make", "start"}] /\ raced \in BOOLEAN
      /\ e \notin Bus!UnderWay /\ Cardinality(Bus!UnderWay \cup {e}) = Cardinality(Bus!UnderWay) + 1
  BY <1>1, BusIs, UnderWayIsFinite DEF BusInv, Bus!TypeOK, Bus!UnderWay, Bus!BusAssumption
<1>3. \A v \in Bus!Threads : delivery'[v] = delivery[v] /\ IsStarted(v)' = IsStarted(v)
  BY <1>1 DEF IsStarted
<1>4. CASE Bus!Alive
  <2>1. Bus!PutNowait /\ UNCHANGED <<emitting, raced>>
    BY <1>4 DEF Bus!Emit, Bus!emitters
  <2>2. Fuller
    BY <1>1, <1>2, <2>1, Puts
  <2>3. Bus!UnderWay' = Bus!UnderWay
    BY <2>1 DEF Bus!UnderWay
  <2>4. Counted'
    <3>1. put' + dropped' <= put + dropped + 1 /\ put' \in Nat /\ dropped' \in Nat
      BY <2>2 DEF Fuller
    <3>2. put' + dropped' + Cardinality(Bus!UnderWay) <= MaxEnvelopes
      BY <1>1, <1>2, <3>1, OneMore
    <3> QED BY <2>3, <3>2 DEF Counted
  <2>5. ~ raced' => /\ \A f, g \in Bus!UnderWay' : f = g
                    /\ \A v \in Bus!Threads : IsStarted(v)' => v = worker'
                    /\ Bus!UnderWay' # {} => \A v \in Bus!Threads : ~ IsStarted(v)'
    BY <1>1, <1>3, <2>1, <2>3 DEF BusInv, OneEmitter
  <2> QED BY <1>1, <1>2, <1>3, <2>1, <2>2, <2>4, <2>5, EmitterMoves
<1>5. CASE ~ Bus!Alive
  <2>1. /\ emitting' = [emitting EXCEPT ![e] = "make"] /\ raced' = (raced \/ Bus!UnderWay # {})
        /\ UNCHANGED <<queue, put, dropped>>
    BY <1>5 DEF Bus!Emit, Bus!emitters
  <2>2. Fuller
    BY <2>1, Unput
  <2>3. /\ emitting' \in [Emitters -> {"no", "make", "start"}] /\ Bus!UnderWay' = Bus!UnderWay \cup {e}
        /\ raced' \in BOOLEAN /\ (raced => raced')
    BY <1>2, <2>1 DEF Bus!UnderWay
  <2>4. Counted'
    BY <1>1, <1>2, <2>1, <2>3 DEF Counted
  <2>5. ASSUME ~ raced' PROVE /\ \A f, g \in Bus!UnderWay' : f = g
                              /\ \A v \in Bus!Threads : ~ IsStarted(v)'
    <3>1. Bus!UnderWay = {} /\ OneEmitter
      BY <2>1, <2>5 DEF BusInv
    <3>2. \A v \in Bus!Threads : ~ IsStarted(v)
      <4>1. \A v \in Bus!Threads : IsStarted(v) => v = worker /\ worker # 0
        BY <3>1, BusIs DEF OneEmitter, Bus!Threads, Bus!BusAssumption
      <4>2. \A v \in Bus!Threads : IsStarted(v) => delivery[v] \notin {Bus!Unborn, Bus!Made}
        BY IdleAre DEF IsStarted
      <4> QED BY <1>5, <4>1, <4>2 DEF Bus!Alive
    <3>3. \A f, g \in Bus!UnderWay' : f = g
      BY <2>3, <3>1
    <3> QED BY <1>3, <3>2, <3>3
  <2>6. \A v \in Bus!Threads : delivery'[v] = delivery[v] \/ (~ HasInHand(v)' /\ ~ HasInHand(v))
    BY <1>3
  <2>7. ~ raced' => /\ \A f, g \in Bus!UnderWay' : f = g
                    /\ \A v \in Bus!Threads : IsStarted(v)' => v = worker'
                    /\ Bus!UnderWay' # {} => \A v \in Bus!Threads : ~ IsStarted(v)'
    BY <2>5
  <2> QED BY <1>1, <1>2, <2>2, <2>3, <2>4, <2>6, <2>7, EmitterMoves
<1> QED BY <1>4, <1>5

LEMMA MakeWorkerStep == ASSUME BusInv, NEW e \in Emitters, Bus!MakeWorker(e) PROVE BusInv'
<1>1. PICK w \in Bus!Threads : delivery[w] = Bus!Unborn /\ delivery' = [delivery EXCEPT ![w] = Bus!Made] /\ worker' = w
  BY DEF Bus!MakeWorker
<1>2. /\ emitting[e] = "make" /\ emitting' = [emitting EXCEPT ![e] = "start"]
      /\ UNCHANGED <<raced, queue, put, dropped, busEdits, subscribers, wiring, crossed, dispatcher, notifier, made,
                     webhooks, browsers, heard>>
  BY DEF Bus!MakeWorker, Bus!busWires, Bus!busRows
<1>3. /\ delivery' \in [Bus!Threads -> Bus!Idle \cup Bus!Handing] /\ worker' \in 0..MaxWorkers
      /\ \A v \in Bus!Threads : delivery'[v] = delivery[v] \/ (~ HasInHand(v)' /\ ~ HasInHand(v))
      /\ \A v \in Bus!Threads : IsStarted(v)' => IsStarted(v)
  <2>1. delivery' \in [Bus!Threads -> Bus!Idle \cup Bus!Handing] /\ worker' \in 0..MaxWorkers
    BY <1>1, IdleAre, BusIs DEF BusInv, Bus!TypeOK, Bus!Threads, Bus!BusAssumption
  <2>2. delivery'[w] = Bus!Made /\ \A v \in Bus!Threads \ {w} : delivery'[v] = delivery[v]
    BY <1>1 DEF BusInv, Bus!TypeOK
  <2> QED BY <1>1, <2>1, <2>2, IdleAre DEF HasInHand, IsStarted
<1>4. /\ emitting' \in [Emitters -> {"no", "make", "start"}] /\ e \in Bus!UnderWay /\ Bus!UnderWay' = Bus!UnderWay
      /\ raced' \in BOOLEAN
  BY <1>2 DEF BusInv, Bus!TypeOK, Bus!UnderWay
<1>5. Fuller
  BY <1>2, Unput
<1>6. Counted'
  BY <1>2, <1>4 DEF BusInv, Counted
<1>7. ~ raced' => /\ \A f, g \in Bus!UnderWay' : f = g
                  /\ \A v \in Bus!Threads : ~ IsStarted(v)'
  BY <1>2, <1>3, <1>4 DEF BusInv, OneEmitter
<1> QED BY <1>2, <1>3, <1>4, <1>5, <1>6, <1>7, EmitterMoves

LEMMA StartWorkerStep == ASSUME BusInv, NEW e \in Emitters, Bus!StartWorker(e) PROVE BusInv'
<1>1. /\ emitting[e] = "start" /\ emitting' = [emitting EXCEPT ![e] = "no"]
      /\ UNCHANGED <<raced, worker, busEdits, subscribers, wiring, crossed, dispatcher, notifier, made,
                     webhooks, browsers, heard>>
  BY DEF Bus!StartWorker, Bus!busWires, Bus!busRows
<1>2. /\ emitting' \in [Emitters -> {"no", "make", "start"}] /\ e \in Bus!UnderWay /\ Bus!UnderWay' = Bus!UnderWay \ {e}
      /\ raced' \in BOOLEAN /\ worker' \in 0..MaxWorkers
      /\ delivery \in [Bus!Threads -> Bus!Idle \cup Bus!Handing]
      /\ put \in Nat /\ dropped \in Nat /\ MaxEnvelopes \in Nat
  BY <1>1, BusIs DEF BusInv, Bus!TypeOK, Bus!UnderWay, Bus!BusAssumption
<1>3. /\ Cardinality(Bus!UnderWay) \in Nat /\ Cardinality(Bus!UnderWay') = Cardinality(Bus!UnderWay) - 1
      /\ Cardinality(Bus!UnderWay') \in Nat /\ put + dropped + Cardinality(Bus!UnderWay) <= MaxEnvelopes
  <2>1. Cardinality(Bus!UnderWay') = Cardinality(Bus!UnderWay) - 1
    BY <1>2, UnderWayIsFinite
  <2>2. IsFiniteSet(Bus!UnderWay')
    BY EmittersAreFinite, FS_Subset DEF Bus!UnderWay
  <2> QED BY <2>1, <2>2, UnderWayIsFinite, FS_CardinalityType DEF BusInv, Counted
<1>4. Fuller
  <2>1. CASE Bus!PutNowait
    BY <1>2, <1>3, <2>1, Puts
  <2> QED BY <2>1, Unput DEF Bus!StartWorker
<1>5. Counted'
  <2>1. put' + dropped' <= put + dropped + 1 /\ put' \in Nat /\ dropped' \in Nat
    BY <1>4 DEF Fuller
  <2>2. put + dropped + Cardinality(Bus!UnderWay') < MaxEnvelopes
    BY <1>2, <1>3
  <2>3. put' + dropped' + Cardinality(Bus!UnderWay') <= MaxEnvelopes
    BY <1>2, <1>3, <2>1, <2>2, OneMore
  <2> QED BY <2>3 DEF Counted
<1>6. \/ /\ delivery[worker] = Bus!Made /\ delivery' = [delivery EXCEPT ![worker] = Bus!Waiting]
      \/ delivery[worker] # Bus!Made /\ delivery' = delivery
  BY DEF Bus!StartWorker
<1>7. /\ delivery' \in [Bus!Threads -> Bus!Idle \cup Bus!Handing]
      /\ \A v \in Bus!Threads : v = worker \/ delivery'[v] = delivery[v]
      /\ worker \in Bus!Threads => delivery'[worker] = delivery[worker] \/ (delivery[worker] = Bus!Made /\ delivery'[worker] = Bus!Waiting)
  BY <1>2, <1>6, IdleAre
<1>8. \A v \in Bus!Threads : delivery'[v] = delivery[v] \/ (~ HasInHand(v)' /\ ~ HasInHand(v))
  BY <1>7, IdleAre DEF HasInHand
<1>9. ASSUME ~ raced' PROVE /\ Bus!UnderWay' = {}
                            /\ \A v \in Bus!Threads : IsStarted(v)' => v = worker'
  <2>1. OneEmitter
    BY <1>1, <1>9 DEF BusInv
  <2>2. Bus!UnderWay' = {}
    BY <1>2, <2>1 DEF OneEmitter
  <2>3. \A v \in Bus!Threads : v # worker => (IsStarted(v)' => IsStarted(v))
    BY <1>7 DEF IsStarted
  <2> QED BY <1>1, <2>1, <2>2, <2>3 DEF OneEmitter
<1> QED BY <1>1, <1>2, <1>4, <1>5, <1>7, <1>8, <1>9, EmitterMoves

-----------------------------------------------------------------------------
LEMMA RemoveAtIs ==
  ASSUME NEW S, NEW q \in Seq(S), NEW i \in 1..Len(q)
  PROVE  /\ Bus!RemoveAt(q, i) \in Seq(S)
         /\ \A j \in DOMAIN Bus!RemoveAt(q, i) :
              \/ j < i /\ j \in DOMAIN q /\ Bus!RemoveAt(q, i)[j] = q[j]
              \/ ~ j < i /\ j + 1 \in DOMAIN q /\ j + 1 # i /\ Bus!RemoveAt(q, i)[j] = q[j + 1]
<1> DEFINE front == SubSeq(q, 1, i - 1)
           back == SubSeq(q, i + 1, Len(q))
<1>1. /\ front \in Seq(S) /\ Len(front) = i - 1 /\ \A j \in 1..(i - 1) : front[j] = q[j]
      /\ back \in Seq(S) /\ Len(back) = Len(q) - i /\ \A j \in 1..(Len(q) - i) : back[j] = q[j + i]
  <2>1. ASSUME NEW n \in Nat, n <= Len(q), NEW m \in 1..(n + 1)
        PROVE  /\ SubSeq(q, m, n) \in Seq(S) /\ Len(SubSeq(q, m, n)) = n - m + 1
               /\ \A j \in 1..(n - m + 1) : SubSeq(q, m, n)[j] = q[j + m - 1]
    BY <2>1
  <2> QED BY <2>1
<1>2. Bus!RemoveAt(q, i) = front \o back
  BY DEF Bus!RemoveAt
<1> HIDE DEF front, back
<1>3. /\ front \o back \in Seq(S) /\ Len(front \o back) = Len(front) + Len(back)
      /\ \A j \in 1..(Len(front) + Len(back)) :
           (front \o back)[j] = IF j <= Len(front) THEN front[j] ELSE back[j - Len(front)]
  BY <1>1, ConcatProperties
<1>4. Len(q) \in Nat /\ DOMAIN q = 1..Len(q) /\ DOMAIN Bus!RemoveAt(q, i) = 1..(Len(q) - 1)
  BY <1>1, <1>2, <1>3
<1>5. ASSUME NEW j \in 1..(Len(q) - 1)
      PROVE  \/ j < i /\ j \in DOMAIN q /\ Bus!RemoveAt(q, i)[j] = q[j]
             \/ ~ j < i /\ j + 1 \in DOMAIN q /\ j + 1 # i /\ Bus!RemoveAt(q, i)[j] = q[j + 1]
  <2>1. Bus!RemoveAt(q, i)[j] = IF j <= i - 1 THEN front[j] ELSE back[j - (i - 1)]
    <3>1. Len(front) = i - 1 /\ Len(back) = Len(q) - i /\ j \in 1..(Len(front) + Len(back))
      BY <1>1, <1>4
    <3>2. (front \o back)[j] = IF j <= Len(front) THEN front[j] ELSE back[j - Len(front)]
      BY <1>3, <3>1
    <3> QED BY <1>2, <3>1, <3>2
  <2>2. CASE j < i
    BY <1>1, <1>4, <2>1, <2>2
  <2>3. CASE ~ j < i
    <3>1. j - (i - 1) \in 1..(Len(q) - i) /\ j - (i - 1) + i = j + 1 /\ ~ j <= i - 1
      BY <1>4, <2>3
    <3>2. back[j - (i - 1)] = q[j + 1]
      BY <1>1, <3>1
    <3> QED BY <1>4, <2>1, <2>3, <3>1, <3>2
  <2> QED BY <2>2, <2>3
<1> QED BY <1>2, <1>3, <1>4, <1>5

\* What is left when a subscriber has been removed.
LEMMA Leaves ==
  ASSUME BusInv, NEW kind \in {"hooks", "push"}, NEW object \in Nat
  PROVE  /\ Bus!Without(kind, object) \in Seq(Bus!Subscribers)
         /\ KindsDiffer(subscribers) => KindsDiffer(Bus!Without(kind, object))
         /\ \A j \in DOMAIN Bus!Without(kind, object) : \E i \in DOMAIN subscribers :
              Bus!Without(kind, object)[j] = subscribers[i]
         /\ /\ KindsDiffer(subscribers)
            /\ \A i \in DOMAIN subscribers : subscribers[i].kind = kind => subscribers[i].made = object
            => \A j \in DOMAIN Bus!Without(kind, object) : Bus!Without(kind, object)[j].kind # kind
<1>1. subscribers \in Seq(Bus!Subscribers)
  BY DEF BusInv, Bus!TypeOK
<1>2. ASSUME NEW i \in DOMAIN subscribers, subscribers[i].kind = kind, subscribers[i].made = object
      PROVE  i \in Bus!At(kind, object)
  <2>1. subscribers[i] \in Bus!Subscribers
    BY <1>1, ElementTyped
  <2> QED BY <1>2, <2>1 DEF Bus!At, Bus!Subscribers
<1>3. CASE Bus!At(kind, object) = {}
  <2>1. Bus!Without(kind, object) = subscribers
    BY <1>3 DEF Bus!Without
  <2> QED BY <1>1, <1>2, <1>3, <2>1
<1>4. CASE Bus!At(kind, object) # {}
  <2>1. PICK i \in Bus!At(kind, object) : Bus!Without(kind, object) = Bus!RemoveAt(subscribers, i)
    BY <1>4 DEF Bus!Without
  <2>2. i \in 1..Len(subscribers) /\ subscribers[i].kind = kind
    BY <1>1, <2>1 DEF Bus!At
  <2> DEFINE rest == Bus!RemoveAt(subscribers, i)
  <2>3. /\ rest \in Seq(Bus!Subscribers)
        /\ \A j \in DOMAIN rest :
              \/ j < i /\ j \in DOMAIN subscribers /\ rest[j] = subscribers[j]
              \/ ~ j < i /\ j + 1 \in DOMAIN subscribers /\ j + 1 # i /\ rest[j] = subscribers[j + 1]
    BY <1>1, <2>2, RemoveAtIs
  <2> HIDE DEF rest
  <2>4. \A j \in DOMAIN rest : j \in Nat
    BY <2>3
  <2>5. \A j \in DOMAIN rest : \E k \in DOMAIN subscribers :
          k # i /\ rest[j] = subscribers[k] /\ k = IF j < i THEN j ELSE j + 1
    BY <2>2, <2>3, <2>4
  <2>6. ASSUME KindsDiffer(subscribers) PROVE KindsDiffer(rest) /\ \A j \in DOMAIN rest : rest[j].kind # kind
    <3>1. ASSUME NEW j \in DOMAIN rest, NEW l \in DOMAIN rest, rest[j].kind = rest[l].kind PROVE j = l
      <4>1. PICK k \in DOMAIN subscribers : rest[j] = subscribers[k] /\ k = IF j < i THEN j ELSE j + 1
        BY <2>5
      <4>2. PICK m \in DOMAIN subscribers : rest[l] = subscribers[m] /\ m = IF l < i THEN l ELSE l + 1
        BY <2>5
      <4>3. k = m
        BY <2>6, <3>1, <4>1, <4>2 DEF KindsDiffer
      <4> QED BY <2>2, <2>4, <4>1, <4>2, <4>3
    <3>2. \A j \in DOMAIN rest : rest[j].kind # kind
      BY <1>1, <2>2, <2>5, <2>6 DEF KindsDiffer
    <3> QED BY <3>1, <3>2 DEF KindsDiffer
  <2>7. Bus!Without(kind, object) = rest
    BY <2>1 DEF rest
  <2> QED BY <2>3, <2>5, <2>6, <2>7
<1> QED BY <1>3, <1>4

\* Admins change who listens and nothing else.
LEMMA AdminMoves ==
  ASSUME BusInv, subscribers' \in Seq(Bus!Subscribers), {dispatcher', notifier', made'} \subseteq Nat,
         wiring' \in [Wirers -> {"idle", "removePush", "addHooks", "addPush"}],
         busEdits' \in Nat, crossed' \in BOOLEAN, crossed => crossed',
         UNCHANGED <<queue, worker, delivery, emitting, raced, put, dropped, webhooks, browsers, heard>>,
         ~ crossed' =>
           /\ \A a, b \in Wirers : wiring'[a] # "idle" /\ wiring'[b] # "idle" => a = b
           /\ KindsDiffer(subscribers')
           /\ \A i \in DOMAIN subscribers' :
                subscribers'[i].made = IF subscribers'[i].kind = "hooks" THEN dispatcher' ELSE notifier'
           /\ \A a \in Wirers :
                /\ wiring'[a] \in {"removePush", "addHooks"} => None("hooks")'
                /\ wiring'[a] \in {"addHooks", "addPush"} => None("push")'
  PROVE  BusInv'
<1>1. Bus!TypeOK'
  BY DEF BusInv, Bus!TypeOK
<1>2. Counted' /\ EnvelopesNumbered'
  BY DEF BusInv, Counted, Bus!UnderWay, EnvelopesNumbered, HasInHand
<1>3. ~ raced' => OneEmitter'
  BY DEF BusInv, OneEmitter, Bus!UnderWay, HasInHand, IsStarted
<1>4. ASSUME ~ crossed' PROVE Uncrossed'
  <2>1. Uncrossed
    BY <1>4 DEF BusInv
  <2>2. /\ \A w \in Bus!Threads : HasInHand(w)' => CalledOnce(delivery'[w])
        /\ \A w \in Bus!Threads : HasInHand(w)' =>
             \A r \in Bus!Receivers : \A i \in DOMAIN heard'[r] :
               heard'[r][i].ok /\ heard'[r][i].n = delivery'[w].item.n => ~ Ahead(delivery'[w], r)
    BY <2>1 DEF Uncrossed, HasInHand
  <2> QED BY <1>4, <2>2 DEF Uncrossed, KindsDiffer
<1>5. Bus!HeardInOrder'
  BY DEF BusInv, Bus!HeardInOrder
<1> QED BY <1>1, <1>2, <1>3, <1>4, <1>5 DEF BusInv

LEMMA RemoveDispatcherStep == ASSUME BusInv, NEW a \in Wirers, Bus!RemoveDispatcher(a) PROVE BusInv'
<1>1. /\ wiring[a] = "idle" /\ busEdits' = busEdits + 1
      /\ subscribers' = Bus!Without("hooks", dispatcher) /\ wiring' = [wiring EXCEPT ![a] = "removePush"]
      /\ crossed' = (crossed \/ \E other \in Wirers : wiring[other] # "idle")
      /\ UNCHANGED <<dispatcher, notifier, made, queue, worker, delivery, emitting, raced, put, dropped, webhooks, browsers, heard>>
  BY DEF Bus!RemoveDispatcher, Bus!UnchangedByWiring, Bus!emitters, Bus!busRows
<1>2. /\ {dispatcher, notifier, made} \subseteq Nat /\ busEdits \in Nat /\ crossed \in BOOLEAN
      /\ wiring \in [Wirers -> {"idle", "removePush", "addHooks", "addPush"}]
  BY DEF BusInv, Bus!TypeOK
<1>3. /\ subscribers' \in Seq(Bus!Subscribers) /\ {dispatcher', notifier', made'} \subseteq Nat
      /\ wiring' \in [Wirers -> {"idle", "removePush", "addHooks", "addPush"}]
      /\ busEdits' \in Nat /\ crossed' \in BOOLEAN /\ (crossed => crossed')
      /\ wiring'[a] = "removePush" /\ \A b \in Wirers \ {a} : wiring'[b] = wiring[b]
  <2>1. subscribers' \in Seq(Bus!Subscribers)
    BY <1>1, <1>2, Leaves
  <2>2. crossed' \in BOOLEAN /\ (crossed => crossed')
    BY <1>1, <1>2
  <2>3. busEdits' \in Nat /\ {dispatcher', notifier', made'} \subseteq Nat
    BY <1>1, <1>2
  <2>4. /\ wiring' \in [Wirers -> {"idle", "removePush", "addHooks", "addPush"}]
        /\ wiring'[a] = "removePush" /\ \A b \in Wirers \ {a} : wiring'[b] = wiring[b]
    BY <1>1, <1>2
  <2> QED BY <2>1, <2>2, <2>3, <2>4
<1>4. ASSUME ~ crossed'
      PROVE  /\ \A b, c \in Wirers : wiring'[b] # "idle" /\ wiring'[c] # "idle" => b = c
             /\ KindsDiffer(subscribers')
             /\ \A i \in DOMAIN subscribers' :
                  subscribers'[i].made = IF subscribers'[i].kind = "hooks" THEN dispatcher' ELSE notifier'
             /\ \A b \in Wirers :
                  /\ wiring'[b] \in {"removePush", "addHooks"} => None("hooks")'
                  /\ wiring'[b] \in {"addHooks", "addPush"} => None("push")'
  <2>1. Uncrossed /\ \A b \in Wirers : wiring[b] = "idle"
    BY <1>1, <1>4 DEF BusInv
  <2>2. /\ KindsDiffer(subscribers)
        /\ \A i \in DOMAIN subscribers : subscribers[i].kind = "hooks" => subscribers[i].made = dispatcher
    BY <2>1 DEF Uncrossed
  <2>3. /\ KindsDiffer(subscribers') /\ \A j \in DOMAIN subscribers' : subscribers'[j].kind # "hooks"
        /\ \A j \in DOMAIN subscribers' : \E i \in DOMAIN subscribers : subscribers'[j] = subscribers[i]
    BY <1>1, <1>2, <2>2, Leaves
  <2>4. \A b \in Wirers : b # a => wiring'[b] = "idle"
    BY <1>3, <2>1
  <2>5. \A i \in DOMAIN subscribers' :
          subscribers'[i].made = IF subscribers'[i].kind = "hooks" THEN dispatcher' ELSE notifier'
    BY <1>1, <2>1, <2>3 DEF Uncrossed
  <2>6. None("hooks")'
    BY <2>3 DEF None
  <2> QED BY <1>3, <2>3, <2>4, <2>5, <2>6
<1> QED BY <1>1, <1>3, <1>4, AdminMoves

LEMMA RemoveNotifierStep == ASSUME BusInv, NEW a \in Wirers, Bus!RemoveNotifier(a) PROVE BusInv'
<1>1. /\ wiring[a] = "removePush"
      /\ subscribers' = Bus!Without("push", notifier) /\ wiring' = [wiring EXCEPT ![a] = "addHooks"]
      /\ UNCHANGED <<crossed, dispatcher, notifier, made, busEdits, queue, worker, delivery, emitting, raced, put, dropped,
                     webhooks, browsers, heard>>
  BY DEF Bus!RemoveNotifier, Bus!UnchangedByWiring, Bus!emitters, Bus!busRows
<1>2. /\ {dispatcher, notifier, made} \subseteq Nat /\ busEdits \in Nat /\ crossed \in BOOLEAN
      /\ wiring \in [Wirers -> {"idle", "removePush", "addHooks", "addPush"}]
  BY DEF BusInv, Bus!TypeOK
<1>3. /\ subscribers' \in Seq(Bus!Subscribers) /\ {dispatcher', notifier', made'} \subseteq Nat
      /\ wiring' \in [Wirers -> {"idle", "removePush", "addHooks", "addPush"}]
      /\ busEdits' \in Nat /\ crossed' \in BOOLEAN /\ (crossed => crossed')
      /\ wiring'[a] = "addHooks" /\ \A b \in Wirers \ {a} : wiring'[b] = wiring[b]
  BY <1>1, <1>2, Leaves
<1>4. ASSUME ~ crossed'
      PROVE  /\ \A b, c \in Wirers : wiring'[b] # "idle" /\ wiring'[c] # "idle" => b = c
             /\ KindsDiffer(subscribers')
             /\ \A i \in DOMAIN subscribers' :
                  subscribers'[i].made = IF subscribers'[i].kind = "hooks" THEN dispatcher' ELSE notifier'
             /\ \A b \in Wirers :
                  /\ wiring'[b] \in {"removePush", "addHooks"} => None("hooks")'
                  /\ wiring'[b] \in {"addHooks", "addPush"} => None("push")'
  <2>1. Uncrossed /\ (\A b \in Wirers : b # a => wiring[b] = "idle") /\ None("hooks")
    BY <1>1, <1>4 DEF BusInv, Uncrossed
  <2>2. /\ KindsDiffer(subscribers)
        /\ \A i \in DOMAIN subscribers : subscribers[i].kind = "push" => subscribers[i].made = notifier
    BY <2>1 DEF Uncrossed
  <2>3. /\ KindsDiffer(subscribers') /\ \A j \in DOMAIN subscribers' : subscribers'[j].kind # "push"
        /\ \A j \in DOMAIN subscribers' : \E i \in DOMAIN subscribers : subscribers'[j] = subscribers[i]
    BY <1>1, <1>2, <2>2, Leaves
  <2>4. \A b \in Wirers : b # a => wiring'[b] = "idle"
    BY <1>3, <2>1
  <2>5. \A i \in DOMAIN subscribers' :
          subscribers'[i].made = IF subscribers'[i].kind = "hooks" THEN dispatcher' ELSE notifier'
    BY <1>1, <2>1, <2>3 DEF Uncrossed
  <2>6. None("hooks")' /\ None("push")'
    BY <2>1, <2>3 DEF None
  <2> QED BY <1>3, <2>3, <2>4, <2>5, <2>6
<1> QED BY <1>1, <1>3, <1>4, AdminMoves

\* A subscriber that is added is the last.
LEMMA Joins ==
  ASSUME BusInv, NEW kind \in {"hooks", "push"}, NEW object \in Nat,
         subscribers' = Append(subscribers, [kind |-> kind, made |-> object])
  PROVE  /\ subscribers' \in Seq(Bus!Subscribers)
         /\ \A i \in DOMAIN subscribers' :
              \/ i \in DOMAIN subscribers /\ subscribers'[i] = subscribers[i]
              \/ i \notin DOMAIN subscribers /\ subscribers'[i].kind = kind /\ subscribers'[i].made = object
         /\ KindsDiffer(subscribers) /\ None(kind) => KindsDiffer(subscribers')
         /\ \A other : other # kind /\ None(other) => None(other)'
<1>1. PICK s \in Bus!Subscribers : s = [kind |-> kind, made |-> object] /\ s.kind = kind /\ s.made = object
  <2>1. /\ [kind |-> kind, made |-> object] \in Bus!Subscribers
        /\ [kind |-> kind, made |-> object].kind = kind /\ [kind |-> kind, made |-> object].made = object
    BY DEF Bus!Subscribers
  <2> QED BY <2>1
<1>2. subscribers \in Seq(Bus!Subscribers) /\ subscribers' = Append(subscribers, s)
  BY <1>1 DEF BusInv, Bus!TypeOK
<1>3. /\ subscribers' \in Seq(Bus!Subscribers)
      /\ \A i \in DOMAIN subscribers' :
           \/ i \in DOMAIN subscribers /\ subscribers'[i] = subscribers[i]
           \/ i \notin DOMAIN subscribers /\ i = Len(subscribers) + 1 /\ subscribers'[i] = s
  BY <1>2
<1>4. ASSUME KindsDiffer(subscribers), None(kind) PROVE KindsDiffer(subscribers')
  BY <1>1, <1>3, <1>4 DEF KindsDiffer, None
<1>5. \A other : other # kind /\ None(other) => None(other)'
  BY <1>1, <1>3 DEF None
<1> QED BY <1>1, <1>3, <1>4, <1>5

LEMMA KindsAre == ASSUME BusInv, NEW i \in DOMAIN subscribers PROVE subscribers[i].kind \in {"hooks", "push"}
<1>1. subscribers \in Seq(Bus!Subscribers)
  BY DEF BusInv, Bus!TypeOK
<1>2. subscribers[i] \in Bus!Subscribers
  BY <1>1, ElementTyped
<1> QED BY <1>2 DEF Bus!Subscribers

LEMMA AddDispatcherStep == ASSUME BusInv, NEW a \in Wirers, Bus!AddDispatcher(a) PROVE BusInv'
<1>1. /\ wiring[a] = "addHooks" /\ made' = made + 1 /\ dispatcher' = made'
      /\ subscribers' = Append(subscribers, [kind |-> "hooks", made |-> made'])
      /\ wiring' = [wiring EXCEPT ![a] = "addPush"]
      /\ UNCHANGED <<crossed, notifier, busEdits, queue, worker, delivery, emitting, raced, put, dropped,
                     webhooks, browsers, heard>>
  BY DEF Bus!AddDispatcher, Bus!UnchangedByWiring, Bus!emitters, Bus!busRows
<1>2. /\ {dispatcher, notifier, made} \subseteq Nat /\ busEdits \in Nat /\ crossed \in BOOLEAN
      /\ wiring \in [Wirers -> {"idle", "removePush", "addHooks", "addPush"}]
      /\ made' \in Nat
  BY <1>1 DEF BusInv, Bus!TypeOK
<1>3. /\ subscribers' \in Seq(Bus!Subscribers) /\ {dispatcher', notifier', made'} \subseteq Nat
      /\ wiring' \in [Wirers -> {"idle", "removePush", "addHooks", "addPush"}]
      /\ busEdits' \in Nat /\ crossed' \in BOOLEAN /\ (crossed => crossed')
      /\ wiring'[a] = "addPush" /\ \A b \in Wirers \ {a} : wiring'[b] = wiring[b]
  BY <1>1, <1>2, Joins
<1>4. ASSUME ~ crossed'
      PROVE  /\ \A b, c \in Wirers : wiring'[b] # "idle" /\ wiring'[c] # "idle" => b = c
             /\ KindsDiffer(subscribers')
             /\ \A i \in DOMAIN subscribers' :
                  subscribers'[i].made = IF subscribers'[i].kind = "hooks" THEN dispatcher' ELSE notifier'
             /\ \A b \in Wirers :
                  /\ wiring'[b] \in {"removePush", "addHooks"} => None("hooks")'
                  /\ wiring'[b] \in {"addHooks", "addPush"} => None("push")'
  <2>1. /\ Uncrossed /\ (\A b \in Wirers : b # a => wiring[b] = "idle") /\ None("hooks") /\ None("push")
        /\ KindsDiffer(subscribers)
    BY <1>1, <1>4 DEF BusInv, Uncrossed
  <2>2. /\ KindsDiffer(subscribers') /\ None("push")'
        /\ \A i \in DOMAIN subscribers' :
             \/ i \in DOMAIN subscribers /\ subscribers'[i] = subscribers[i]
             \/ i \notin DOMAIN subscribers /\ subscribers'[i].kind = "hooks" /\ subscribers'[i].made = made'
    BY <1>1, <1>2, <2>1, Joins
  <2>3. \A i \in DOMAIN subscribers' :
          subscribers'[i].made = IF subscribers'[i].kind = "hooks" THEN dispatcher' ELSE notifier'
    <3>1. \A i \in DOMAIN subscribers : subscribers[i].kind # "hooks" /\ subscribers[i].kind # "push"
      BY <2>1 DEF None
    <3> QED BY <1>1, <2>2, <3>1, KindsAre
  <2>4. \A b \in Wirers : b # a => wiring'[b] = "idle"
    BY <1>3, <2>1
  <2> QED BY <1>3, <2>2, <2>3, <2>4
<1> QED BY <1>1, <1>3, <1>4, AdminMoves

LEMMA AddNotifierStep == ASSUME BusInv, NEW a \in Wirers, Bus!AddNotifier(a) PROVE BusInv'
<1>1. /\ wiring[a] = "addPush" /\ made' = made + 1 /\ notifier' = made'
      /\ subscribers' = Append(subscribers, [kind |-> "push", made |-> made'])
      /\ wiring' = [wiring EXCEPT ![a] = "idle"]
      /\ UNCHANGED <<crossed, dispatcher, busEdits, queue, worker, delivery, emitting, raced, put, dropped,
                     webhooks, browsers, heard>>
  BY DEF Bus!AddNotifier, Bus!UnchangedByWiring, Bus!emitters, Bus!busRows
<1>2. /\ {dispatcher, notifier, made} \subseteq Nat /\ busEdits \in Nat /\ crossed \in BOOLEAN
      /\ wiring \in [Wirers -> {"idle", "removePush", "addHooks", "addPush"}]
      /\ made' \in Nat
  BY <1>1 DEF BusInv, Bus!TypeOK
<1>3. /\ subscribers' \in Seq(Bus!Subscribers) /\ {dispatcher', notifier', made'} \subseteq Nat
      /\ wiring' \in [Wirers -> {"idle", "removePush", "addHooks", "addPush"}]
      /\ busEdits' \in Nat /\ crossed' \in BOOLEAN /\ (crossed => crossed')
      /\ wiring'[a] = "idle" /\ \A b \in Wirers \ {a} : wiring'[b] = wiring[b]
  BY <1>1, <1>2, Joins
<1>4. ASSUME ~ crossed'
      PROVE  /\ \A b, c \in Wirers : wiring'[b] # "idle" /\ wiring'[c] # "idle" => b = c
             /\ KindsDiffer(subscribers')
             /\ \A i \in DOMAIN subscribers' :
                  subscribers'[i].made = IF subscribers'[i].kind = "hooks" THEN dispatcher' ELSE notifier'
             /\ \A b \in Wirers :
                  /\ wiring'[b] \in {"removePush", "addHooks"} => None("hooks")'
                  /\ wiring'[b] \in {"addHooks", "addPush"} => None("push")'
  <2>1. /\ Uncrossed /\ (\A b \in Wirers : b # a => wiring[b] = "idle") /\ None("push")
        /\ KindsDiffer(subscribers)
    BY <1>1, <1>4 DEF BusInv, Uncrossed
  <2>2. /\ KindsDiffer(subscribers')
        /\ \A i \in DOMAIN subscribers' :
             \/ i \in DOMAIN subscribers /\ subscribers'[i] = subscribers[i]
             \/ i \notin DOMAIN subscribers /\ subscribers'[i].kind = "push" /\ subscribers'[i].made = made'
    BY <1>1, <1>2, <2>1, Joins
  <2>3. \A i \in DOMAIN subscribers' :
          subscribers'[i].made = IF subscribers'[i].kind = "hooks" THEN dispatcher' ELSE notifier'
    <3>1. \A i \in DOMAIN subscribers :
            subscribers[i].kind # "push" /\ (subscribers[i].kind = "hooks" => subscribers[i].made = dispatcher)
      BY <2>1 DEF None, Uncrossed
    <3> QED BY <1>1, <2>2, <3>1, KindsAre
  <2>4. \A b \in Wirers : wiring'[b] = "idle"
    BY <1>3, <2>1
  <2> QED BY <2>2, <2>3, <2>4
<1> QED BY <1>1, <1>3, <1>4, AdminMoves

\* What is said of the bus rests on these variables only.
LEMMA BusRests ==
  ASSUME BusInv, Bus!TypeOK',
         UNCHANGED <<queue, worker, delivery, emitting, raced, put, dropped, subscribers, wiring, crossed,
                     dispatcher, notifier, made, heard>>
  PROVE  BusInv'
<1>1. Counted' /\ EnvelopesNumbered' /\ Bus!HeardInOrder'
  BY DEF BusInv, Counted, Bus!UnderWay, EnvelopesNumbered, HasInHand, Bus!HeardInOrder
<1>2. ~ raced' => OneEmitter'
  BY DEF BusInv, OneEmitter, Bus!UnderWay, HasInHand, IsStarted
<1>3. ~ crossed' => Uncrossed'
  BY DEF BusInv, Uncrossed, HasInHand, KindsDiffer, None
<1> QED BY <1>1, <1>2, <1>3 DEF BusInv

\* Editing a row changes neither the bus nor who listens.
LEMMA EditStep ==
  ASSUME BusInv, (\E h \in Hooks : Bus!EditHook(h)) \/ (\E b \in Browsers : Bus!EditBrowser(b)) PROVE BusInv'
<1>1. /\ webhooks' \in [Hooks -> SUBSET Bus!Events] /\ browsers' \in [Browsers -> Bus!Prefs \cup {Bus!Gone}]
      /\ busEdits' = busEdits + 1
      /\ UNCHANGED <<queue, worker, delivery, emitting, raced, put, dropped, subscribers, wiring, crossed,
                     dispatcher, notifier, made, heard>>
  BY DEF Bus!EditHook, Bus!EditBrowser, Bus!Edit, Bus!emitters, Bus!busWires, BusInv, Bus!TypeOK
<1>2. busEdits' \in Nat
  BY <1>1 DEF BusInv, Bus!TypeOK
<1>3. UNCHANGED <<queue, put, dropped, raced, crossed, worker, delivery, emitting, wiring, subscribers, dispatcher, notifier,
                  made, heard>>
  BY <1>1
<1>4. Bus!TypeOK'
  BY <1>1, <1>2, <1>3 DEF BusInv, Bus!TypeOK
<1> QED BY <1>1, <1>4, BusRests

LEMMA BusStay == ASSUME BusInv, UNCHANGED Bus!vars PROVE BusInv'
<1>1. UNCHANGED <<queue, worker, delivery, emitting, raced, put, dropped, subscribers, wiring, crossed, dispatcher, notifier,
                  made, webhooks, browsers, heard, busEdits>>
  BY DEF Bus!vars, Bus!emitters, Bus!busWires, Bus!busRows
<1>2. Bus!TypeOK'
  BY <1>1 DEF BusInv, Bus!TypeOK
<1> QED BY <1>1, <1>2, BusRests

LEMMA BusInit == ASSUME Bus!Init PROVE BusInv
<1>1. /\ queue = <<>> /\ put = 0 /\ dropped = 0 /\ worker = 0 /\ delivery = [w \in Bus!Threads |-> Bus!Unborn]
      /\ emitting = [e \in Emitters |-> "no"] /\ raced = FALSE
      /\ dispatcher = 1 /\ notifier = 2 /\ made = 2
      /\ subscribers = <<[kind |-> "hooks", made |-> 1], [kind |-> "push", made |-> 2]>>
      /\ wiring = [a \in Wirers |-> "idle"] /\ crossed = FALSE
      /\ webhooks = [h \in Hooks |-> Bus!Events] /\ browsers \in [Browsers -> Bus!Prefs]
      /\ heard = [r \in Bus!Receivers |-> <<>>] /\ busEdits = 0
  BY DEF Bus!Init
<1>2. {QueueSize, MaxEnvelopes, MaxWorkers} \subseteq Nat
  BY BusIs DEF Bus!BusAssumption
<1>3. \A w \in Bus!Threads : delivery[w] = Bus!Unborn /\ ~ HasInHand(w) /\ ~ IsStarted(w)
  BY <1>1, IdleAre DEF HasInHand, IsStarted
<1>4. Bus!UnderWay = {}
  BY <1>1 DEF Bus!UnderWay
<1>5. /\ subscribers \in Seq(Bus!Subscribers) /\ DOMAIN subscribers = {1, 2}
      /\ subscribers[1].kind = "hooks" /\ subscribers[1].made = 1
      /\ subscribers[2].kind = "push" /\ subscribers[2].made = 2
  <2>1. [kind |-> "hooks", made |-> 1] \in Bus!Subscribers /\ [kind |-> "push", made |-> 2] \in Bus!Subscribers
    BY DEF Bus!Subscribers
  <2> QED BY <1>1, <2>1
<1>6. Bus!TypeOK
  <2>1. queue \in Seq(Bus!Queued) /\ Len(queue) <= QueueSize /\ worker \in 0..MaxWorkers
    BY <1>1, <1>2
  <2>2. delivery \in [Bus!Threads -> Bus!Idle \cup Bus!Handing]
    BY <1>1, IdleAre
  <2>3. heard \in [Bus!Receivers -> Seq([n : 1..MaxEnvelopes, ok : BOOLEAN])]
    BY <1>1
  <2>4. put \in Nat /\ dropped \in Nat /\ busEdits \in Nat /\ {dispatcher, notifier, made} \subseteq Nat
    BY <1>1
  <2>5. /\ emitting \in [Emitters -> {"no", "make", "start"}]
        /\ wiring \in [Wirers -> {"idle", "removePush", "addHooks", "addPush"}]
        /\ webhooks \in [Hooks -> SUBSET Bus!Events] /\ browsers \in [Browsers -> Bus!Prefs \cup {Bus!Gone}]
    BY <1>1
  <2>6. raced \in BOOLEAN /\ crossed \in BOOLEAN
    BY <1>1
  <2> QED BY <1>5, <2>1, <2>2, <2>3, <2>4, <2>5, <2>6 DEF Bus!TypeOK
<1>7. Counted
  BY <1>1, <1>2, <1>4, FS_EmptySet DEF Counted
<1>8. EnvelopesNumbered /\ Bus!HeardInOrder
  BY <1>1, <1>3 DEF EnvelopesNumbered, Bus!HeardInOrder
<1>9. OneEmitter
  BY <1>3, <1>4 DEF OneEmitter
<1>10. Uncrossed
  BY <1>1, <1>3, <1>5 DEF Uncrossed, KindsDiffer
<1> QED BY <1>6, <1>7, <1>8, <1>9, <1>10 DEF BusInv

LEMMA BusHolds == ASSUME BusInv, [Bus!Next]_(Bus!vars) PROVE BusInv'
<1>1. ASSUME NEW e \in Emitters, Bus!Emitter(e) PROVE BusInv'
  BY <1>1, EmitStep, MakeWorkerStep, StartWorkerStep DEF Bus!Emitter
<1>2. ASSUME NEW w \in Bus!Threads, Bus!Worker(w) PROVE BusInv'
  BY <1>2, TakeStep, RaisesStep, LoadHooksStep, PostStep, LoadBrowsersStep, PageStep DEF Bus!Worker
<1>3. ASSUME NEW a \in Wirers, Bus!Admin(a) PROVE BusInv'
  BY <1>3, RemoveDispatcherStep, RemoveNotifierStep, AddDispatcherStep, AddNotifierStep DEF Bus!Admin
<1>4. CASE Bus!Rest
  BY <1>4, BusStay DEF Bus!Rest
<1> QED BY <1>1, <1>2, <1>3, <1>4, EditStep, BusStay DEF Bus!Next

LEMMA BusInvariant == Bus!Init /\ [][Bus!Next]_(Bus!vars) => []BusInv
<1>1. Bus!Init => BusInv
  BY BusInit
<1>2. BusInv /\ [Bus!Next]_(Bus!vars) => BusInv'
  BY BusHolds
<1> QED BY <1>1, <1>2, PTL

\* The queue never holds more than its maxsize, and the bus, its workers, the subscribers
\* they call and the rows they read keep their types.
THEOREM BusTyped == Bus!Spec => []Bus!TypeOK
<1>1. BusInv => Bus!TypeOK
  BY DEF BusInv
<1> QED BY <1>1, BusInvariant, PTL DEF Bus!Spec

-------------------------------------------------------------------------------
(***************************************************************************)
(* Traffic, for any switches, flows and windows.  A row of the cache is    *)
(* the only one for its index on its switch: that rests on the table, from *)
(* which the save of a port removes the row it replaces, and on the copy a *)
(* request takes of the table and fills the cache with later, when the     *)
(* table may be another.                                                   *)
(***************************************************************************)
\* Of an index of a switch there is one row.
OneEach(rowsOfMaps) ==
  \A s, t \in rowsOfMaps : s[1] = t[1] /\ s[2] = t[2] => s[3] = t[3]

OneName(rowsOfMap) == \A s, t \in rowsOfMap : s[1] = t[1] => s = t

Refresher ==
  [at : {"asleep", "next", "delete", "insert"}, left : SUBSET Inventory, device : Inventory \cup {"none"},
   rows : SUBSET UNION Answers]

FlowsTyped ==
  /\ IsFiniteSet(flows)
  /\ \A f \in flows : f.flow \in Flows /\ f.stamp \in 0..clock /\ f.id \in 1..MaxRows

MapsTyped ==
  /\ answer \in [Inventory -> Answers]
  /\ \A row \in table : row[1] \in Inventory
  /\ OneEach(table)
  /\ \A d \in Inventory : OneName(cache[d])
  /\ refresher \in Refresher
  /\ refresher.at \in {"delete", "insert"} => refresher.device \in Inventory

PagesTyped ==
  /\ page = [r \in Requests |-> page[r]]
  /\ \A r \in Requests : "loaded" \in DOMAIN page[r] /\ OneEach(page[r].loaded)

TrafficInv ==
  /\ clock \in Minutes..MaxClock /\ unread \in 0..MaxUnread
  /\ FlowsTyped /\ MapsTyped /\ PagesTyped

-----------------------------------------------------------------------------
LEMMA TrafficIs ==
  /\ Minutes \in Nat /\ 1 <= Minutes /\ MaxClock \in Nat /\ Minutes <= MaxClock
  /\ MaxRows \in Nat /\ MaxUnread \in Nat
BY ServicesAssumption DEF Panels!TrafficAssumption

LEMMA TrafficTypesImplied == ASSUME TrafficInv PROVE Panels!TypeOK
<1>1. /\ refresher.at \in {"asleep", "next", "delete", "insert"} /\ refresher.left \subseteq Inventory
  BY DEF TrafficInv, MapsTyped, Refresher
<1>2. \A d \in Inventory : \A row, other \in cache[d] : row[1] = other[1] => row = other
  BY DEF TrafficInv, MapsTyped, OneName
<1> QED BY <1>1, <1>2 DEF TrafficInv, FlowsTyped, MapsTyped, Panels!TypeOK

LEMMA AsleepIs ==
  /\ Panels!Asleep \in Refresher /\ Panels!Asleep.at = "asleep"
  /\ [Panels!Asleep EXCEPT !.at = "next", !.left = Inventory] \in Refresher
  /\ [Panels!Asleep EXCEPT !.at = "next", !.left = Inventory].at = "next"
BY DEF Panels!Asleep, Refresher

LEMMA TrafficInit == ASSUME Panels!Init PROVE TrafficInv
<1>1. /\ clock = Minutes /\ flows = {} /\ unread = 0 /\ answer \in [Inventory -> Answers]
      /\ table = {} /\ cache = [d \in Inventory |-> {}] /\ refresher = Panels!Asleep
      /\ page = [r \in Requests |-> Panels!Unasked]
  BY DEF Panels!Init
<1>2. clock \in Minutes..MaxClock /\ unread \in 0..MaxUnread
  BY <1>1, TrafficIs
<1>3. FlowsTyped
  BY <1>1, FS_EmptySet DEF FlowsTyped
<1>4. MapsTyped
  BY <1>1, AsleepIs DEF MapsTyped, OneEach, OneName
<1>5. "loaded" \in DOMAIN Panels!Unasked /\ Panels!Unasked.loaded = {}
  BY DEF Panels!Unasked
<1>6. PagesTyped
  BY <1>1, <1>5 DEF PagesTyped, OneEach
<1> QED BY <1>2, <1>3, <1>4, <1>6 DEF TrafficInv

\* Time passes, a flow lands, a switch answers otherwise.
LEMMA WorldStep ==
  ASSUME TrafficInv, Panels!Tick \/ Panels!Land \/ Panels!Recabled PROVE TrafficInv'
<1>1. CASE Panels!Tick
  <2>1. clock < MaxClock /\ clock' = clock + 1 /\ UNCHANGED <<flows, answer, table, cache, refresher, page, unread>>
    BY <1>1 DEF Panels!Tick
  <2>2. clock' \in Minutes..MaxClock /\ \A n \in 0..clock : n \in 0..clock'
    BY <2>1, TrafficIs DEF TrafficInv
  <2>3. FlowsTyped'
    BY <2>1, <2>2 DEF TrafficInv, FlowsTyped
  <2> QED BY <2>1, <2>2, <2>3 DEF TrafficInv, MapsTyped, PagesTyped
<1>2. CASE Panels!Land
  <2>1. PICK f \in Flows, stamp \in {clock - 1, clock} :
          /\ Cardinality(flows) < MaxRows
          /\ flows' = flows \cup {[flow |-> f, stamp |-> stamp, id |-> Cardinality(flows) + 1]}
          /\ UNCHANGED <<clock, answer, table, cache, refresher, page, unread>>
    BY <1>2 DEF Panels!Land, Panels!Cardinality, Cardinality
  <2>2. Cardinality(flows) \in Nat
    BY FS_CardinalityType DEF TrafficInv, FlowsTyped
  <2>3. stamp \in 0..clock /\ Cardinality(flows) + 1 \in 1..MaxRows
    BY <2>1, <2>2, TrafficIs DEF TrafficInv
  <2>4. PICK new : new = [flow |-> f, stamp |-> stamp, id |-> Cardinality(flows) + 1]
    OBVIOUS
  <2>5. new.flow = f /\ new.stamp = stamp /\ new.id = Cardinality(flows) + 1
    BY <2>4
  <2>6. IsFiniteSet(flows') /\ flows' = flows \cup {new}
    <3>1. flows' = flows \cup {new}
      BY <2>1, <2>4
    <3> QED BY <3>1, FS_AddElement DEF TrafficInv, FlowsTyped
  <2>7. FlowsTyped'
    BY <2>1, <2>3, <2>5, <2>6 DEF TrafficInv, FlowsTyped
  <2> QED BY <2>1, <2>7 DEF TrafficInv, MapsTyped, PagesTyped
<1>3. CASE Panels!Recabled
  <2>1. PICK d \in Inventory, a \in Answers :
          /\ unread < MaxUnread /\ unread' = unread + 1 /\ answer' = [answer EXCEPT ![d] = a]
          /\ UNCHANGED <<clock, flows, table, cache, refresher, page>>
    BY <1>3 DEF Panels!Recabled
  <2>2. unread' \in 0..MaxUnread
    BY <2>1, TrafficIs DEF TrafficInv
  <2>3. MapsTyped'
    BY <2>1 DEF TrafficInv, MapsTyped
  <2> QED BY <2>1, <2>2, <2>3 DEF TrafficInv, FlowsTyped, PagesTyped
<1> QED BY <1>1, <1>2, <1>3

\* What is left when the reader of the maps goes on.
LEMMA Refreshes ==
  ASSUME TrafficInv, NEW new \in Refresher, Panels!Refreshing(new),
         new.at \in {"delete", "insert"} => new.device \in Inventory,
         \A row \in table' : row[1] \in Inventory, OneEach(table'), unread' \in 0..MaxUnread
  PROVE  TrafficInv'
<1>1. refresher' = new /\ UNCHANGED <<clock, flows, answer, cache, page>>
  BY DEF Panels!Refreshing
<1>2. MapsTyped'
  BY <1>1 DEF TrafficInv, MapsTyped
<1> QED BY <1>1, <1>2 DEF TrafficInv, FlowsTyped, PagesTyped

LEMMA RefreshHolds == ASSUME TrafficInv, Panels!RefreshStep PROVE TrafficInv'
<1>1. /\ refresher \in Refresher /\ (\A row \in table : row[1] \in Inventory) /\ OneEach(table)
      /\ unread \in 0..MaxUnread /\ MaxUnread \in Nat /\ answer \in [Inventory -> Answers]
  BY TrafficIs DEF TrafficInv, MapsTyped
<1>2. CASE Panels!Wake
  <2>1. /\ Panels!Refreshing([Panels!Asleep EXCEPT !.at = "next", !.left = Inventory]) /\ UNCHANGED <<table, unread>>
    BY <1>2 DEF Panels!Wake
  <2> QED BY <1>1, <2>1, AsleepIs, Refreshes
<1>3. CASE Panels!Discover
  <2>1. PICK d \in refresher.left, read \in BOOLEAN :
          /\ read \/ unread < MaxUnread
          /\ unread' = IF read THEN unread ELSE unread + 1
          /\ Panels!Refreshing([refresher EXCEPT !.left = @ \ {d}, !.at = IF read THEN "delete" ELSE "next",
                                  !.device = IF read THEN d ELSE "none",
                                  !.rows = IF read THEN answer[d] ELSE {}])
          /\ UNCHANGED table
    BY <1>3 DEF Panels!Discover
  <2>2. d \in Inventory /\ refresher.left \ {d} \in SUBSET Inventory
    BY <1>1 DEF Refresher
  <2>3. PICK at \in {"delete", "next"}, device \in Inventory \cup {"none"}, found \in SUBSET UNION Answers :
          /\ at = (IF read THEN "delete" ELSE "next") /\ device = (IF read THEN d ELSE "none")
          /\ found = (IF read THEN answer[d] ELSE {})
    <3>1. answer[d] \in SUBSET UNION Answers
      BY <1>1, <2>2
    <3> QED BY <2>2, <3>1
  <2>4. PICK new \in Refresher :
          /\ new = [refresher EXCEPT !.left = refresher.left \ {d}, !.at = at, !.device = device, !.rows = found]
          /\ new.at = at /\ new.device = device
    <3>1. /\ [refresher EXCEPT !.left = refresher.left \ {d}, !.at = at, !.device = device, !.rows = found] \in Refresher
          /\ [refresher EXCEPT !.left = refresher.left \ {d}, !.at = at, !.device = device, !.rows = found].at = at
          /\ [refresher EXCEPT !.left = refresher.left \ {d}, !.at = at, !.device = device, !.rows = found].device = device
      BY <1>1, <2>2 DEF Refresher
    <3> QED BY <3>1
  <2>5. Panels!Refreshing(new)
    BY <2>1, <2>3, <2>4
  <2>6. new.at \in {"delete", "insert"} => new.device \in Inventory
    BY <2>2, <2>3, <2>4
  <2>7. unread' \in 0..MaxUnread
    BY <1>1, <2>1
  <2> QED BY <1>1, <2>1, <2>5, <2>6, <2>7, Refreshes
<1>4. CASE Panels!DeleteMap
  <2>1. /\ refresher.at = "delete" /\ table' = table \ Panels!OfDevice(refresher.device) /\ UNCHANGED unread
        /\ Panels!Refreshing([refresher EXCEPT !.at = "insert"])
    BY <1>4 DEF Panels!DeleteMap
  <2>2. /\ [refresher EXCEPT !.at = "insert"] \in Refresher
        /\ [refresher EXCEPT !.at = "insert"].device = refresher.device
    BY <1>1 DEF Refresher
  <2>3. refresher.device \in Inventory
    BY <2>1 DEF TrafficInv, MapsTyped
  <2>4. (\A row \in table' : row[1] \in Inventory) /\ OneEach(table')
    BY <1>1, <2>1 DEF OneEach
  <2> QED BY <1>1, <2>1, <2>2, <2>3, <2>4, Refreshes
<1>5. CASE Panels!InsertRow
  <2>1. PICK row \in refresher.rows :
          /\ refresher.at = "insert" /\ UNCHANGED unread
          /\ table' = {t \in table : t[1] # refresher.device \/ t[2] # row[1]}
                        \cup {<<refresher.device, row[1], row[2]>>}
          /\ Panels!Refreshing([refresher EXCEPT !.rows = refresher.rows \ {row}])
    BY <1>5 DEF Panels!InsertRow
  <2>2. /\ [refresher EXCEPT !.rows = refresher.rows \ {row}] \in Refresher
        /\ [refresher EXCEPT !.rows = refresher.rows \ {row}].device = refresher.device
    BY <1>1 DEF Refresher
  <2>3. refresher.device \in Inventory
    BY <2>1 DEF TrafficInv, MapsTyped
  <2>4. (\A t \in table' : t[1] \in Inventory) /\ OneEach(table')
    BY <1>1, <2>1, <2>3 DEF OneEach
  <2> QED BY <1>1, <2>1, <2>2, <2>3, <2>4, Refreshes
<1>6. CASE Panels!SaveFails
  <2>1. /\ unread < MaxUnread /\ unread' = unread + 1 /\ UNCHANGED table
        /\ Panels!Refreshing([refresher EXCEPT !.at = "next", !.device = "none", !.rows = {}])
    BY <1>6 DEF Panels!SaveFails
  <2>2. /\ [refresher EXCEPT !.at = "next", !.device = "none", !.rows = {}] \in Refresher
        /\ [refresher EXCEPT !.at = "next", !.device = "none", !.rows = {}].at = "next"
    BY <1>1 DEF Refresher
  <2>3. unread' \in 0..MaxUnread
    BY <1>1, <2>1
  <2> QED BY <1>1, <2>1, <2>2, <2>3, Refreshes
<1>7. CASE Panels!NextDevice
  <2>1. /\ Panels!Refreshing([refresher EXCEPT !.at = "next", !.device = "none"]) /\ UNCHANGED <<table, unread>>
    BY <1>7 DEF Panels!NextDevice
  <2>2. /\ [refresher EXCEPT !.at = "next", !.device = "none"] \in Refresher
        /\ [refresher EXCEPT !.at = "next", !.device = "none"].at = "next"
    BY <1>1 DEF Refresher
  <2> QED BY <1>1, <2>1, <2>2, Refreshes
<1>8. CASE Panels!Sleep
  <2>1. Panels!Refreshing(Panels!Asleep) /\ UNCHANGED <<table, unread>>
    BY <1>8 DEF Panels!Sleep
  <2> QED BY <1>1, <2>1, AsleepIs, Refreshes
<1> QED BY <1>2, <1>3, <1>4, <1>5, <1>6, <1>7, <1>8 DEF Panels!RefreshStep

\* A request goes on; what it has loaded of the table, and the cache, stay as they should.
LEMMA PageMoves ==
  ASSUME TrafficInv, NEW r \in Requests, NEW at, NEW new, Panels!Paging(r, at, new),
         "loaded" \in DOMAIN new, OneEach(new.loaded), \A d \in Inventory : OneName(cache'[d])
  PROVE  TrafficInv'
<1>1. page' = [page EXCEPT ![r] = new] /\ UNCHANGED <<clock, flows, answer, table, refresher, unread>>
  BY DEF Panels!Paging
<1>2. PagesTyped'
  BY <1>1 DEF TrafficInv, PagesTyped
<1> QED BY <1>1, <1>2 DEF TrafficInv, FlowsTyped, MapsTyped

\* Most of the steps of a request touch neither.
LEMMA PageStays ==
  ASSUME TrafficInv, NEW r \in Requests, NEW at, NEW new, Panels!Paging(r, at, new),
         "loaded" \in DOMAIN new, new.loaded = page[r].loaded, UNCHANGED cache
  PROVE  TrafficInv'
<1>1. OneEach(new.loaded) /\ \A d \in Inventory : OneName(cache'[d])
  BY DEF TrafficInv, PagesTyped, MapsTyped
<1> QED BY <1>1, PageMoves

LEMMA PageHolds == ASSUME TrafficInv, NEW r \in Requests, Panels!PageStep(r) PROVE TrafficInv'
<1>1. "loaded" \in DOMAIN page[r] /\ OneEach(page[r].loaded)
  BY DEF TrafficInv, PagesTyped
<1>2. \A d \in Inventory : OneName(cache[d])
  BY DEF TrafficInv, MapsTyped
<1>3. CASE Panels!Open(r)
  <2>1. PICK q \in Searches, w \in {[start |-> clock - Minutes, end |-> clock]} \cup Ranges :
          /\ Panels!Paging(r, "new", [Panels!Unasked EXCEPT !.at = "clear", !.start = Panels!Clamped(w), !.end = w.end, !.q = q])
          /\ UNCHANGED cache
    BY <1>3 DEF Panels!Open
  <2>2. PICK new : new = [Panels!Unasked EXCEPT !.at = "clear", !.start = Panels!Clamped(w), !.end = w.end, !.q = q]
    OBVIOUS
  <2>3. "loaded" \in DOMAIN new /\ new.loaded = {}
    BY <2>2 DEF Panels!Unasked
  <2>4. OneEach(new.loaded)
    BY <2>3 DEF OneEach
  <2> QED BY <1>2, <2>1, <2>2, <2>3, <2>4, PageMoves
<1>4. CASE Panels!Clear(r)
  <2>1. /\ Panels!Paging(r, "clear", [page[r] EXCEPT !.at = "load"])
        /\ cache' = [d \in Inventory |-> {}]
    BY <1>4 DEF Panels!Clear
  <2>2. PICK new : new = [page[r] EXCEPT !.at = "load"]
    OBVIOUS
  <2>3. "loaded" \in DOMAIN new /\ new.loaded = page[r].loaded
    BY <1>1, <2>2
  <2>4. \A d \in Inventory : OneName(cache'[d])
    BY <2>1 DEF OneName
  <2> QED BY <1>1, <2>1, <2>2, <2>3, <2>4, PageMoves
<1>5. CASE Panels!Load(r)
  <2>1. Panels!Paging(r, "load", [page[r] EXCEPT !.at = "fill", !.loaded = table]) /\ UNCHANGED cache
    BY <1>5 DEF Panels!Load
  <2>2. PICK new : new = [page[r] EXCEPT !.at = "fill", !.loaded = table]
    OBVIOUS
  <2>3. "loaded" \in DOMAIN new /\ new.loaded = table
    BY <1>1, <2>2
  <2>4. OneEach(new.loaded)
    BY <2>3 DEF TrafficInv, MapsTyped
  <2> QED BY <1>2, <2>1, <2>2, <2>3, <2>4, PageMoves
<1>6. CASE Panels!Fill(r)
  <2> DEFINE found(d) == {<<row[2], row[3]>> : row \in {t \in page[r].loaded : t[1] = d}}
  <2>1. /\ Panels!Paging(r, "fill", [page[r] EXCEPT !.at = "search"])
        /\ cache' = [d \in Inventory |-> IF found(d) # {} THEN found(d) ELSE cache[d]]
    BY <1>6 DEF Panels!Fill
  <2>2. PICK new : new = [page[r] EXCEPT !.at = "search"]
    OBVIOUS
  <2>3. "loaded" \in DOMAIN new /\ new.loaded = page[r].loaded
    BY <1>1, <2>2
  <2>4. ASSUME NEW d \in Inventory PROVE OneName(found(d))
    BY <1>1 DEF OneEach, OneName
  <2> HIDE DEF found
  <2>5. \A d \in Inventory : OneName(cache'[d])
    BY <1>2, <2>1, <2>4
  <2> QED BY <1>1, <2>1, <2>2, <2>3, <2>5, PageMoves
<1>7. CASE Panels!Search(r)
  <2>1. /\ Panels!Paging(r, "search", [page[r] EXCEPT !.at = "capped", !.ifaces = Panels!Found(page[r].q), !.loaded = {}])
        /\ UNCHANGED cache
    BY <1>7 DEF Panels!Search
  <2>2. PICK new : new = [page[r] EXCEPT !.at = "capped", !.ifaces = Panels!Found(page[r].q), !.loaded = {}]
    OBVIOUS
  <2>3. "loaded" \in DOMAIN new /\ new.loaded = {}
    BY <1>1, <2>2
  <2>4. OneEach(new.loaded)
    BY <2>3 DEF OneEach
  <2> QED BY <1>2, <2>1, <2>2, <2>3, <2>4, PageMoves
<1>8. CASE Panels!ShowCapped(r)
  <2>1. PICK new : new = [page[r] EXCEPT !.at = "talkers", !.capped = Panels!Capped(page[r])]
    OBVIOUS
  <2>2. "loaded" \in DOMAIN new /\ new.loaded = page[r].loaded
    BY <1>1, <2>1
  <2> QED BY <1>8, <2>1, <2>2, PageStays DEF Panels!ShowCapped
<1>9. CASE Panels!ShowTalkers(r)
  <2>1. PICK new : new = [page[r] EXCEPT !.at = "hosts", !.talkers = Panels!Talkers(page[r])]
    OBVIOUS
  <2>2. "loaded" \in DOMAIN new /\ new.loaded = page[r].loaded
    BY <1>1, <2>1
  <2> QED BY <1>9, <2>1, <2>2, PageStays DEF Panels!ShowTalkers
<1>10. CASE Panels!ShowHosts(r)
  <2>1. PICK new : new = [page[r] EXCEPT !.at = "mix", !.hosts = Panels!Hosts(page[r])]
    OBVIOUS
  <2>2. "loaded" \in DOMAIN new /\ new.loaded = page[r].loaded
    BY <1>1, <2>1
  <2> QED BY <1>10, <2>1, <2>2, PageStays DEF Panels!ShowHosts
<1>11. CASE Panels!ShowMix(r)
  <2>1. PICK new : new = [page[r] EXCEPT !.at = "ports", !.mix = Panels!Mix(page[r])]
    OBVIOUS
  <2>2. "loaded" \in DOMAIN new /\ new.loaded = page[r].loaded
    BY <1>1, <2>1
  <2> QED BY <1>11, <2>1, <2>2, PageStays DEF Panels!ShowMix
<1>12. CASE Panels!ShowPorts(r)
  <2>1. PICK new : new = [page[r] EXCEPT !.at = "totals", !.ports = Panels!Ports(page[r])]
    OBVIOUS
  <2>2. "loaded" \in DOMAIN new /\ new.loaded = page[r].loaded
    BY <1>1, <2>1
  <2> QED BY <1>12, <2>1, <2>2, PageStays DEF Panels!ShowPorts
<1>13. CASE Panels!ShowTotals(r)
  <2>1. PICK new : new = [page[r] EXCEPT !.at = "series", !.totals = Panels!Totals(page[r])]
    OBVIOUS
  <2>2. "loaded" \in DOMAIN new /\ new.loaded = page[r].loaded
    BY <1>1, <2>1
  <2> QED BY <1>13, <2>1, <2>2, PageStays DEF Panels!ShowTotals
<1>14. CASE Panels!ShowSeries(r)
  <2>1. PICK new : new = [page[r] EXCEPT !.at = "shown", !.series = Panels!Series(page[r])]
    OBVIOUS
  <2>2. "loaded" \in DOMAIN new /\ new.loaded = page[r].loaded
    BY <1>1, <2>1
  <2> QED BY <1>14, <2>1, <2>2, PageStays DEF Panels!ShowSeries
<1>15. CASE Panels!Drill(r)
  <2>1. PICK port \in page[r].ports :
          /\ Panels!Paging(r, "shown", [page[r] EXCEPT !.at = "drilled", !.ports = {port},
                                                      !.detail = Panels!PortDetail(page[r], port)])
          /\ UNCHANGED cache
    BY <1>15 DEF Panels!Drill
  <2>2. PICK new : new = [page[r] EXCEPT !.at = "drilled", !.ports = {port}, !.detail = Panels!PortDetail(page[r], port)]
    OBVIOUS
  <2>3. "loaded" \in DOMAIN new /\ new.loaded = page[r].loaded
    BY <1>1, <2>2
  <2> QED BY <2>1, <2>2, <2>3, PageStays
<1> QED BY <1>3, <1>4, <1>5, <1>6, <1>7, <1>8, <1>9, <1>10, <1>11, <1>12, <1>13, <1>14, <1>15 DEF Panels!PageStep

LEMMA TrafficHolds == ASSUME TrafficInv, [Panels!Next]_(Panels!trafficVars) PROVE TrafficInv'
<1>1. CASE Panels!Next
  BY <1>1, WorldStep, RefreshHolds, PageHolds DEF Panels!Next
<1>2. CASE UNCHANGED Panels!trafficVars
  <2>1. UNCHANGED <<clock, flows, answer, table, cache, refresher, page, unread>>
    BY <1>2 DEF Panels!trafficVars
  <2> QED BY <2>1 DEF TrafficInv, FlowsTyped, MapsTyped, PagesTyped
<1> QED BY <1>1, <1>2

LEMMA TrafficInvariant == Panels!Init /\ [][Panels!Next]_(Panels!trafficVars) => []TrafficInv
<1>1. Panels!Init => TrafficInv
  BY TrafficInit
<1>2. TrafficInv /\ [Panels!Next]_(Panels!trafficVars) => TrafficInv'
  BY TrafficHolds
<1> QED BY <1>1, <1>2, PTL

\* Of an index of a switch the cache has one name, whichever requests fill and clear it while
\* the maps are read again; and flows, windows and the reader of the maps keep their types.
THEOREM TrafficTyped == Panels!Spec => []Panels!TypeOK
<1> QED BY TrafficTypesImplied, TrafficInvariant, PTL DEF Panels!Spec

-------------------------------------------------------------------------------
(***************************************************************************)
(* Sums, for the panels of the traffic page.  The sum of a function over a *)
(* finite set is what the fold of the library says it is, element by       *)
(* element, in the order a choice fixes (Iter, IterIs); what follows from  *)
(* it no longer names the order.  Each lemma looks at a smallest subset    *)
(* that would refute it.                                                   *)
(***************************************************************************)
Sum(w, S) == Panels!SumFunctionOnSet(w, S)

Pick(s) == CHOOSE x \in s : TRUE

Iter(w, S) == CHOOSE g : g = [s \in SUBSET S |-> IF s = {} THEN 0 ELSE w[Pick(s)] + g[s \ {Pick(s)}]]

LEMMA SumIsIter == \A w, S : Sum(w, S) = Iter(w, S)[S]
BY DEF Sum, Panels!SumFunctionOnSet, Panels!FoldFunctionOnSet, Panels!MapThenFoldSet, Iter, Pick

\* Of numbers there is a least, and of subsets of a finite set a smallest.
LEMMA LeastNumber ==
  ASSUME NEW B \in SUBSET Nat, B # {} PROVE \E n \in B : \A m \in B : n <= m
<1>1. PICK n \in B : \A m \in B : <<m, n>> \notin OpToRel(<, Nat)
  BY NatLessThanWellFounded, WFMin
<1>2. \A m \in B : ~ (m < n)
  BY <1>1 DEF OpToRel
<1>. QED BY <1>2

LEMMA SmallestSet ==
  ASSUME NEW S, IsFiniteSet(S), NEW B \in SUBSET SUBSET S, B # {}
  PROVE  \E s \in B : \A t \in B : t \subseteq s => t = s
<1>1. IsWellFoundedOn(StrictSubsetOrdering(S), SUBSET S)
  BY FS_StrictSubsetOrderingWellFounded, FS_FiniteSubsetsOfFinite
<1>2. PICK s \in B : \A t \in B : <<t, s>> \notin StrictSubsetOrdering(S)
  BY <1>1, WFMin
<1>. QED BY <1>2 DEF StrictSubsetOrdering

LEMMA IterIs ==
  ASSUME NEW S, IsFiniteSet(S), NEW w
  PROVE  Iter(w, S) = [s \in SUBSET S |-> IF s = {} THEN 0 ELSE w[Pick(s)] + Iter(w, S)[s \ {Pick(s)}]]
<1> DEFINE Small(n) == {s \in SUBSET S : Cardinality(s) <= n}
           Body(g, s) == IF s = {} THEN 0 ELSE w[Pick(s)] + g[s \ {Pick(s)}]
           Bad == {n \in Nat : ~ \E g : g = [s \in Small(n) |-> Body(g, s)]}
<1>1. ASSUME NEW s \in SUBSET S
      PROVE  /\ IsFiniteSet(s) /\ Cardinality(s) \in Nat
             /\ s # {} => Pick(s) \in s /\ Cardinality(s \ {Pick(s)}) = Cardinality(s) - 1
  <2>1. IsFiniteSet(s) /\ Cardinality(s) \in Nat
    BY FS_Subset, FS_CardinalityType
  <2>2. s # {} => Pick(s) \in s
    BY DEF Pick
  <2>. QED BY <2>1, <2>2, FS_RemoveElement
<1>2. Bad = {}
  <2> SUFFICES ASSUME Bad # {} PROVE FALSE
    OBVIOUS
  <2>1. PICK n \in Bad : \A m \in Bad : n <= m
    BY LeastNumber
  <2>2. n # 0
    <3>1. Small(0) = {{}}
      <4>1. ASSUME NEW s \in SUBSET S, Cardinality(s) <= 0 PROVE s = {}
        <5>0. IsFiniteSet(s) /\ Cardinality(s) \in Nat
          BY <1>1, <4>1
        <5>1. Cardinality(s) = 0
          BY <4>1, <5>0
        <5>. QED BY <5>0, <5>1, FS_EmptySet
      <4>2. {} \in SUBSET S /\ Cardinality({}) <= 0
        BY FS_EmptySet
      <4>. QED BY <4>1, <4>2
    <3>2. PICK g : g = [s \in {{}} |-> 0]
      OBVIOUS
    <3>3. g = [s \in Small(0) |-> Body(g, s)]
      BY <3>1, <3>2
    <3>4. 0 \notin Bad
      BY <3>3
    <3>. QED BY <2>1, <3>4
  <2>3. n - 1 \in Nat /\ n - 1 \notin Bad
    <3>1. n \in Nat
      BY <2>1
    <3>2. n - 1 \in Nat /\ ~ (n <= n - 1)
      BY <2>2, <3>1
    <3> HIDE DEF Bad
    <3>. QED BY <2>1, <3>2
  <2>4. PICK g : g = [s \in Small(n - 1) |-> Body(g, s)]
    BY <2>3
  <2> DEFINE h == [s \in Small(n) |-> Body(g, s)]
  <2>5. ASSUME NEW s \in Small(n) PROVE Body(g, s) = Body(h, s)
    <3>1. CASE s = {}
      BY <3>1
    <3>2. CASE s # {}
      <4>0. s \in SUBSET S /\ Cardinality(s) <= n /\ n \in Nat
        BY <2>1, <2>5
      <4>a. Cardinality(s \ {Pick(s)}) = Cardinality(s) - 1 /\ Cardinality(s) \in Nat
        BY <1>1, <3>2, <4>0
      <4>b. Cardinality(s \ {Pick(s)}) <= n - 1 /\ Cardinality(s \ {Pick(s)}) <= n
        BY <4>0, <4>a
      <4>1. s \ {Pick(s)} \in Small(n - 1) /\ s \ {Pick(s)} \in Small(n)
        BY <4>0, <4>b
      <4>2. h[s \ {Pick(s)}] = Body(g, s \ {Pick(s)})
        BY <4>1
      <4>3. g[s \ {Pick(s)}] = Body(g, s \ {Pick(s)})
        <5> HIDE DEF Small, Body
        <5>. QED BY <2>4, <4>1
      <4>. QED BY <3>2, <4>2, <4>3
    <3>. QED BY <3>1, <3>2
  <2>6. h = [s \in Small(n) |-> Body(h, s)]
    <3> HIDE DEF Body, Small
    <3>. QED BY <2>5
  <2>. QED BY <2>1, <2>6
<1>3. \E g : g = [s \in SUBSET S |-> Body(g, s)]
  <2>1. Cardinality(S) \in Nat
    BY FS_CardinalityType
  <2>2. Small(Cardinality(S)) = SUBSET S
    BY FS_Subset
  <2>3. Cardinality(S) \notin Bad
    BY <1>2
  <2>4. \E g : g = [s \in Small(Cardinality(S)) |-> Body(g, s)]
    BY <2>1, <2>3
  <2>. QED BY <2>2, <2>4
<1>. QED BY <1>3 DEF Iter

LEMMA IterAt ==
  ASSUME NEW S, IsFiniteSet(S), NEW w, NEW s \in SUBSET S
  PROVE  Iter(w, S)[s] = IF s = {} THEN 0 ELSE w[Pick(s)] + Iter(w, S)[s \ {Pick(s)}]
<1>1. PICK g : g = Iter(w, S)
  OBVIOUS
<1>2. g = [t \in SUBSET S |-> IF t = {} THEN 0 ELSE w[Pick(t)] + g[t \ {Pick(t)}]]
  BY <1>1, IterIs
<1>3. g[s] = IF s = {} THEN 0 ELSE w[Pick(s)] + g[s \ {Pick(s)}]
  BY <1>2
<1> QED BY <1>1, <1>3

LEMMA PickIs ==
  ASSUME NEW S, IsFiniteSet(S), NEW s \in SUBSET S, s # {}
  PROVE  Pick(s) \in s /\ s \ {Pick(s)} \in SUBSET S /\ s \ {Pick(s)} \subseteq s /\ s \ {Pick(s)} # s
BY DEF Pick

LEMMA IterNat ==
  ASSUME NEW S, IsFiniteSet(S), NEW w, \A x \in S : w[x] \in Nat
  PROVE  \A s \in SUBSET S : Iter(w, S)[s] \in Nat
<1> DEFINE Bad == {s \in SUBSET S : Iter(w, S)[s] \notin Nat}
<1>b. Bad \in SUBSET SUBSET S
  OBVIOUS
<1>1. ASSUME Bad # {} PROVE FALSE
  <2>1. PICK s \in Bad : \A t \in Bad : t \subseteq s => t = s
    <3> HIDE DEF Bad
    <3> QED BY <1>b, <1>1, SmallestSet
  <2>2. Iter(w, S)[s] = IF s = {} THEN 0 ELSE w[Pick(s)] + Iter(w, S)[s \ {Pick(s)}]
    BY <2>1, IterAt
  <2>3. s # {}
    BY <2>1, <2>2
  <2>4. Pick(s) \in s /\ s \ {Pick(s)} \in SUBSET S /\ s \ {Pick(s)} \subseteq s /\ s \ {Pick(s)} # s
    BY <2>1, <2>3, PickIs
  <2>5. Iter(w, S)[s \ {Pick(s)}] \in Nat
    BY <2>1, <2>4
  <2>6. w[Pick(s)] \in Nat
    BY <2>1, <2>4
  <2>7. Iter(w, S)[s] \in Nat
    BY <2>2, <2>3, <2>5, <2>6
  <2> QED BY <2>1, <2>7
<1> QED BY <1>1

LEMMA IterSame ==
  ASSUME NEW S, IsFiniteSet(S), NEW T \in SUBSET S, NEW w, NEW v, \A x \in T : w[x] = v[x]
  PROVE  \A s \in SUBSET T : Iter(w, S)[s] = Iter(v, T)[s]
<1> DEFINE Bad == {s \in SUBSET T : Iter(w, S)[s] # Iter(v, T)[s]}
<1>b. Bad \in SUBSET SUBSET T
  OBVIOUS
<1>0. IsFiniteSet(T)
  BY FS_Subset
<1>1. ASSUME Bad # {} PROVE FALSE
  <2>1. PICK s \in Bad : \A t \in Bad : t \subseteq s => t = s
    <3> HIDE DEF Bad
    <3> QED BY <1>b, <1>0, <1>1, SmallestSet
  <2>2. Iter(w, S)[s] = IF s = {} THEN 0 ELSE w[Pick(s)] + Iter(w, S)[s \ {Pick(s)}]
    BY <2>1, IterAt
  <2>3. Iter(v, T)[s] = IF s = {} THEN 0 ELSE v[Pick(s)] + Iter(v, T)[s \ {Pick(s)}]
    BY <1>0, <2>1, IterAt
  <2>4. s # {}
    BY <2>1, <2>2, <2>3
  <2>5. Pick(s) \in s /\ s \ {Pick(s)} \in SUBSET T /\ s \ {Pick(s)} \subseteq s /\ s \ {Pick(s)} # s
    BY <1>0, <2>1, <2>4, PickIs
  <2>6. Iter(w, S)[s \ {Pick(s)}] = Iter(v, T)[s \ {Pick(s)}]
    BY <2>1, <2>5
  <2>7. w[Pick(s)] = v[Pick(s)]
    BY <2>1, <2>5
  <2> QED BY <2>1, <2>2, <2>3, <2>4, <2>6, <2>7
<1> QED BY <1>1

LEMMA SumEmpty == \A w : Sum(w, {}) = 0
<1>1. ASSUME NEW w PROVE Sum(w, {}) = 0
  <2>1. Iter(w, {})[{}] = 0
    BY IterAt, FS_EmptySet
  <2> QED BY <2>1, SumIsIter
<1> QED BY <1>1

LEMMA SumNat ==
  ASSUME NEW S, IsFiniteSet(S), NEW w, \A x \in S : w[x] \in Nat
  PROVE  Sum(w, S) \in Nat
BY SumIsIter, IterNat

LEMMA SumSame ==
  ASSUME NEW S, IsFiniteSet(S), NEW w, NEW v, \A x \in S : w[x] = v[x]
  PROVE  Sum(w, S) = Sum(v, S)
<1>1. \A s \in SUBSET S : Iter(w, S)[s] = Iter(v, S)[s]
  BY IterSame
<1> QED BY <1>1, SumIsIter

LEMMA SumPick ==
  ASSUME NEW S, IsFiniteSet(S), S # {}, NEW w
  PROVE  Pick(S) \in S /\ Sum(w, S) = w[Pick(S)] + Sum(w, S \ {Pick(S)})
<1>1. Pick(S) \in S
  BY DEF Pick
<1>2. Iter(w, S)[S] = w[Pick(S)] + Iter(w, S)[S \ {Pick(S)}]
  <2>1. S \in SUBSET S
    OBVIOUS
  <2> QED BY <2>1, IterAt
<1>3. Iter(w, S)[S \ {Pick(S)}] = Iter(w, S \ {Pick(S)})[S \ {Pick(S)}]
  BY IterSame
<1> QED BY <1>1, <1>2, <1>3, SumIsIter

\* Whichever is taken away first.
LEMMA SumRemove ==
  ASSUME NEW S, IsFiniteSet(S), NEW w, \A x \in S : w[x] \in Nat, NEW x \in S
  PROVE  Sum(w, S) = w[x] + Sum(w, S \ {x})
<1> DEFINE Bad == {s \in SUBSET S : \E y \in s : Sum(w, s) # w[y] + Sum(w, s \ {y})}
<1>b. Bad \in SUBSET SUBSET S
  OBVIOUS
<1>1. ASSUME Bad # {} PROVE FALSE
  <2>1. PICK s \in Bad : \A t \in Bad : t \subseteq s => t = s
    <3> HIDE DEF Bad
    <3> QED BY <1>b, <1>1, SmallestSet
  <2>2. PICK y \in s : Sum(w, s) # w[y] + Sum(w, s \ {y})
    BY <2>1
  <2> DEFINE p == Pick(s)
  <2>3. IsFiniteSet(s) /\ s # {}
    BY <2>1, <2>2, FS_Subset
  <2>4. p \in s /\ Sum(w, s) = w[p] + Sum(w, s \ {p})
    BY <2>3, SumPick
  <2> HIDE DEF p
  <2>5. p # y
    BY <2>2, <2>4
  <2>6. y \in s \ {p} /\ s \ {p} \in SUBSET S /\ s \ {p} \notin Bad
    BY <2>1, <2>2, <2>4, <2>5
  <2>7. p \in s \ {y} /\ s \ {y} \in SUBSET S /\ s \ {y} \notin Bad
    BY <2>1, <2>2, <2>4, <2>5
  <2>8. Sum(w, s \ {p}) = w[y] + Sum(w, (s \ {p}) \ {y})
    BY <2>6
  <2>9. Sum(w, s \ {y}) = w[p] + Sum(w, (s \ {y}) \ {p})
    BY <2>7
  <2>10. (s \ {p}) \ {y} = (s \ {y}) \ {p}
    OBVIOUS
  <2>11. w[p] \in Nat /\ w[y] \in Nat
    BY <2>1, <2>2, <2>4
  <2>12. Sum(w, (s \ {p}) \ {y}) \in Nat
    <3>1. IsFiniteSet((s \ {p}) \ {y}) /\ \A z \in (s \ {p}) \ {y} : w[z] \in Nat
      BY <2>1, <2>3, FS_Subset
    <3> QED BY <3>1, SumNat
  <2> QED BY <2>2, <2>4, <2>8, <2>9, <2>10, <2>11, <2>12
<1>2. S \notin Bad
  BY <1>1
<1> QED BY <1>2

LEMMA SumSubset ==
  ASSUME NEW S, IsFiniteSet(S), NEW w, \A x \in S : w[x] \in Nat, NEW T \in SUBSET S
  PROVE  Sum(w, T) <= Sum(w, S)
<1> DEFINE Bad == {s \in SUBSET S : T \subseteq s /\ ~ (Sum(w, T) <= Sum(w, s))}
<1>b. Bad \in SUBSET SUBSET S
  OBVIOUS
<1>1. \A s \in SUBSET S : IsFiniteSet(s) /\ (\A x \in s : w[x] \in Nat) /\ Sum(w, s) \in Nat
  BY FS_Subset, SumNat
<1>2. ASSUME Bad # {} PROVE FALSE
  <2>1. PICK s \in Bad : \A t \in Bad : t \subseteq s => t = s
    <3> HIDE DEF Bad
    <3> QED BY <1>b, <1>2, SmallestSet
  <2>2. s # T
    BY <1>1, <2>1
  <2>3. PICK x \in s : x \notin T
    BY <2>1, <2>2
  <2>4. s \ {x} \in SUBSET S /\ T \subseteq s \ {x} /\ s \ {x} \notin Bad
    BY <2>1, <2>3
  <2>5. Sum(w, T) <= Sum(w, s \ {x})
    BY <2>4
  <2>6. Sum(w, s) = w[x] + Sum(w, s \ {x})
    BY <1>1, <2>1, <2>3, SumRemove
  <2>7. w[x] \in Nat /\ Sum(w, s \ {x}) \in Nat /\ Sum(w, T) \in Nat
    BY <1>1, <2>1, <2>3, <2>4
  <2>8. Sum(w, T) <= Sum(w, s)
    BY <2>5, <2>6, <2>7
  <2> QED BY <2>1, <2>8
<1>3. S \notin Bad
  BY <1>2
<1> QED BY <1>3

\* Of two kinds at once.
LEMMA SumPlus ==
  ASSUME NEW S, IsFiniteSet(S), NEW u, NEW w, NEW v,
         \A x \in S : w[x] \in Nat /\ v[x] \in Nat /\ u[x] = w[x] + v[x]
  PROVE  Sum(u, S) = Sum(w, S) + Sum(v, S)
<1> DEFINE Bad == {s \in SUBSET S : Sum(u, s) # Sum(w, s) + Sum(v, s)}
<1>b. Bad \in SUBSET SUBSET S
  OBVIOUS
<1>1. \A s \in SUBSET S : IsFiniteSet(s) /\ Sum(w, s) \in Nat /\ Sum(v, s) \in Nat
  <2>1. ASSUME NEW s \in SUBSET S PROVE IsFiniteSet(s) /\ Sum(w, s) \in Nat /\ Sum(v, s) \in Nat
    <3>1. IsFiniteSet(s) /\ (\A x \in s : w[x] \in Nat) /\ (\A x \in s : v[x] \in Nat)
      BY FS_Subset
    <3> QED BY <3>1, SumNat
  <2> QED BY <2>1
<1>2. ASSUME Bad # {} PROVE FALSE
  <2>1. PICK s \in Bad : \A t \in Bad : t \subseteq s => t = s
    <3> HIDE DEF Bad
    <3> QED BY <1>b, <1>2, SmallestSet
  <2>2. s # {}
    <3>1. Sum(u, {}) = Sum(w, {}) + Sum(v, {})
      BY SumEmpty
    <3> QED BY <2>1, <3>1
  <2> DEFINE p == Pick(s)
  <2>3. /\ p \in s /\ Sum(u, s) = u[p] + Sum(u, s \ {p})
        /\ Sum(w, s) = w[p] + Sum(w, s \ {p}) /\ Sum(v, s) = v[p] + Sum(v, s \ {p})
    BY <1>1, <2>1, <2>2, SumPick
  <2> HIDE DEF p
  <2>4. s \ {p} \in SUBSET S /\ s \ {p} \notin Bad
    BY <2>1, <2>3
  <2>5. Sum(u, s \ {p}) = Sum(w, s \ {p}) + Sum(v, s \ {p})
    BY <2>4
  <2>6. w[p] \in Nat /\ v[p] \in Nat /\ u[p] = w[p] + v[p]
    BY <2>1, <2>3
  <2>7. Sum(w, s \ {p}) \in Nat /\ Sum(v, s \ {p}) \in Nat
    BY <1>1, <2>4
  <2>8. Sum(u, s) = Sum(w, s) + Sum(v, s)
    BY <2>3, <2>5, <2>6, <2>7
  <2> QED BY <2>1, <2>8
<1>3. S \notin Bad
  BY <1>2
<1> QED BY <1>3

LEMMA SumUnion ==
  ASSUME NEW A, IsFiniteSet(A), NEW B, IsFiniteSet(B), A \cap B = {},
         NEW w, \A x \in A \cup B : w[x] \in Nat
  PROVE  Sum(w, A \cup B) = Sum(w, A) + Sum(w, B)
<1> DEFINE Bad == {s \in SUBSET B : Sum(w, A \cup s) # Sum(w, A) + Sum(w, s)}
<1>b. Bad \in SUBSET SUBSET B
  OBVIOUS
<1>1. \A s \in SUBSET B : IsFiniteSet(s) /\ IsFiniteSet(A \cup s) /\ Sum(w, s) \in Nat /\ Sum(w, A) \in Nat
  <2>1. ASSUME NEW s \in SUBSET B PROVE IsFiniteSet(s) /\ IsFiniteSet(A \cup s) /\ Sum(w, s) \in Nat /\ Sum(w, A) \in Nat
    <3>1. IsFiniteSet(s) /\ (\A x \in s : w[x] \in Nat) /\ (\A x \in A : w[x] \in Nat)
      BY FS_Subset
    <3> QED BY <3>1, SumNat, FS_Union
  <2> QED BY <2>1
<1>2. ASSUME Bad # {} PROVE FALSE
  <2>1. PICK s \in Bad : \A t \in Bad : t \subseteq s => t = s
    <3> HIDE DEF Bad
    <3> QED BY <1>b, <1>2, SmallestSet
  <2>2. s # {}
    <3>1. A \cup {} = A
      OBVIOUS
    <3>2. Sum(w, A \cup {}) = Sum(w, A) + Sum(w, {})
      BY <1>1, <3>1, SumEmpty
    <3> QED BY <2>1, <3>2
  <2>3. PICK p : p \in s
    BY <2>2
  <2>4. s \ {p} \in SUBSET B /\ s \ {p} \notin Bad /\ p \in A \cup s
    BY <2>1, <2>3
  <2>5. Sum(w, A \cup (s \ {p})) = Sum(w, A) + Sum(w, s \ {p})
    BY <2>4
  <2>6. (A \cup s) \ {p} = A \cup (s \ {p})
    BY <2>1, <2>3
  <2>7. (\A x \in s : w[x] \in Nat) /\ (\A x \in A \cup s : w[x] \in Nat) /\ IsFiniteSet(s) /\ IsFiniteSet(A \cup s)
    BY <1>1, <2>1
  <2>8. Sum(w, s) = w[p] + Sum(w, s \ {p})
    BY <2>3, <2>7, SumRemove
  <2>9. Sum(w, A \cup s) = w[p] + Sum(w, (A \cup s) \ {p})
    BY <2>4, <2>7, SumRemove
  <2>10. Sum(w, s \ {p}) \in Nat /\ Sum(w, A) \in Nat /\ w[p] \in Nat
    BY <1>1, <2>3, <2>4, <2>7
  <2>11. Sum(w, A \cup s) = Sum(w, A) + Sum(w, s)
    <3> HIDE DEF Bad
    <3>1. Sum(w, A \cup s) = w[p] + Sum(w, A \cup (s \ {p}))
      BY <2>6, <2>9
    <3> QED BY <2>5, <2>8, <2>10, <3>1
  <2> QED BY <2>1, <2>11
<1>3. B \notin Bad
  BY <1>2
<1> QED BY <1>3

\* The groups of a grouping make up what they cover.
Covered(piece, ks) == UNION {piece[k] : k \in ks}

LEMMA SumGroups ==
  ASSUME NEW R, IsFiniteSet(R), NEW w, \A x \in R : w[x] \in Nat,
         NEW K, IsFiniteSet(K), NEW piece, NEW sizes,
         \A k \in K : piece[k] \subseteq R /\ sizes[k] = Sum(w, piece[k]),
         \A k, l \in K : k # l => piece[k] \cap piece[l] = {}
  PROVE  Sum(sizes, K) = Sum(w, Covered(piece, K))
<1> DEFINE Bad == {s \in SUBSET K : Sum(sizes, s) # Sum(w, Covered(piece, s))}
<1>b. Bad \in SUBSET SUBSET K
  OBVIOUS
<1>1. \A s \in SUBSET K : Covered(piece, s) \subseteq R
  BY DEF Covered
<1>2. \A t \in SUBSET R : IsFiniteSet(t) /\ \A x \in t : w[x] \in Nat
  BY FS_Subset
<1>3. ASSUME Bad # {} PROVE FALSE
  <2>1. PICK s \in Bad : \A t \in Bad : t \subseteq s => t = s
    <3> HIDE DEF Bad
    <3> QED BY <1>b, <1>3, SmallestSet
  <2>2. s # {}
    <3>1. Covered(piece, {}) = {}
      BY DEF Covered
    <3> QED BY <2>1, <3>1, SumEmpty
  <2> DEFINE p == Pick(s)
  <2>3. p \in s /\ Sum(sizes, s) = sizes[p] + Sum(sizes, s \ {p})
    BY <2>1, <2>2, FS_Subset, SumPick
  <2> HIDE DEF p
  <2>4. s \ {p} \in SUBSET K /\ s \ {p} \notin Bad
    BY <2>1, <2>3
  <2>5. Sum(sizes, s \ {p}) = Sum(w, Covered(piece, s \ {p}))
    BY <2>4
  <2>6. Covered(piece, s) = Covered(piece, s \ {p}) \cup piece[p]
    BY <2>3 DEF Covered
  <2>7. Covered(piece, s \ {p}) \cap piece[p] = {}
    BY <2>1, <2>3, <2>4 DEF Covered
  <2>8. piece[p] \subseteq R /\ Covered(piece, s \ {p}) \subseteq R /\ sizes[p] = Sum(w, piece[p])
    BY <1>1, <2>1, <2>3, <2>4
  <2>9. Sum(w, Covered(piece, s)) = Sum(w, Covered(piece, s \ {p})) + Sum(w, piece[p])
    <3>1. /\ IsFiniteSet(piece[p]) /\ IsFiniteSet(Covered(piece, s \ {p}))
          /\ \A x \in Covered(piece, s \ {p}) \cup piece[p] : w[x] \in Nat
      BY <1>2, <2>8
    <3>2. PICK a, b : a = Covered(piece, s \ {p}) /\ b = piece[p]
      OBVIOUS
    <3>3. IsFiniteSet(a) /\ IsFiniteSet(b) /\ a \cap b = {} /\ \A x \in a \cup b : w[x] \in Nat
      BY <2>7, <3>1, <3>2
    <3>4. Sum(w, a \cup b) = Sum(w, a) + Sum(w, b)
      BY <3>3, SumUnion
    <3>5. Covered(piece, s) = a \cup b
      BY <2>6, <3>2
    <3> QED BY <3>2, <3>4, <3>5
  <2>10. Sum(w, piece[p]) \in Nat /\ Sum(w, Covered(piece, s \ {p})) \in Nat
    BY <1>2, <2>8, SumNat
  <2>11. Sum(sizes, s) = Sum(w, Covered(piece, s))
    BY <2>3, <2>5, <2>8, <2>9, <2>10
  <2> QED BY <2>1, <2>11
<1>4. K \notin Bad
  BY <1>3
<1> QED BY <1>4

\* If each is m at least.
LEMMA SumAtLeast ==
  ASSUME NEW S, IsFiniteSet(S), NEW m \in Nat, NEW w, \A x \in S : w[x] \in Nat /\ m <= w[x]
  PROVE  Cardinality(S) * m <= Sum(w, S)
<1> DEFINE Bad == {s \in SUBSET S : ~ (Cardinality(s) * m <= Sum(w, s))}
<1>b. Bad \in SUBSET SUBSET S
  OBVIOUS
<1>1. \A s \in SUBSET S : IsFiniteSet(s) /\ Cardinality(s) \in Nat /\ Sum(w, s) \in Nat
  <2>1. ASSUME NEW s \in SUBSET S PROVE IsFiniteSet(s) /\ Cardinality(s) \in Nat /\ Sum(w, s) \in Nat
    <3>1. IsFiniteSet(s) /\ (\A x \in s : w[x] \in Nat)
      BY FS_Subset
    <3> QED BY <3>1, SumNat, FS_CardinalityType
  <2> QED BY <2>1
<1>2. ASSUME Bad # {} PROVE FALSE
  <2>1. PICK s \in Bad : \A t \in Bad : t \subseteq s => t = s
    <3> HIDE DEF Bad
    <3> QED BY <1>b, <1>2, SmallestSet
  <2>2. s # {}
    <3>1. Cardinality({}) * m <= Sum(w, {})
      BY SumEmpty, FS_EmptySet
    <3> QED BY <2>1, <3>1
  <2> DEFINE p == Pick(s)
  <2>3. p \in s /\ Sum(w, s) = w[p] + Sum(w, s \ {p})
    BY <1>1, <2>1, <2>2, SumPick
  <2> HIDE DEF p
  <2>4. s \ {p} \in SUBSET S /\ s \ {p} \notin Bad
    BY <2>1, <2>3
  <2>5. Cardinality(s \ {p}) * m <= Sum(w, s \ {p})
    BY <2>4
  <2>6. Cardinality(s \ {p}) = Cardinality(s) - 1 /\ Cardinality(s) \in Nat /\ Cardinality(s \ {p}) \in Nat
    BY <1>1, <2>1, <2>3, <2>4, FS_RemoveElement
  <2>7. w[p] \in Nat /\ m <= w[p] /\ Sum(w, s \ {p}) \in Nat
    BY <1>1, <2>1, <2>3, <2>4
  <2>8. \A n \in Nat : (n + 1) * m = n * m + m
    OBVIOUS
  <2>9. Cardinality(s) * m = Cardinality(s \ {p}) * m + m
    BY <2>6, <2>8
  <2>10. Cardinality(s \ {p}) * m \in Nat
    BY <2>6
  <2>11. Cardinality(s) * m <= Sum(w, s)
    BY <2>3, <2>5, <2>7, <2>9, <2>10
  <2> QED BY <2>1, <2>11
<1>3. S \notin Bad
  BY <1>2
<1> QED BY <1>3

-----------------------------------------------------------------------------
(* The panels of a page: what each shows is compared with what the window  *)
(* held when it was asked for, and a window only ever gains rows.          *)
Fields ==
  {"at", "start", "end", "q", "ifaces", "loaded", "capped", "talkers", "hosts", "mix", "ports", "totals", "series", "detail"}

Weight == [f \in flows |-> f.flow.bytes]

\* What a page shows is what its window held when it was asked for, or part of it.
PageSound(p) ==
  /\ DOMAIN p = Fields
  /\ p.capped \in Nat /\ p.talkers \in Nat /\ p.hosts \in Nat /\ p.mix \in Nat /\ p.totals \in Nat /\ p.series \in Nat
  /\ \A port \in p.ports : port.in \in Nat /\ port.out \in Nat
  /\ p.at \in {"talkers", "hosts", "mix", "ports", "totals"} =>
       (p.capped > 0 => Panels!Totals(p) > p.capped * Ceiling)
  /\ p.at \in {"hosts", "mix", "ports", "totals"} => p.talkers <= Panels!Totals(p)
  /\ p.at \in {"mix", "ports", "totals"} => p.hosts <= 2 * Panels!Totals(p)
  /\ p.at \in {"ports", "totals"} => p.mix <= Panels!Totals(p)
  /\ p.at \in {"totals", "series", "shown"} => \A port \in p.ports :
       port.in <= Panels!PortDetail(p, port) /\ port.out <= Panels!PortDetail(p, port)
  /\ p.at \in {"series", "shown"} =>
       /\ p.talkers <= p.totals /\ p.mix <= p.totals /\ p.hosts <= 2 * p.totals
       /\ p.capped > 0 => p.totals > p.capped * Ceiling
  /\ p.at = "series" => p.totals <= Panels!Totals(p)
  /\ p.at = "shown" => p.totals <= p.series
  /\ p.at = "drilled" => \A port \in p.ports : port.in <= p.detail /\ port.out <= p.detail

PagesSound == \A r \in Requests : PageSound(page[r])

-----------------------------------------------------------------------------
(* What the panels count.                                                  *)

LEMMA FlowsAre == TrafficInv => IsFiniteSet(flows) /\ \A f \in flows : Weight[f] \in Nat /\ f.flow.bytes = Weight[f]
<1>1. \A f \in Flows : f.bytes \in Nat
  BY ServicesAssumption DEF Panels!TrafficAssumption
<1> QED BY <1>1 DEF TrafficInv, FlowsTyped, Weight

LEMMA LimitsAre == Limit \in Nat /\ Ceiling \in Nat
BY ServicesAssumption DEF Panels!TrafficAssumption

LEMMA BytesAre == \A rows_ : Panels!BytesOf(rows_) = Sum(Weight, rows_)
BY DEF Panels!BytesOf, Sum, Weight

LEMMA BytesOfPart ==
  ASSUME TrafficInv, NEW A, NEW B, A \subseteq B, B \subseteq flows
  PROVE  Panels!BytesOf(A) \in Nat /\ Panels!BytesOf(B) \in Nat /\ Panels!BytesOf(A) <= Panels!BytesOf(B)
<1>1. IsFiniteSet(A) /\ IsFiniteSet(B)
  BY FlowsAre, FS_Subset
<1>2. (\A f \in A : Weight[f] \in Nat) /\ (\A f \in B : Weight[f] \in Nat)
  BY FlowsAre
<1>3. Sum(Weight, A) \in Nat /\ Sum(Weight, B) \in Nat
  BY <1>1, <1>2, SumNat
<1>4. Sum(Weight, A) <= Sum(Weight, B)
  BY <1>1, <1>2, SumSubset
<1> QED BY <1>3, <1>4, BytesAre

LEMMA ImageIsFinite ==
  ASSUME NEW R, IsFiniteSet(R), NEW f
  PROVE  IsFiniteSet({f[x] : x \in R})
<1> DEFINE g == [x \in R |-> f[x]]
<1>1. g \in Surjection(R, {f[x] : x \in R})
  BY DEF Surjection
<1> QED BY <1>1, FS_Surjection

\* A ranked panel shows no more than its groups make together.
LEMMA RankedWithin ==
  ASSUME NEW sizes, IsFiniteSet(DOMAIN sizes), \A k \in DOMAIN sizes : sizes[k] \in Nat
  PROVE  Panels!Ranked(sizes) \in Nat /\ Panels!Ranked(sizes) <= Sum(sizes, DOMAIN sizes)
<1> DEFINE K == DOMAIN sizes
           Tops == {s \in SUBSET K : Cardinality(s) = Limit}
<1>1. Sum(sizes, K) \in Nat
  BY SumNat
<1>2. \A s \in SUBSET K : Sum(sizes, s) \in Nat /\ Sum(sizes, s) <= Sum(sizes, K)
  <2>1. ASSUME NEW s \in SUBSET K PROVE Sum(sizes, s) \in Nat /\ Sum(sizes, s) <= Sum(sizes, K)
    <3>1. IsFiniteSet(s) /\ \A k \in s : sizes[k] \in Nat
      BY FS_Subset
    <3> QED BY <3>1, SumNat, SumSubset
  <2> QED BY <2>1
<1>3. CASE Cardinality(K) <= Limit
  <2>1. Panels!Ranked(sizes) = Sum(sizes, K)
    BY <1>3 DEF Panels!Ranked, Panels!SumFunction, Sum, Panels!Cardinality, Cardinality
  <2> QED BY <1>1, <2>1
<1>4. CASE ~ (Cardinality(K) <= Limit)
  <2>1. Panels!Ranked(sizes) = Panels!Max({Sum(sizes, s) : s \in Tops})
    BY <1>4 DEF Panels!Ranked, Sum, Panels!kSubset, Panels!Cardinality, Cardinality
  <2>2. Cardinality(K) \in Nat /\ Limit <= Cardinality(K)
    BY <1>4, FS_CardinalityType, LimitsAre
  <2>3. PICK s \in SUBSET K : Cardinality(s) = Limit
    <3> DEFINE zero == [k \in K |-> 0]
    <3>1. zero \in [K -> Int]
      OBVIOUS
    <3> HIDE DEF zero
    <3> QED BY <2>2, <3>1, LimitsAre, LeastExist
  <2>4. s \in Tops
    BY <2>3
  <2> DEFINE all == [t \in Tops |-> Sum(sizes, t)]
  <2>5. IsFiniteSet(Tops)
    <3>1. IsFiniteSet(SUBSET K) /\ Tops \in SUBSET SUBSET K
      BY FS_SUBSET
    <3> HIDE DEF Tops
    <3> QED BY <3>1, FS_Subset
  <2>6. all \in [Tops -> Int]
    BY <1>2
  <2>7. PICK t \in Tops : \A u \in Tops : all[u] <= all[t]
    <3> HIDE DEF all, Tops
    <3> QED BY <2>4, <2>5, <2>6, LargestExists
  <2>8. \A u \in Tops : Sum(sizes, u) <= Sum(sizes, t)
    BY <2>7
  <2> DEFINE Values == {Sum(sizes, u) : u \in Tops}
  <2>9. \A x \in Values : x \in Nat /\ x <= Sum(sizes, K)
    BY <1>2
  <2>10. \E x \in Values : \A y \in Values : x >= y
    <3>1. Sum(sizes, t) \in Values /\ \A y \in Values : y <= Sum(sizes, t)
      BY <2>8
    <3>2. \A y \in Values : Sum(sizes, t) >= y
      <4> HIDE DEF Values
      <4> QED BY <2>9, <3>1
    <3> QED BY <3>1, <3>2
  <2>11. Panels!Max(Values) \in Values
    <3> HIDE DEF Values
    <3> QED BY <2>10 DEF Panels!Max
  <2> QED BY <2>1, <2>9, <2>11
<1> QED BY <1>3, <1>4

\* The sizes of groups of rows, by a key of each.
Grouping(sizes, K, R, key) == \A k \in K : sizes[k] = Panels!BytesOf({f \in R : key[f] = k})
Groups(R, key) == [k \in {key[f] : f \in R} |-> Panels!BytesOf({f \in R : key[f] = k})]

\* The groups of some rows make no more than the rows, and just as much when every
\* row is in a group.
LEMMA GroupsWithin ==
  ASSUME TrafficInv, NEW R \in SUBSET flows, NEW key, NEW K, IsFiniteSet(K), NEW sizes, Grouping(sizes, K, R, key)
  PROVE  /\ \A k \in K : sizes[k] \in Nat
         /\ Sum(sizes, K) \in Nat /\ Sum(sizes, K) <= Panels!BytesOf(R)
         /\ (\A f \in R : key[f] \in K) => Sum(sizes, K) = Panels!BytesOf(R)
<1> DEFINE grouping == [k \in K |-> {f \in R : key[f] = k}]
<1>1. IsFiniteSet(R) /\ \A f \in R : Weight[f] \in Nat
  BY FlowsAre, FS_Subset
<1>2. \A k \in K : grouping[k] \subseteq R /\ sizes[k] = Sum(Weight, grouping[k])
  BY BytesAre DEF Grouping
<1>3. \A k, l \in K : k # l => grouping[k] \cap grouping[l] = {}
  OBVIOUS
<1>4. \A k \in K : sizes[k] \in Nat
  <2>1. ASSUME NEW k \in K PROVE sizes[k] \in Nat
    <3>1. {f \in R : key[f] = k} \subseteq R /\ R \subseteq flows
      OBVIOUS
    <3>2. Panels!BytesOf({f \in R : key[f] = k}) \in Nat
      BY <3>1, BytesOfPart
    <3> QED BY <3>2 DEF Grouping
  <2> QED BY <2>1
<1>5. Covered(grouping, K) \subseteq R /\ ((\A f \in R : key[f] \in K) => Covered(grouping, K) = R)
  BY DEF Covered
<1>6. Sum(sizes, K) = Sum(Weight, Covered(grouping, K))
  <2> HIDE DEF grouping
  <2> QED BY <1>1, <1>2, <1>3, SumGroups
<1>7. Panels!BytesOf(Covered(grouping, K)) \in Nat /\ Panels!BytesOf(Covered(grouping, K)) <= Panels!BytesOf(R)
  <2> HIDE DEF grouping
  <2>1. Covered(grouping, K) \subseteq R /\ R \subseteq flows
    BY <1>5
  <2> QED BY <2>1, BytesOfPart
<1>8. Sum(sizes, K) = Panels!BytesOf(Covered(grouping, K))
  BY <1>6, BytesAre
<1> HIDE DEF grouping
<1> QED BY <1>4, <1>5, <1>7, <1>8

\* The rows of a page are rows of its window, which are of the table.
LEMMA RowsAre ==
  ASSUME NEW p
  PROVE  Panels!InWindow(p) \subseteq flows /\ Panels!Rows(p) \subseteq Panels!InWindow(p)
BY DEF Panels!InWindow, Panels!Rows

LEMMA TotalsAre ==
  ASSUME TrafficInv, NEW p PROVE Panels!Totals(p) \in Nat /\ Panels!Totals(p) = Panels!BytesOf(Panels!Rows(p))
<1>1. Panels!Rows(p) \subseteq flows
  BY RowsAre
<1> QED BY <1>1, BytesOfPart DEF Panels!Totals

\* Of the rows grouped, the first groups.
LEMMA GroupedWithin ==
  ASSUME TrafficInv, NEW p, NEW key
  PROVE  /\ Panels!Ranked(Groups(Panels!Rows(p), key)) \in Nat
         /\ Panels!Ranked(Groups(Panels!Rows(p), key)) <= Panels!Totals(p)
<1> DEFINE R == Panels!Rows(p)
           K == {key[f] : f \in R}
           sizes == Groups(R, key)
<1>1. R \in SUBSET flows /\ IsFiniteSet(R)
  BY RowsAre, FlowsAre, FS_Subset
<1>2. IsFiniteSet(K)
  BY <1>1, ImageIsFinite
<1>3. DOMAIN sizes = K /\ Grouping(sizes, K, R, key)
  BY DEF Groups, Grouping
<1> HIDE DEF R, K, sizes
<1>4. /\ \A k \in K : sizes[k] \in Nat
      /\ Sum(sizes, K) \in Nat /\ Sum(sizes, K) <= Panels!BytesOf(R)
  BY <1>1, <1>2, <1>3, GroupsWithin
<1>5. Panels!Ranked(sizes) \in Nat /\ Panels!Ranked(sizes) <= Sum(sizes, K)
  BY <1>2, <1>3, <1>4, RankedWithin
<1>6. Panels!Totals(p) = Panels!BytesOf(R) /\ Panels!Totals(p) \in Nat
  BY TotalsAre DEF R
<1> QED BY <1>4, <1>5, <1>6 DEF sizes, R

LEMMA TalkersWithin ==
  ASSUME TrafficInv, NEW p PROVE Panels!Talkers(p) \in Nat /\ Panels!Talkers(p) <= Panels!Totals(p)
<1> DEFINE R == Panels!Rows(p)
           key == [f \in R |-> <<f.flow.src, f.flow.dst>>]
<1>1. {<<f.flow.src, f.flow.dst>> : f \in R} = {key[f] : f \in R}
  OBVIOUS
<1>2. \A k : {f \in R : <<f.flow.src, f.flow.dst>> = k} = {f \in R : key[f] = k}
  OBVIOUS
<1>3. Panels!Talkers(p) = Panels!Ranked(Groups(R, key))
  BY <1>1, <1>2 DEF Panels!Talkers, Panels!Grouped, Groups
<1> HIDE DEF key
<1> QED BY <1>3, GroupedWithin

LEMMA MixWithin ==
  ASSUME TrafficInv, NEW p PROVE Panels!Mix(p) \in Nat /\ Panels!Mix(p) <= Panels!Totals(p)
<1> DEFINE R == Panels!Rows(p)
           key == [f \in R |-> f.flow.service]
<1>1. {f.flow.service : f \in R} = {key[f] : f \in R}
  OBVIOUS
<1>2. \A k : {f \in R : f.flow.service = k} = {f \in R : key[f] = k}
  OBVIOUS
<1>3. Panels!Mix(p) = Panels!Ranked(Groups(R, key))
  BY <1>1, <1>2 DEF Panels!Mix, Panels!Grouped, Groups
<1> HIDE DEF key
<1> QED BY <1>3, GroupedWithin

\* A host counts in both directions: at most twice what there was.
LEMMA HostsWithin ==
  ASSUME TrafficInv, NEW p PROVE Panels!Hosts(p) \in Nat /\ Panels!Hosts(p) <= 2 * Panels!Totals(p)
<1> DEFINE R == Panels!Rows(p)
           src == [f \in R |-> f.flow.src]
           dst == [f \in R |-> f.flow.dst]
           named == {h \in UNION {{f.flow.src, f.flow.dst} : f \in R} : Panels!IsAddress(p.q) => h = p.q}
           out == [h \in named |-> Panels!BytesOf({f \in R : f.flow.src = h})]
           in == [h \in named |-> Panels!BytesOf({f \in R : f.flow.dst = h})]
           moved == [h \in named |-> Panels!BytesOf({f \in R : f.flow.src = h}) + Panels!BytesOf({f \in R : f.flow.dst = h})]
<1>1. R \in SUBSET flows /\ IsFiniteSet(R)
  BY RowsAre, FlowsAre, FS_Subset
<1>2. Panels!Hosts(p) = Panels!Ranked(moved)
  BY DEF Panels!Hosts
<1>3. IsFiniteSet(named)
  <2>1. IsFiniteSet({src[f] : f \in R}) /\ IsFiniteSet({dst[f] : f \in R})
    <3> HIDE DEF src, dst
    <3> QED BY <1>1, ImageIsFinite
  <2>2. named \in SUBSET ({src[f] : f \in R} \cup {dst[f] : f \in R})
    <3>1. ASSUME NEW h \in named PROVE h \in {src[f] : f \in R} \cup {dst[f] : f \in R}
      <4>1. PICK f \in R : h \in {f.flow.src, f.flow.dst}
        OBVIOUS
      <4>2. src[f] = f.flow.src /\ dst[f] = f.flow.dst
        OBVIOUS
      <4> QED BY <4>1, <4>2
    <3> HIDE DEF named
    <3> QED BY <3>1
  <2>3. IsFiniteSet({src[f] : f \in R} \cup {dst[f] : f \in R})
    BY <2>1, FS_Union
  <2> HIDE DEF named, src, dst
  <2> QED BY <2>2, <2>3, FS_Subset
<1>4. \A h \in named : {f \in R : f.flow.src = h} = {f \in R : src[f] = h} /\ {f \in R : f.flow.dst = h} = {f \in R : dst[f] = h}
  OBVIOUS
<1>5. Grouping(out, named, R, src) /\ Grouping(in, named, R, dst)
  BY <1>4 DEF Grouping
<1>6. DOMAIN moved = named /\ \A h \in named : moved[h] = out[h] + in[h]
  OBVIOUS
<1> HIDE DEF R, src, dst, named, out, in, moved
<1>7. (\A h \in named : out[h] \in Nat) /\ Sum(out, named) \in Nat /\ Sum(out, named) <= Panels!BytesOf(R)
  BY <1>1, <1>3, <1>5, GroupsWithin
<1>8. (\A h \in named : in[h] \in Nat) /\ Sum(in, named) \in Nat /\ Sum(in, named) <= Panels!BytesOf(R)
  BY <1>1, <1>3, <1>5, GroupsWithin
<1>9. Sum(moved, named) = Sum(out, named) + Sum(in, named)
  BY <1>3, <1>6, <1>7, <1>8, SumPlus
<1>10. \A h \in named : moved[h] \in Nat
  BY <1>6, <1>7, <1>8
<1>11. Panels!Ranked(moved) \in Nat /\ Panels!Ranked(moved) <= Sum(moved, named)
  BY <1>3, <1>6, <1>10, RankedWithin
<1>12. Panels!Totals(p) = Panels!BytesOf(R) /\ Panels!Totals(p) \in Nat
  BY TotalsAre DEF R
<1> QED BY <1>2, <1>7, <1>8, <1>9, <1>11, <1>12

\* The series leaves no row of the page out, whatever switch it came from.
LEMMA SeriesIsTotals ==
  ASSUME TrafficInv, NEW p PROVE Panels!Series(p) = Panels!Totals(p)
<1> DEFINE R == Panels!Rows(p)
           W == Panels!InWindow(p)
           key == [f \in W |-> f.flow.agent]
           K == Panels!Agents(p)
           sizes == [d \in K |-> Panels!BytesOf({f \in R : f.flow.agent = d})]
<1>1. R \in SUBSET flows /\ R \subseteq W /\ W \in SUBSET flows /\ IsFiniteSet(W)
  BY RowsAre, FlowsAre, FS_Subset
<1>2. K = {key[f] : f \in W}
  BY DEF Panels!Agents
<1>3. Grouping(sizes, K, R, key)
  <2>1. \A d : {f \in R : f.flow.agent = d} = {f \in R : key[f] = d}
    BY <1>1
  <2> QED BY <2>1 DEF Grouping
<1>4. DOMAIN sizes = K /\ Panels!Series(p) = Sum(sizes, K)
  BY DEF Panels!Series, Panels!SumFunction, Sum
<1> HIDE DEF R, W, key, K, sizes
<1>5. IsFiniteSet(K) /\ \A f \in R : key[f] \in K
  BY <1>1, <1>2, ImageIsFinite
<1>6. Sum(sizes, K) = Panels!BytesOf(R)
  BY <1>1, <1>3, <1>5, GroupsWithin
<1> QED BY <1>4, <1>6, TotalsAre DEF R

LEMMA PortsWithin ==
  ASSUME TrafficInv, NEW p, NEW port \in Panels!Ports(p)
  PROVE  /\ port.in \in Nat /\ port.out \in Nat
         /\ port.in <= Panels!PortDetail(p, port) /\ port.out <= Panels!PortDetail(p, port)
<1> DEFINE R == Panels!Rows(p)
           W == Panels!InWindow(p)
<1>1. PICK key : port = [agent |-> key[1], iface |-> key[2], names |-> Panels!Named(key[1], key[2]),
    in  |-> Panels!BytesOf({f \in R : Panels!OnPort(f, key[1], key[2]) /\ f.flow.in = key[2]}),
    out |-> Panels!BytesOf({f \in R : Panels!OnPort(f, key[1], key[2]) /\ f.flow.out = key[2]})]
  BY DEF Panels!Ports
<1> DEFINE ins == {f \in R : Panels!OnPort(f, key[1], key[2]) /\ f.flow.in = key[2]}
           outs == {f \in R : Panels!OnPort(f, key[1], key[2]) /\ f.flow.out = key[2]}
           all == {f \in W : Panels!OnPort(f, key[1], key[2])}
<1>2. port.agent = key[1] /\ port.iface = key[2] /\ port.in = Panels!BytesOf(ins) /\ port.out = Panels!BytesOf(outs)
  BY <1>1
<1>3. Panels!PortDetail(p, port) = Panels!BytesOf(all)
  BY <1>2 DEF Panels!PortDetail
<1>4. R \subseteq W /\ W \subseteq flows
  BY RowsAre
<1>5. ins \subseteq all /\ outs \subseteq all /\ all \subseteq flows
  BY <1>4
<1> HIDE DEF ins, outs, all
<1> QED BY <1>2, <1>3, <1>5, BytesOfPart

\* A row that was capped counted more than the ceiling.
LEMMA CappedWithin ==
  ASSUME TrafficInv, NEW p
  PROVE  Panels!Capped(p) \in Nat /\ (Panels!Capped(p) > 0 => Panels!Totals(p) > Panels!Capped(p) * Ceiling)
<1> DEFINE R == Panels!Rows(p)
           C == {f \in R : f.flow.bytes > Ceiling}
<1>1. C \subseteq R /\ R \subseteq flows /\ C \in SUBSET flows
  BY RowsAre
<1>2. IsFiniteSet(C) /\ Cardinality(C) \in Nat
  BY <1>1, FlowsAre, FS_Subset, FS_CardinalityType
<1>3. Panels!Capped(p) = Cardinality(C)
  BY DEF Panels!Capped, Panels!Cardinality, Cardinality
<1>4. \A f \in C : Weight[f] \in Nat /\ Ceiling + 1 <= Weight[f]
  BY <1>1, FlowsAre, LimitsAre
<1> HIDE DEF R, C
<1>5. Cardinality(C) * (Ceiling + 1) <= Sum(Weight, C)
  <2>1. PICK m \in Nat : m = Ceiling + 1
    BY LimitsAre
  <2>2. Cardinality(C) * m <= Sum(Weight, C)
    BY <1>2, <1>4, <2>1, SumAtLeast
  <2> QED BY <2>1, <2>2
<1>6. Sum(Weight, C) = Panels!BytesOf(C) /\ Panels!BytesOf(C) \in Nat /\ Panels!BytesOf(C) <= Panels!BytesOf(R)
  BY <1>1, BytesAre, BytesOfPart
<1>7. Panels!Totals(p) = Panels!BytesOf(R) /\ Panels!Totals(p) \in Nat
  BY TotalsAre DEF R
<1>8. \A n, c \in Nat : n * (c + 1) = n * c + n /\ n * c \in Nat
  OBVIOUS
<1>9. Cardinality(C) * (Ceiling + 1) = Cardinality(C) * Ceiling + Cardinality(C) /\ Cardinality(C) * Ceiling \in Nat
  BY <1>2, <1>8, LimitsAre
<1> QED BY <1>2, <1>3, <1>5, <1>6, <1>7, <1>9

-----------------------------------------------------------------------------
(* Rows come, and a page keeps the window it resolved.                     *)

LEMMA CountsGrow ==
  ASSUME TrafficInv, TrafficInv', flows \subseteq flows', NEW p
  PROVE  /\ Panels!Totals(p) \in Nat /\ Panels!Totals(p)' \in Nat /\ Panels!Totals(p) <= Panels!Totals(p)'
         /\ \A port : /\ Panels!PortDetail(p, port) \in Nat /\ Panels!PortDetail(p, port)' \in Nat
                      /\ Panels!PortDetail(p, port) <= Panels!PortDetail(p, port)'
<1>1. ASSUME NEW A, NEW B, A \subseteq B, A \subseteq flows, B \subseteq flows'
      PROVE  /\ Panels!BytesOf(A) \in Nat /\ Panels!BytesOf(B)' \in Nat
             /\ Panels!BytesOf(A) <= Panels!BytesOf(B)'
  <2>1. IsFiniteSet(flows') /\ \A f \in flows' : Weight'[f] \in Nat
    <3>1. \A f \in Flows : f.bytes \in Nat
      BY ServicesAssumption DEF Panels!TrafficAssumption
    <3> QED BY <3>1 DEF TrafficInv, FlowsTyped, Weight
  <2>2. IsFiniteSet(A) /\ IsFiniteSet(B) /\ \A f \in A : Weight[f] = Weight'[f]
    <3>1. \A f \in A : Weight[f] = Weight'[f]
      BY <1>1 DEF Weight
    <3> QED BY <1>1, <2>1, <3>1, FlowsAre, FS_Subset
  <2>3. Sum(Weight, A) = Sum(Weight', A)
    BY <2>2, SumSame
  <2>4. Sum(Weight', A) <= Sum(Weight', B) /\ Sum(Weight', A) \in Nat /\ Sum(Weight', B) \in Nat
    <3>1. (\A f \in A : Weight'[f] \in Nat) /\ \A f \in B : Weight'[f] \in Nat
      BY <1>1, <2>1
    <3> QED BY <1>1, <2>2, <3>1, SumSubset, SumNat
  <2>5. Panels!BytesOf(A) = Sum(Weight, A) /\ Panels!BytesOf(B)' = Sum(Weight', B)
    BY DEF Panels!BytesOf, Sum, Weight
  <2> QED BY <2>3, <2>4, <2>5
<1>2. /\ Panels!InWindow(p) \subseteq Panels!InWindow(p)' /\ Panels!InWindow(p) \subseteq flows
      /\ Panels!InWindow(p)' \subseteq flows'
  BY DEF Panels!InWindow
<1>3. Panels!Rows(p) \subseteq Panels!Rows(p)' /\ Panels!Rows(p) \subseteq flows /\ Panels!Rows(p)' \subseteq flows'
  BY <1>2 DEF Panels!Rows
<1>4. Panels!Totals(p) \in Nat /\ Panels!Totals(p)' \in Nat /\ Panels!Totals(p) <= Panels!Totals(p)'
  <2>1. PICK A, B : A = Panels!Rows(p) /\ B = Panels!Rows(p)'
    OBVIOUS
  <2>2. Panels!Totals(p) = Panels!BytesOf(A) /\ Panels!Totals(p)' = Panels!BytesOf(B)'
    BY <2>1 DEF Panels!Totals
  <2> QED BY <1>1, <1>3, <2>1, <2>2
<1>5. ASSUME NEW port
      PROVE  /\ Panels!PortDetail(p, port) \in Nat /\ Panels!PortDetail(p, port)' \in Nat
             /\ Panels!PortDetail(p, port) <= Panels!PortDetail(p, port)'
  <2>1. PICK A, B : /\ A = {f \in Panels!InWindow(p) : Panels!OnPort(f, port.agent, port.iface)}
                    /\ B = {f \in Panels!InWindow(p)' : Panels!OnPort(f, port.agent, port.iface)}
    OBVIOUS
  <2>2. Panels!PortDetail(p, port) = Panels!BytesOf(A) /\ Panels!PortDetail(p, port)' = Panels!BytesOf(B)'
    BY <2>1 DEF Panels!PortDetail
  <2>3. A \subseteq B /\ A \subseteq flows /\ B \subseteq flows'
    BY <1>2, <2>1
  <2> QED BY <1>1, <2>2, <2>3
<1> QED BY <1>4, <1>5

LEMMA SoundStays ==
  ASSUME TrafficInv, TrafficInv', flows \subseteq flows', NEW p, PageSound(p)
  PROVE  PageSound(p)'
<1>1. /\ Panels!Totals(p) \in Nat /\ Panels!Totals(p)' \in Nat /\ Panels!Totals(p) <= Panels!Totals(p)'
      /\ \A port : /\ Panels!PortDetail(p, port) \in Nat /\ Panels!PortDetail(p, port)' \in Nat
                   /\ Panels!PortDetail(p, port) <= Panels!PortDetail(p, port)'
  BY CountsGrow
<1>2. p.capped * Ceiling \in Nat
  <2>1. p.capped \in Nat
    BY DEF PageSound
  <2> QED BY <2>1, LimitsAre
<1> QED BY <1>1, <1>2 DEF PageSound

\* Two pages of one window and one search count the same rows.
SameView(p, new) == new.start = p.start /\ new.end = p.end /\ new.q = p.q /\ new.ifaces = p.ifaces

LEMMA SameCounts ==
  ASSUME NEW p, NEW new, SameView(p, new)
  PROVE  /\ Panels!Totals(new) = Panels!Totals(p)
         /\ \A port : Panels!PortDetail(new, port) = Panels!PortDetail(p, port)
<1>1. Panels!InWindow(new) = Panels!InWindow(p)
  BY DEF SameView, Panels!InWindow
<1>2. \A f : Panels!Matches(f, new) <=> Panels!Matches(f, p)
  BY Zenon DEF SameView, Panels!Matches
<1>3. Panels!Rows(new) = Panels!Rows(p)
  BY <1>1, <1>2 DEF Panels!Rows
<1> QED BY <1>1, <1>3 DEF Panels!Totals, Panels!PortDetail

\* A page that goes on, to its next panel or to its first.
LEMMA PageGoes ==
  ASSUME TrafficInv, PagesSound, NEW r \in Requests, NEW at, NEW new, Panels!Paging(r, at, new), PageSound(new)
  PROVE  PagesSound'
<1>1. page' = [page EXCEPT ![r] = new] /\ flows' = flows
  BY DEF Panels!Paging
<1>2. page = [q \in Requests |-> page[q]]
  BY DEF TrafficInv, PagesTyped
<1>3. ASSUME NEW q \in Requests PROVE PageSound(page'[q])
  BY <1>1, <1>2, <1>3 DEF PagesSound
<1>4. \A p : /\ Panels!Totals(p)' = Panels!Totals(p)
             /\ \A port : Panels!PortDetail(p, port)' = Panels!PortDetail(p, port)
  BY <1>1 DEF Panels!Totals, Panels!PortDetail, Panels!Rows, Panels!InWindow, Panels!BytesOf
<1>5. ASSUME NEW p, PageSound(p) PROVE PageSound(p)'
  BY <1>4, <1>5 DEF PageSound
<1>6. ASSUME NEW q \in Requests PROVE PageSound(page[q])'
  <2>1. PICK p : p = page'[q]
    OBVIOUS
  <2>2. PageSound(p)'
    BY <1>3, <1>5, <2>1
  <2> QED BY <2>1, <2>2 DEF PageSound
<1> QED BY <1>6 DEF PagesSound

LEMMA ShowCappedSound ==
  ASSUME TrafficInv, PagesSound, NEW r \in Requests, Panels!ShowCapped(r) PROVE PagesSound'
<1>1. PageSound(page[r])
  BY DEF PagesSound
<1>2. PICK new : new = [page[r] EXCEPT !.at = "talkers", !.capped = Panels!Capped(page[r])]
  OBVIOUS
<1>3. Panels!Paging(r, "capped", new) /\ page[r].at = "capped"
  BY <1>2 DEF Panels!ShowCapped, Panels!Paging
<1>4. /\ DOMAIN new = Fields /\ new.at = "talkers" /\ new.capped = Panels!Capped(page[r])
      /\ new.talkers = page[r].talkers /\ new.hosts = page[r].hosts
      /\ new.mix = page[r].mix /\ new.ports = page[r].ports /\ new.totals = page[r].totals /\ new.series = page[r].series
      /\ SameView(page[r], new)
  BY <1>1, <1>2 DEF PageSound, Fields, SameView
<1>5. /\ Panels!Totals(new) = Panels!Totals(page[r])
      /\ \A port : Panels!PortDetail(new, port) = Panels!PortDetail(page[r], port)
  BY <1>4, SameCounts
<1>6. new.capped \in Nat /\ (new.capped > 0 => Panels!Totals(new) > new.capped * Ceiling)
  BY <1>4, <1>5, CappedWithin
<1>7. Panels!Totals(new) \in Nat
  BY TotalsAre
<1>8. PageSound(new)
  BY <1>1, <1>3, <1>4, <1>5, <1>6, <1>7 DEF PageSound
<1> QED BY <1>3, <1>8, PageGoes

LEMMA ShowTalkersSound ==
  ASSUME TrafficInv, PagesSound, NEW r \in Requests, Panels!ShowTalkers(r) PROVE PagesSound'
<1>1. PageSound(page[r])
  BY DEF PagesSound
<1>2. PICK new : new = [page[r] EXCEPT !.at = "hosts", !.talkers = Panels!Talkers(page[r])]
  OBVIOUS
<1>3. Panels!Paging(r, "talkers", new) /\ page[r].at = "talkers"
  BY <1>2 DEF Panels!ShowTalkers, Panels!Paging
<1>4. /\ DOMAIN new = Fields /\ new.at = "hosts" /\ new.talkers = Panels!Talkers(page[r])
      /\ new.capped = page[r].capped /\ new.hosts = page[r].hosts
      /\ new.mix = page[r].mix /\ new.ports = page[r].ports /\ new.totals = page[r].totals /\ new.series = page[r].series
      /\ SameView(page[r], new)
  BY <1>1, <1>2 DEF PageSound, Fields, SameView
<1>5. /\ Panels!Totals(new) = Panels!Totals(page[r])
      /\ \A port : Panels!PortDetail(new, port) = Panels!PortDetail(page[r], port)
  BY <1>4, SameCounts
<1>6. new.talkers \in Nat /\ new.talkers <= Panels!Totals(new)
  BY <1>4, <1>5, TalkersWithin
<1>7. Panels!Totals(new) \in Nat
  BY TotalsAre
<1>8. PageSound(new)
  BY <1>1, <1>3, <1>4, <1>5, <1>6, <1>7 DEF PageSound
<1> QED BY <1>3, <1>8, PageGoes

LEMMA ShowHostsSound ==
  ASSUME TrafficInv, PagesSound, NEW r \in Requests, Panels!ShowHosts(r) PROVE PagesSound'
<1>1. PageSound(page[r])
  BY DEF PagesSound
<1>2. PICK new : new = [page[r] EXCEPT !.at = "mix", !.hosts = Panels!Hosts(page[r])]
  OBVIOUS
<1>3. Panels!Paging(r, "hosts", new) /\ page[r].at = "hosts"
  BY <1>2 DEF Panels!ShowHosts, Panels!Paging
<1>4. /\ DOMAIN new = Fields /\ new.at = "mix" /\ new.hosts = Panels!Hosts(page[r])
      /\ new.capped = page[r].capped /\ new.talkers = page[r].talkers
      /\ new.mix = page[r].mix /\ new.ports = page[r].ports /\ new.totals = page[r].totals /\ new.series = page[r].series
      /\ SameView(page[r], new)
  BY <1>1, <1>2 DEF PageSound, Fields, SameView
<1>5. /\ Panels!Totals(new) = Panels!Totals(page[r])
      /\ \A port : Panels!PortDetail(new, port) = Panels!PortDetail(page[r], port)
  BY <1>4, SameCounts
<1>6. new.hosts \in Nat /\ new.hosts <= 2 * Panels!Totals(new)
  BY <1>4, <1>5, HostsWithin
<1>7. Panels!Totals(new) \in Nat
  BY TotalsAre
<1>8. PageSound(new)
  BY <1>1, <1>3, <1>4, <1>5, <1>6, <1>7 DEF PageSound
<1> QED BY <1>3, <1>8, PageGoes

LEMMA ShowMixSound ==
  ASSUME TrafficInv, PagesSound, NEW r \in Requests, Panels!ShowMix(r) PROVE PagesSound'
<1>1. PageSound(page[r])
  BY DEF PagesSound
<1>2. PICK new : new = [page[r] EXCEPT !.at = "ports", !.mix = Panels!Mix(page[r])]
  OBVIOUS
<1>3. Panels!Paging(r, "mix", new) /\ page[r].at = "mix"
  BY <1>2 DEF Panels!ShowMix, Panels!Paging
<1>4. /\ DOMAIN new = Fields /\ new.at = "ports" /\ new.mix = Panels!Mix(page[r])
      /\ new.capped = page[r].capped /\ new.talkers = page[r].talkers /\ new.hosts = page[r].hosts /\ new.ports = page[r].ports /\ new.totals = page[r].totals /\ new.series = page[r].series
      /\ SameView(page[r], new)
  BY <1>1, <1>2 DEF PageSound, Fields, SameView
<1>5. /\ Panels!Totals(new) = Panels!Totals(page[r])
      /\ \A port : Panels!PortDetail(new, port) = Panels!PortDetail(page[r], port)
  BY <1>4, SameCounts
<1>6. new.mix \in Nat /\ new.mix <= Panels!Totals(new)
  BY <1>4, <1>5, MixWithin
<1>7. Panels!Totals(new) \in Nat
  BY TotalsAre
<1>8. PageSound(new)
  BY <1>1, <1>3, <1>4, <1>5, <1>6, <1>7 DEF PageSound
<1> QED BY <1>3, <1>8, PageGoes

LEMMA ShowPortsSound ==
  ASSUME TrafficInv, PagesSound, NEW r \in Requests, Panels!ShowPorts(r) PROVE PagesSound'
<1>1. PageSound(page[r])
  BY DEF PagesSound
<1>2. PICK new : new = [page[r] EXCEPT !.at = "totals", !.ports = Panels!Ports(page[r])]
  OBVIOUS
<1>3. Panels!Paging(r, "ports", new) /\ page[r].at = "ports"
  BY <1>2 DEF Panels!ShowPorts, Panels!Paging
<1>4. /\ DOMAIN new = Fields /\ new.at = "totals" /\ new.ports = Panels!Ports(page[r])
      /\ new.capped = page[r].capped /\ new.talkers = page[r].talkers /\ new.hosts = page[r].hosts
      /\ new.mix = page[r].mix /\ new.totals = page[r].totals /\ new.series = page[r].series
      /\ SameView(page[r], new)
  BY <1>1, <1>2 DEF PageSound, Fields, SameView
<1>5. /\ Panels!Totals(new) = Panels!Totals(page[r])
      /\ \A port : Panels!PortDetail(new, port) = Panels!PortDetail(page[r], port)
  BY <1>4, SameCounts
<1>6. \A port \in new.ports : /\ port.in \in Nat /\ port.out \in Nat
                                /\ port.in <= Panels!PortDetail(new, port) /\ port.out <= Panels!PortDetail(new, port)
  BY <1>4, <1>5, PortsWithin
<1>7. Panels!Totals(new) \in Nat
  BY TotalsAre
<1>8. PageSound(new)
  BY <1>1, <1>3, <1>4, <1>5, <1>6, <1>7 DEF PageSound
<1> QED BY <1>3, <1>8, PageGoes

LEMMA ShowTotalsSound ==
  ASSUME TrafficInv, PagesSound, NEW r \in Requests, Panels!ShowTotals(r) PROVE PagesSound'
<1>1. PageSound(page[r])
  BY DEF PagesSound
<1>2. PICK new : new = [page[r] EXCEPT !.at = "series", !.totals = Panels!Totals(page[r])]
  OBVIOUS
<1>3. Panels!Paging(r, "totals", new) /\ page[r].at = "totals"
  BY <1>2 DEF Panels!ShowTotals, Panels!Paging
<1>4. /\ DOMAIN new = Fields /\ new.at = "series" /\ new.totals = Panels!Totals(page[r])
      /\ new.capped = page[r].capped /\ new.talkers = page[r].talkers /\ new.hosts = page[r].hosts
      /\ new.mix = page[r].mix /\ new.ports = page[r].ports /\ new.series = page[r].series
      /\ SameView(page[r], new)
  BY <1>1, <1>2 DEF PageSound, Fields, SameView
<1>5. /\ Panels!Totals(new) = Panels!Totals(page[r])
      /\ \A port : Panels!PortDetail(new, port) = Panels!PortDetail(page[r], port)
  BY <1>4, SameCounts
<1>6. new.totals \in Nat /\ new.totals = Panels!Totals(new)
  BY <1>4, <1>5, TotalsAre
<1>7. Panels!Totals(new) \in Nat
  BY TotalsAre
<1>8. PageSound(new)
  BY <1>1, <1>3, <1>4, <1>5, <1>6, <1>7 DEF PageSound
<1> QED BY <1>3, <1>8, PageGoes

LEMMA ShowSeriesSound ==
  ASSUME TrafficInv, PagesSound, NEW r \in Requests, Panels!ShowSeries(r) PROVE PagesSound'
<1>1. PageSound(page[r])
  BY DEF PagesSound
<1>2. PICK new : new = [page[r] EXCEPT !.at = "shown", !.series = Panels!Series(page[r])]
  OBVIOUS
<1>3. Panels!Paging(r, "series", new) /\ page[r].at = "series"
  BY <1>2 DEF Panels!ShowSeries, Panels!Paging
<1>4. /\ DOMAIN new = Fields /\ new.at = "shown" /\ new.series = Panels!Series(page[r])
      /\ new.capped = page[r].capped /\ new.talkers = page[r].talkers /\ new.hosts = page[r].hosts
      /\ new.mix = page[r].mix /\ new.ports = page[r].ports /\ new.totals = page[r].totals
      /\ SameView(page[r], new)
  BY <1>1, <1>2 DEF PageSound, Fields, SameView
<1>5. /\ Panels!Totals(new) = Panels!Totals(page[r])
      /\ \A port : Panels!PortDetail(new, port) = Panels!PortDetail(page[r], port)
  BY <1>4, SameCounts
<1>6. new.series \in Nat /\ new.series = Panels!Totals(new)
  BY <1>4, <1>5, SeriesIsTotals, TotalsAre
<1>7. Panels!Totals(new) \in Nat
  BY TotalsAre
<1>8. PageSound(new)
  BY <1>1, <1>3, <1>4, <1>5, <1>6, <1>7 DEF PageSound
<1> QED BY <1>3, <1>8, PageGoes

LEMMA DrillSound ==
  ASSUME TrafficInv, PagesSound, NEW r \in Requests, Panels!Drill(r) PROVE PagesSound'
<1>1. PageSound(page[r])
  BY DEF PagesSound
<1>2. PICK port \in page[r].ports :
        Panels!Paging(r, "shown", [page[r] EXCEPT !.at = "drilled", !.ports = {port},
                                                  !.detail = Panels!PortDetail(page[r], port)])
  BY DEF Panels!Drill
<1>3. PICK new : new = [page[r] EXCEPT !.at = "drilled", !.ports = {port}, !.detail = Panels!PortDetail(page[r], port)]
  OBVIOUS
<1>4. Panels!Paging(r, "shown", new) /\ page[r].at = "shown"
  BY <1>2, <1>3 DEF Panels!Paging
<1>5. /\ DOMAIN new = Fields /\ new.at = "drilled" /\ new.ports = {port}
      /\ new.detail = Panels!PortDetail(page[r], port)
      /\ new.capped = page[r].capped /\ new.talkers = page[r].talkers /\ new.hosts = page[r].hosts
      /\ new.mix = page[r].mix /\ new.totals = page[r].totals /\ new.series = page[r].series
  BY <1>1, <1>3 DEF PageSound, Fields
<1>6. port.in \in Nat /\ port.out \in Nat /\ port.in <= new.detail /\ port.out <= new.detail
  BY <1>1, <1>2, <1>4, <1>5 DEF PageSound
<1>7. PageSound(new)
  BY <1>1, <1>5, <1>6 DEF PageSound
<1> QED BY <1>4, <1>7, PageGoes

\* Until its first panel is asked for a page shows nothing.
Shown(p) == <<p.capped, p.talkers, p.hosts, p.mix, p.ports, p.totals, p.series>>

LEMMA EarlySound ==
  ASSUME NEW p, PageSound(p), NEW new, DOMAIN new = Fields, Shown(new) = Shown(p),
         new.at \in {"new", "clear", "load", "fill", "search", "capped"}
  PROVE  PageSound(new)
BY DEF PageSound, Shown

LEMMA UnaskedIsSound == PageSound(Panels!Unasked)
BY DEF PageSound, Panels!Unasked, Fields

\* The steps before the first panel.
LEMMA OpensSound ==
  ASSUME TrafficInv, PagesSound, NEW r \in Requests,
         Panels!Open(r) \/ Panels!Clear(r) \/ Panels!Load(r) \/ Panels!Fill(r) \/ Panels!Search(r)
  PROVE  PagesSound'
<1>1. PageSound(page[r]) /\ DOMAIN page[r] = Fields
  BY DEF PagesSound, PageSound
<1>2. ASSUME NEW at, NEW new, Panels!Paging(r, at, new), DOMAIN new = Fields, Shown(new) = Shown(page[r]),
             new.at \in {"new", "clear", "load", "fill", "search", "capped"}
      PROVE  PagesSound'
  <2>1. PageSound(new)
    BY <1>1, <1>2, EarlySound
  <2> QED BY <1>2, <2>1, PageGoes
<1>3. CASE Panels!Open(r)
  <2>1. PICK q \in Searches, w \in {[start |-> clock - Minutes, end |-> clock]} \cup Ranges :
          Panels!Paging(r, "new", [Panels!Unasked EXCEPT !.at = "clear", !.start = Panels!Clamped(w), !.end = w.end, !.q = q])
    BY <1>3 DEF Panels!Open
  <2>2. PICK new : new = [Panels!Unasked EXCEPT !.at = "clear", !.start = Panels!Clamped(w), !.end = w.end, !.q = q]
    OBVIOUS
  <2>3. DOMAIN new = Fields /\ Shown(new) = Shown(Panels!Unasked) /\ new.at = "clear"
    BY <2>2 DEF Panels!Unasked, Fields, Shown
  <2>4. PageSound(new)
    BY <2>3, UnaskedIsSound, EarlySound
  <2> QED BY <2>1, <2>2, <2>4, PageGoes
<1>4. CASE Panels!Clear(r)
  <2>1. PICK new : new = [page[r] EXCEPT !.at = "load"]
    OBVIOUS
  <2>2. DOMAIN new = Fields /\ Shown(new) = Shown(page[r]) /\ new.at = "load"
    BY <1>1, <2>1 DEF Fields, Shown
  <2>3. Panels!Paging(r, "clear", new)
    BY <1>4, <2>1 DEF Panels!Clear
  <2> QED BY <1>2, <2>2, <2>3
<1>5. CASE Panels!Load(r)
  <2>1. PICK new : new = [page[r] EXCEPT !.at = "fill", !.loaded = table]
    OBVIOUS
  <2>2. DOMAIN new = Fields /\ Shown(new) = Shown(page[r]) /\ new.at = "fill"
    BY <1>1, <2>1 DEF Fields, Shown
  <2>3. Panels!Paging(r, "load", new)
    BY <1>5, <2>1 DEF Panels!Load
  <2> QED BY <1>2, <2>2, <2>3
<1>6. CASE Panels!Fill(r)
  <2>1. PICK new : new = [page[r] EXCEPT !.at = "search"]
    OBVIOUS
  <2>2. DOMAIN new = Fields /\ Shown(new) = Shown(page[r]) /\ new.at = "search"
    BY <1>1, <2>1 DEF Fields, Shown
  <2>3. Panels!Paging(r, "fill", new)
    BY <1>6, <2>1 DEF Panels!Fill
  <2> QED BY <1>2, <2>2, <2>3
<1>7. CASE Panels!Search(r)
  <2>1. PICK new : new = [page[r] EXCEPT !.at = "capped", !.ifaces = Panels!Found(page[r].q), !.loaded = {}]
    OBVIOUS
  <2>2. DOMAIN new = Fields /\ Shown(new) = Shown(page[r]) /\ new.at = "capped"
    BY <1>1, <2>1 DEF Fields, Shown
  <2>3. Panels!Paging(r, "search", new)
    BY <1>7, <2>1 DEF Panels!Search
  <2> QED BY <1>2, <2>2, <2>3
<1> QED BY <1>3, <1>4, <1>5, <1>6, <1>7

\* Whatever is not a step of a page leaves the pages alone and takes no row away.
LEMMA WorldKeepsPages ==
  ASSUME Panels!Tick \/ Panels!Land \/ Panels!Recabled \/ Panels!RefreshStep \/ UNCHANGED Panels!trafficVars
  PROVE  page' = page /\ flows \subseteq flows'
<1>1. Panels!Tick \/ Panels!Recabled \/ UNCHANGED Panels!trafficVars => page' = page /\ flows' = flows
  BY DEF Panels!Tick, Panels!Recabled, Panels!trafficVars
<1>2. Panels!Land => page' = page /\ flows \subseteq flows'
  BY DEF Panels!Land
<1>3. Panels!RefreshStep => page' = page /\ flows' = flows
  BY DEF Panels!RefreshStep, Panels!Wake, Panels!Discover, Panels!DeleteMap, Panels!InsertRow, Panels!SaveFails,
         Panels!NextDevice, Panels!Sleep, Panels!Refreshing
<1> QED BY <1>1, <1>2, <1>3

LEMMA PagesHold ==
  ASSUME TrafficInv, TrafficInv', PagesSound, [Panels!Next]_(Panels!trafficVars) PROVE PagesSound'
<1>1. CASE page' = page /\ flows \subseteq flows'
  <2>1. ASSUME NEW r \in Requests PROVE PageSound(page[r])'
    <3>1. PICK p : p = page[r]
      OBVIOUS
    <3>2. PageSound(p)
      BY <3>1 DEF PagesSound
    <3>3. PageSound(p)'
      BY <1>1, <3>2, SoundStays
    <3>4. page'[r] = p
      BY <1>1, <3>1
    <3> QED BY <3>3, <3>4 DEF PageSound
  <2> QED BY <2>1 DEF PagesSound
<1>2. CASE \E r \in Requests : Panels!PageStep(r)
  BY <1>2, OpensSound, ShowCappedSound, ShowTalkersSound, ShowHostsSound, ShowMixSound, ShowPortsSound,
     ShowTotalsSound, ShowSeriesSound, DrillSound DEF Panels!PageStep
<1> QED BY <1>1, <1>2, WorldKeepsPages DEF Panels!Next

LEMMA PagesInit == ASSUME Panels!Init PROVE PagesSound
<1>1. \A r \in Requests : page[r] = Panels!Unasked
  BY DEF Panels!Init
<1> QED BY <1>1, UnaskedIsSound DEF PagesSound, PageSound

LEMMA PagesAgree == ASSUME PagesSound PROVE Panels!PanelsAgree
BY DEF PagesSound, PageSound, Panels!PanelsAgree

LEMMA PagesInvariant == Panels!Init /\ [][Panels!Next]_(Panels!trafficVars) => []PagesSound
<1>1. Panels!Init => PagesSound
  BY PagesInit
<1>2. TrafficInv /\ TrafficInv' /\ PagesSound /\ [Panels!Next]_(Panels!trafficVars) => PagesSound'
  BY PagesHold
<1> QED BY <1>1, <1>2, TrafficInvariant, PTL

\* The panels of one page count one window: what a later query counts, an earlier one had
\* not counted more of, however many rows land between the queries and whatever window,
\* search and limit there are; and a port a page shows is not more than its drill-down.
THEOREM PanelsOfAPageAgree == Panels!Spec => []Panels!PanelsAgree
<1>1. PagesSound => Panels!PanelsAgree
  BY PagesAgree
<1> QED BY <1>1, PagesInvariant, PTL DEF Panels!Spec

-------------------------------------------------------------------------------
(* The eight parts side by side.  A step of the whole is a step of one     *)
(* part and leaves the variables of the others alone, so that a behaviour  *)
(* of the whole is, seen through the variables of a part, one of it.       *)

LEMMA ExporterRuns == ServicesSpec => Exporting!Init /\ [][Exporting!Next]_(Exporting!vars)
<1>1. ServicesInit => Exporting!Init
  BY DEF ServicesInit
<1>2. [ServicesNext]_servicesVars => [Exporting!Next]_(Exporting!vars)
  <2>1. ExporterStep => Exporting!Next
    BY DEF ExporterStep
  <2>2. UNCHANGED exporterVars => UNCHANGED Exporting!vars
    BY DEF exporterVars, Exporting!vars
  <2>3. ServicesNext => ExporterStep \/ UNCHANGED exporterVars
    BY DEF ServicesNext, HouseStep, SshStep, AccessStep, ConfigurationStep, DnsStep, TrafficStep, BusStep
  <2>4. UNCHANGED servicesVars => UNCHANGED exporterVars
    BY DEF servicesVars
  <2> QED BY <2>1, <2>2, <2>3, <2>4
<1> QED BY <1>1, <1>2, PTL DEF ServicesSpec

LEMMA AccessRuns == ServicesSpec => Auth!Init /\ [][Auth!Next]_(Auth!accessVars)
<1>1. ServicesInit => Auth!Init
  BY DEF ServicesInit
<1>2. [ServicesNext]_servicesVars => [Auth!Next]_(Auth!accessVars)
  <2>1. AccessStep => Auth!Next
    BY DEF AccessStep
  <2>2. UNCHANGED authVars => UNCHANGED Auth!accessVars
    BY DEF authVars, Auth!accessVars
  <2>3. ServicesNext => AccessStep \/ UNCHANGED authVars
    BY DEF ServicesNext, HouseStep, SshStep, ExporterStep, ConfigurationStep, DnsStep, TrafficStep, BusStep
  <2>4. UNCHANGED servicesVars => UNCHANGED authVars
    BY DEF servicesVars
  <2> QED BY <2>1, <2>2, <2>3, <2>4
<1> QED BY <1>1, <1>2, PTL DEF ServicesSpec

LEMMA ConfigurationRuns == ServicesSpec => Config!Init /\ [][Config!Next]_(Config!settingsVars)
<1>1. ServicesInit => Config!Init
  BY DEF ServicesInit
<1>2. [ServicesNext]_servicesVars => [Config!Next]_(Config!settingsVars)
  <2>1. ConfigurationStep => Config!Next
    BY DEF ConfigurationStep
  <2>2. UNCHANGED configVars => UNCHANGED Config!settingsVars
    BY DEF configVars, Config!settingsVars
  <2>3. ServicesNext => ConfigurationStep \/ UNCHANGED configVars
    BY DEF ServicesNext, HouseStep, SshStep, ExporterStep, AccessStep, DnsStep, TrafficStep, BusStep
  <2>4. UNCHANGED servicesVars => UNCHANGED configVars
    BY DEF servicesVars
  <2> QED BY <2>1, <2>2, <2>3, <2>4
<1> QED BY <1>1, <1>2, PTL DEF ServicesSpec

LEMMA SshRuns == ServicesSpec => Ssh!Init /\ [][Ssh!Next]_(Ssh!switchVars)
<1>1. ServicesInit => Ssh!Init
  BY DEF ServicesInit
<1>2. [ServicesNext]_servicesVars => [Ssh!Next]_(Ssh!switchVars)
  <2>1. SshStep => Ssh!Next
    BY DEF SshStep
  <2>2. UNCHANGED sshVars => UNCHANGED Ssh!switchVars
    BY DEF sshVars, Ssh!switchVars
  <2>3. ServicesNext => SshStep \/ UNCHANGED sshVars
    BY DEF ServicesNext, HouseStep, ExporterStep, AccessStep, ConfigurationStep, DnsStep, TrafficStep, BusStep
  <2>4. UNCHANGED servicesVars => UNCHANGED sshVars
    BY DEF servicesVars
  <2> QED BY <2>1, <2>2, <2>3, <2>4
<1> QED BY <1>1, <1>2, PTL DEF ServicesSpec

LEMMA HouseRuns == ServicesSpec => House!Init /\ [][House!Next]_(House!houseVars)
<1>1. ServicesInit => House!Init
  BY DEF ServicesInit
<1>2. [ServicesNext]_servicesVars => [House!Next]_(House!houseVars)
  <2>1. HouseStep => House!Next
    BY DEF HouseStep
  <2>2. UNCHANGED houseVars => UNCHANGED House!houseVars
    BY DEF houseVars, House!houseVars
  <2>3. ServicesNext => HouseStep \/ UNCHANGED houseVars
    BY DEF ServicesNext, SshStep, ExporterStep, AccessStep, ConfigurationStep, DnsStep, TrafficStep, BusStep
  <2>4. UNCHANGED servicesVars => UNCHANGED houseVars
    BY DEF servicesVars
  <2> QED BY <2>1, <2>2, <2>3, <2>4
<1> QED BY <1>1, <1>2, PTL DEF ServicesSpec

LEMMA DnsRuns == ServicesSpec => Dns!Init /\ [][Dns!Next]_(Dns!dnsVars)
<1>1. ServicesInit => Dns!Init
  BY DEF ServicesInit
<1>2. [ServicesNext]_servicesVars => [Dns!Next]_(Dns!dnsVars)
  <2>1. DnsStep => Dns!Next
    BY DEF DnsStep
  <2>2. UNCHANGED dnsVars => UNCHANGED Dns!dnsVars
    BY DEF dnsVars, Dns!dnsVars
  <2>3. ServicesNext => DnsStep \/ UNCHANGED dnsVars
    BY DEF ServicesNext, HouseStep, SshStep, ExporterStep, AccessStep, ConfigurationStep, TrafficStep, BusStep
  <2>4. UNCHANGED servicesVars => UNCHANGED dnsVars
    BY DEF servicesVars
  <2> QED BY <2>1, <2>2, <2>3, <2>4
<1> QED BY <1>1, <1>2, PTL DEF ServicesSpec

LEMMA BusRuns == ServicesSpec => Bus!Init /\ [][Bus!Next]_(Bus!vars)
<1>1. ServicesInit => Bus!Init
  BY DEF ServicesInit
<1>2. [ServicesNext]_servicesVars => [Bus!Next]_(Bus!vars)
  <2>1. BusStep => Bus!Next
    BY DEF BusStep
  <2>2. UNCHANGED busVars => UNCHANGED Bus!vars
    BY DEF busVars, Bus!vars, Bus!emitters, Bus!busWires, Bus!busRows
  <2>3. ServicesNext => BusStep \/ UNCHANGED busVars
    BY DEF ServicesNext, HouseStep, SshStep, ExporterStep, AccessStep, ConfigurationStep, DnsStep, TrafficStep
  <2>4. UNCHANGED servicesVars => UNCHANGED busVars
    BY DEF servicesVars
  <2> QED BY <2>1, <2>2, <2>3, <2>4
<1> QED BY <1>1, <1>2, PTL DEF ServicesSpec

LEMMA TrafficRuns == ServicesSpec => Panels!Init /\ [][Panels!Next]_(Panels!trafficVars)
<1>1. ServicesInit => Panels!Init
  BY DEF ServicesInit
<1>2. [ServicesNext]_servicesVars => [Panels!Next]_(Panels!trafficVars)
  <2>1. TrafficStep => Panels!Next
    BY DEF TrafficStep
  <2>2. UNCHANGED trafficVars => UNCHANGED Panels!trafficVars
    BY DEF trafficVars, Panels!trafficVars
  <2>3. ServicesNext => TrafficStep \/ UNCHANGED trafficVars
    BY DEF ServicesNext, HouseStep, SshStep, ExporterStep, AccessStep, ConfigurationStep, DnsStep, BusStep
  <2>4. UNCHANGED servicesVars => UNCHANGED trafficVars
    BY DEF servicesVars
  <2> QED BY <2>1, <2>2, <2>3, <2>4
<1> QED BY <1>1, <1>2, PTL DEF ServicesSpec

\* In whatever order the parts move, every loop of the exporter that was not told to stop is
\* the one main() still has for its device.
THEOREM LoopsAreKnown == ServicesSpec => []NoLoopIsLost
<1>1. ServicesSpec => []EInv
  BY ExporterRuns, ExporterInvariant, ServicesAssumption, PTL
<1>2. EInv => NoLoopIsLost
  BY DEF EInv, NoLoopIsLost
<1> QED BY <1>1, <1>2, PTL

\* A session that Keycloak has told this process is over, or a revoked token, lets nobody in.
THEOREM EndedIsOut == ServicesSpec => []EndedStaysOut
<1>1. ServicesSpec => []AInv
  BY AccessRuns, AccessInvariant, ServicesAssumption, PTL
<1>2. AInv => EndedStaysOut
  BY EndedImplied, ServicesAssumption DEF EndedStaysOut
<1> QED BY <1>1, <1>2, PTL

\* The first-run setup stays closed, and the settings file whole, while requests do not crowd.
THEOREM SetupIsClosed == ServicesSpec => []SetupStaysClosed
<1>1. ServicesSpec => []ConfigInv
  BY ConfigurationRuns, ConfigInvariant, ServicesAssumption, PTL
<1>2. ConfigInv => SetupStaysClosed
  BY SetupImplied DEF SetupStaysClosed
<1> QED BY <1>1, <1>2, PTL

\* run() returns what the device said to this very command, while no read is ended by the clock.
THEOREM AnswersAreTheCommands == ServicesSpec => []AnswersItsCommand
<1>1. ServicesSpec => []SshInv
  BY SshRuns, SshInvariant, ServicesAssumption, PTL
<1>2. SshInv => AnswersItsCommand
  BY AnswersImplied DEF AnswersItsCommand
<1> QED BY <1>1, <1>2, PTL

\* An address that is noted as being looked up is being looked up, once.
THEOREM LookupsAreUnderWay == ServicesSpec => []InFlightIsLookedUp
<1>1. ServicesSpec => []DnsInv
  BY DnsRuns, DnsInvariant, ServicesAssumption, PTL
<1>2. DnsInv => InFlightIsLookedUp
  BY InFlightImplied DEF InFlightIsLookedUp
<1> QED BY <1>1, <1>2, PTL

\* Results somebody saved and events that are open go only by somebody's hand.
THEOREM RowsAreKept == ServicesSpec => KeepsStay
<1>1. House!Init /\ [][House!Next]_(House!houseVars) => House!KeepsStay
  BY HouseKeeps, ServicesAssumption
<1> QED BY <1>1, HouseRuns DEF KeepsStay

\* The panels of one page agree, whatever lands in its window while it is being built.
THEOREM PanelsAlwaysAgree == ServicesSpec => []PanelsAgree
<1>1. ServicesSpec => []PagesSound
  BY TrafficRuns, PagesInvariant, PTL
<1>2. PagesSound => PanelsAgree
  BY PagesAgree DEF PanelsAgree
<1> QED BY <1>1, <1>2, PTL

\* A receiver hears of the envelopes in the order they were put on the queue while no two
\* emitters raced to make the worker, and hears again of none it acknowledged while no two
\* requests wired the bus at once: for any number of emitters, receivers and saves.
THEOREM EnvelopesInOrder == ServicesSpec => []HeardInOrder
<1>1. ServicesSpec => []BusInv
  BY BusRuns, BusInvariant, PTL
<1>2. BusInv => HeardInOrder
  BY DEF BusInv, HeardInOrder
<1> QED BY <1>1, <1>2, PTL

\* Every variable of every part has the values its module says, for all constants the parts
\* assume: the queues keep to their bounds, and of an index of a switch there is one name.
THEOREM ServicesTyped == ServicesSpec => []TypesOK
<1>1. ServicesSpec => [](EInv /\ AInv /\ DnsInv /\ NamesInv /\ ConfigInv)
  BY ExporterRuns, ExporterInvariant, AccessRuns, AccessInvariant, DnsRuns, DnsInvariant, NamesInvariant,
     ConfigurationRuns, ConfigInvariant, ServicesAssumption, PTL
<1>2. ServicesSpec => [](SshInv /\ HouseTypes /\ TrafficInv /\ BusInv)
  BY SshRuns, SshInvariant, HouseRuns, HouseInvariant, TrafficRuns, TrafficInvariant, BusRuns, BusInvariant,
     ServicesAssumption, PTL
<1>3. EInv /\ AInv /\ DnsInv /\ NamesInv /\ ConfigInv => Exporting!TypeOK /\ Auth!TypeOK /\ Dns!TypeOK /\ Config!TypeOK
  BY TypesImplied, AccessTypesImplied, DnsTypesImplied, ConfigTypesImplied
<1>4. SshInv /\ HouseTypes /\ TrafficInv /\ BusInv => Ssh!TypeOK /\ House!TypeOK /\ Panels!TypeOK /\ Bus!TypeOK
  BY SshTypesImplied, HouseTypesImplied, TrafficTypesImplied, ServicesAssumption DEF BusInv
<1>5. /\ Exporting!TypeOK /\ Auth!TypeOK /\ Dns!TypeOK /\ Config!TypeOK
      /\ Ssh!TypeOK /\ House!TypeOK /\ Panels!TypeOK /\ Bus!TypeOK
      => TypesOK
  BY DEF TypesOK
<1> QED BY <1>1, <1>2, <1>3, <1>4, <1>5, PTL
===============================================================================
