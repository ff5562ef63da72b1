------------------------------- MODULE MCConsoles -------------------------------
(***************************************************************************)
(* The registry of the consoles, and the scheduler with the retention      *)
(* loop.  They share no state, so `part` chooses the one that moves; the   *)
(* other rests in its initial state.                                       *)
(***************************************************************************)
EXTENDS BastionRegistry

VARIABLES
  part,
  connected, known, schedule, loop, person, ages, pruner, faults, edits

\* One schedule, and one policy per kind of row, of which the first raises every time.
House == INSTANCE Housekeeping WITH
  Schedules <- {"s1"}, Intervals <- {1, 2}, Broken <- {1}, Day <- 2, MaxAge <- 1, MaxFaults <- 1, MaxEdits <- 2,
  Policies <- <<[kind |-> "samples", keep |-> 1], [kind |-> "resolved", keep |-> 1], [kind |-> "auto", keep |-> 1]>>,
  up <- connected

houseVars == <<connected, known, schedule, loop, person, ages, pruner, faults, edits>>
consolesVars == <<part, vars, houseVars>>

In(p) == part = p

ConsolesInit == part \in {"registry", "house"} /\ Init /\ House!Init

RegistryStep == In("registry") /\ Next /\ UNCHANGED <<part, houseVars>>
HouseStep == In("house") /\ House!Next /\ UNCHANGED <<part, vars>>
ConsolesNext == RegistryStep \/ HouseStep

\* What each module assumes of its part, while that part is the one that moves.
ConsolesFairness ==
  /\ \A s \in Sessions : /\ WF_vars(In("registry") /\ Handler(s)) /\ WF_vars(In("registry") /\ Reader(s))
                         /\ WF_vars(In("registry") /\ Finish(s, "admin"))
  /\ WF_houseVars(In("house") /\ House!Connect) /\ WF_houseVars(In("house") /\ House!Tick)
  /\ SF_houseVars(In("house") /\ House!LookUpDue) /\ SF_houseVars(In("house") /\ House!MarkDue)
  /\ SF_houseVars(In("house") /\ House!RunDue("s1"))

ConsolesSpec == ConsolesInit /\ [][ConsolesNext]_consolesVars /\ ConsolesFairness

-----------------------------------------------------------------------------
(* The property of the schedules; it is explained where it is defined.     *)

\* Housekeeping: a schedule that is due is run and put off.
DueIsServed == House!DueIsServed
=============================================================================
