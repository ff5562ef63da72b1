---------------------------- MODULE EventEpisodes ----------------------------
(***************************************************************************)
(* What the event store promises its users, with the database left out.    *)
(*                                                                         *)
(* Per signature (kind + device + subject) there is at most one episode    *)
(* going on.  An episode that starts or ends is a transition, and the      *)
(* caller that drove the transition owes the outside world exactly one     *)
(* notice of it ("Hooks fire exactly once per transition",                 *)
(* eventstore.py).  Reports that change nothing owe nothing.               *)
(***************************************************************************)
EXTENDS Naturals, FiniteSets

CONSTANTS
  Signatures,  \* the faults that can be reported
  Callers,     \* threads that use the store
  NoNotice     \* "this caller owes nothing"

News == {"raised", "resolved"}
Notices == [sig : Signatures, news : News]

VARIABLES
  open,  \* the signatures whose episode is going on
  owed,  \* per caller, the notice it has still to give
  sent   \* per signature, how many notices of each kind were given

vars == <<open, owed, sent>>

TypeOK ==
  /\ open \subseteq Signatures
  /\ owed \in [Callers -> Notices \cup {NoNotice}]
  /\ sent \in [Signatures -> [News -> Nat]]

Init ==
  /\ open = {}
  /\ owed = [c \in Callers |-> NoNotice]
  /\ sent = [s \in Signatures |-> [n \in News |-> 0]]

-----------------------------------------------------------------------------

Owe(c, s, n) ==
  /\ owed[c] = NoNotice
  /\ owed' = [owed EXCEPT ![c] = [sig |-> s, news |-> n]]
  /\ UNCHANGED sent

\* An episode starts, or the one that just ended comes back.
Begin(c, s) ==
  /\ s \notin open
  /\ open' = open \cup {s}
  /\ Owe(c, s, "raised")

\* The episode is over.
End(c, s) ==
  /\ s \in open
  /\ open' = open \ {s}
  /\ Owe(c, s, "resolved")

\* The caller gives the notice it owes.
Tell(c) ==
  /\ owed[c] # NoNotice
  /\ sent' = [sent EXCEPT ![owed[c].sig][owed[c].news] = @ + 1]
  /\ owed' = [owed EXCEPT ![c] = NoNotice]
  /\ UNCHANGED open

Next ==
  \E c \in Callers :
    \/ \E s \in Signatures : Begin(c, s) \/ End(c, s)
    \/ Tell(c)

Spec == Init /\ [][Next]_vars

-----------------------------------------------------------------------------

\* The callers that still owe a notice of kind n about s.
Owing(s, n) == {c \in Callers : owed[c] = [sig |-> s, news |-> n]}

\* Every start and every end of an episode has been told once or is owed by
\* exactly one caller: starts and ends balance, except for the episode that
\* is still going on.
NoticesBalance ==
  \A s \in Signatures :
    sent[s]["raised"] + Cardinality(Owing(s, "raised"))
      = sent[s]["resolved"] + Cardinality(Owing(s, "resolved"))
        + (IF s \in open THEN 1 ELSE 0)
=============================================================================
