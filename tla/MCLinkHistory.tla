----------------------------- MODULE MCLinkHistory -----------------------------
(* An instance of LinkHistory for TLC.                                     *)
EXTENDS LinkHistory, TLC

\* Polls run the same code, whichever thread they run on.
Interchangeable == Permutations(Pollers)
=============================================================================
