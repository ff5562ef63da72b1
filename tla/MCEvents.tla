-------------------------------- MODULE MCEvents --------------------------------
(***************************************************************************)
(* Instances of Events for TLC.                                            *)
(***************************************************************************)
EXTENDS Events, TLC

\* Callers, which stand for the calls of the detector too, run the same code.
Interchangeable == Permutations(Callers)
=================================================================================
