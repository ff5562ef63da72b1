----------------------------- MODULE MCEventStore -----------------------------
(* Instances of EventStore for TLC.                                        *)
EXTENDS EventStore, TLC

\* Callers run the same code and signatures are never compared by order.
Interchangeable == Permutations(Callers) \cup Permutations(Signatures)
=============================================================================
