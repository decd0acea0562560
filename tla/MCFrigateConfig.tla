--------------------------- MODULE MCFrigateConfig ---------------------------
(* FrigateConfig on small sets of requests, cameras and readers.            *)
EXTENDS FrigateConfig, TLC

\* Requests and readers are interchangeable; only for runs without liveness.
Symmetry == Permutations(Requests) \cup Permutations(Readers)
=============================================================================
