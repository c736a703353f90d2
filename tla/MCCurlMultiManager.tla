------------------------- MODULE MCCurlMultiManager -------------------------
(* Small instances of CurlMultiManager for TLC. *)
EXTENDS CurlMultiManager, TLC

\* Requests are interchangeable, so are addresses and outcomes.  Not used for
\* liveness.
Symmetry == Permutations(Requests) \cup Permutations(Easy) \cup Permutations(Outcomes)
=============================================================================
