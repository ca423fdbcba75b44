--------------------------- MODULE MCReplayGuard ----------------------------
(***************************************************************************)
(* TLC instances of ReplayGuard.                                           *)
(***************************************************************************)
EXTENDS ReplayGuard, TLC

\* Proofs are interchangeable.
Symmetry == Permutations(Proofs)
=============================================================================
