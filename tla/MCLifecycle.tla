---------------------------- MODULE MCLifecycle -----------------------------
(***************************************************************************)
(* TLC instances of Lifecycle.                                             *)
(***************************************************************************)
EXTENDS Lifecycle, TLC

\* Socket objects are interchangeable.
Symmetry == Permutations(Sockets)
=============================================================================
