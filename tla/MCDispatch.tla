---------------------------- MODULE MCDispatch ----------------------------
(***************************************************************************)
(* Dispatch for TLC: one call of each sort.                                *)
(***************************************************************************)
EXTENDS Dispatch
=============================================================================
