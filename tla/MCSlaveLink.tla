---------------------------- MODULE MCSlaveLink -----------------------------
(***************************************************************************)
(* TLC instances of SlaveLink.                                             *)
(***************************************************************************)
EXTENDS SlaveLink
=============================================================================
