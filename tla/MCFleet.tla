------------------------------ MODULE MCFleet ------------------------------
(***************************************************************************)
(* Fleet for TLC.  Payloads: no frames, and two one of which is empty.      *)
(* Nobody is encrypted, or everybody, or the slaves but not the master.    *)
(***************************************************************************)
EXTENDS Fleet

CONSTANT Byte

MCPayloads == {<<>>, <<Byte, Empty>>}
MCModes == {{}, Nodes, Slaves}
=============================================================================
