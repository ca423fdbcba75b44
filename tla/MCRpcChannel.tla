---------------------------- MODULE MCRpcChannel ----------------------------
(***************************************************************************)
(* TLC instances of RpcChannel: a few calls, one frame of the other        *)
(* senders queued at a time.                                               *)
(***************************************************************************)
EXTENDS RpcChannel, TLC

\* Calls are interchangeable: nothing in the code depends on a requestId.
Symmetry == Permutations(Calls)
=============================================================================
