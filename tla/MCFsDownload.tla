---------------------------- MODULE MCFsDownload ----------------------------
(***************************************************************************)
(* FsDownload on a small instance.  Calls are numbered in the order they   *)
(* begin, so there is no symmetry to use.                                  *)
(***************************************************************************)
EXTENDS FsDownload
=============================================================================
