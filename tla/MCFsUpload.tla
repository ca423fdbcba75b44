---------------------------- MODULE MCFsUpload ------------------------------
(***************************************************************************)
(* TLC instances of FsUpload.                                              *)
(***************************************************************************)
EXTENDS FsUpload, TLC

\* Uploads are interchangeable: a session id is a random UUID.
Symmetry == Permutations(Uploads)
=============================================================================
