------------------------------ MODULE MCFsTree ------------------------------
(***************************************************************************)
(* FsTree on a small instance: a name and the name its temporary file has, *)
(* paths of up to three, an empty tree, and trees with files, nested       *)
(* directories and symbolic links, one of them at a `.patch.tmp`.          *)
(***************************************************************************)
EXTENDS FsTree, TLC

CONSTANTS a, x

b == TmpName(a)
MCNames == {a, b}

Root == <<>> :> Dir
MCTrees == {
    Root,
    Root @@ <<a>> :> Dir @@ <<a, a>> :> File(x) @@ <<a, b>> :> Dir @@ <<b>> :> File(x),
    Root @@ <<a>> :> Dir @@ <<a, b>> :> Dir @@ <<a, b, a>> :> File(x) @@ <<b>> :> Dir,
    Root @@ <<a>> :> Link @@ <<b>> :> Dir @@ <<b, b>> :> Link @@ <<b, a>> :> File(x) }

Open == [readOnly |-> FALSE, allowDelete |-> TRUE, allowPatch |-> TRUE, allowUpload |-> TRUE,
         allowed |-> {}, denied |-> {}]
MCPolicies == {
    Open,
    [Open EXCEPT !.readOnly = TRUE],
    [Open EXCEPT !.allowed = {<<a>>}, !.denied = {<<a, b>>}, !.allowDelete = FALSE] }
=============================================================================
