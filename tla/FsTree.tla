------------------------------- MODULE FsTree -------------------------------
(***************************************************************************)
(* The single-call operations of the file service on the tree under the    *)
(* root of a slave: list, stat, get, create, mkdir, delete, rename, patch, *)
(* with path resolution, the refusal of symbolic links and the policy.     *)
(*                                                                         *)
(* A handler checks everything first and then acts, one action per call of *)
(* node:fs that changes the tree.  Every call may fail, half done where    *)
(* node:fs does several things in it, and the handler then answers an      *)
(* error; the slave may crash, and setRoot() may change the policy,        *)
(* between two steps.  One handler is at work at a time: the read loop     *)
(* awaits it, and no rebuild of the Dealer starts a second loop meanwhile  *)
(* (OneHandler).                                                           *)
(***************************************************************************)
EXTENDS Naturals, Sequences, SequencesExt

CONSTANTS
    Names,      \* file names a client may use
    MaxDepth,   \* bound: names in a path
    Data,       \* contents of files
    Empty,      \* of a file that was just created
    Torn,       \* of a file whose writing was cut short
    Large,      \* contents above maxGetFileMb
    TextNames,  \* names with an extension in getAllowedExtensions
    Policies,   \* the policies of the application: [readOnly, allowDelete, allowPatch, allowUpload, allowed, denied]
    Trees,      \* the trees it starts from
    MaxOps,     \* bound: operations
    MaxFaults,  \* bound: crashes and calls of setRoot()
    NoMatch     \* a patch that does not apply

\* `<name>.patch.tmp`, beside a file that is patched; a client may use such a name too.
TmpName(n) == <<n, "patch.tmp">>
Path == UNION {[1..n -> Names] : n \in 0..MaxDepth}
PatchTmp(p) == Append(Front(p), TmpName(Last(p)))

Dir == [kind |-> "dir"]
Link == [kind |-> "link"]
File(d) == [kind |-> "file", data |-> d]

Upto(p) == {SubSeq(p, 1, n) : n \in 0..Len(p)}

\* The root is a directory, if it exists yet, and whatever exists below it is an
\* entry with a name of a client, in a directory that exists.
IsTree(t) ==
    /\ t = [p \in DOMAIN t |-> t[p]]
    /\ <<>> \in DOMAIN t => t[<<>>] = Dir
    /\ \A p \in DOMAIN t :
         /\ p \in Path
         /\ t[p] \in {Dir, Link} \cup {File(d) : d \in Data}
         /\ \A q \in Upto(p) \ {p} : q \in DOMAIN t /\ t[q] = Dir

ASSUME TreeAssumption ==
    /\ Empty \in Data /\ Torn \notin Data /\ NoMatch \notin Data
    /\ Large \subseteq Data
    /\ TextNames \subseteq Names
    /\ MaxDepth \in Nat /\ MaxOps \in Nat /\ MaxFaults \in Nat
    /\ \A n \in Names : TmpName(n) # n
    /\ \A pol \in Policies : pol.allowed \subseteq Path
    /\ \A t \in Trees : IsTree(t)

Request ==
    [op : {"list", "stat", "get", "delete"}, path : Path]
        \cup [op : {"create"}, path : Path, recursive : BOOLEAN, overwrite : BOOLEAN]
        \cup [op : {"mkdir"}, path : Path, recursive : BOOLEAN, existOk : BOOLEAN]
        \cup [op : {"rename"}, path : Path, to : Path]
        \cup [op : {"patch"}, path : Path, data : Data \cup {NoMatch}]
None == [op |-> "none"]

VARIABLES
    tree,     \* what exists below the root <<>>: path |-> entry
    policy,   \* the policy setRoot() set last
    req,      \* the request of the handler, the last one if none is at work
    at,       \* the file operation the handler awaits, or "none"
    answer,   \* "none" while the handler works or after a crash; "ok", "error"
    before,   \* history: the tree when the handler began
    under,    \* history: the policy when the handler began
    ops,
    faults

handler == <<req, at, answer, before, under, ops>>
vars == <<tree, policy, handler, faults>>

Init ==
    /\ tree \in Trees
    /\ policy \in Policies
    /\ req = None
    /\ at = "none"
    /\ answer = "none"
    /\ before = tree
    /\ under = policy
    /\ ops = 0
    /\ faults = 0

(***************************************************************************)
(* The file system.  Only writeFile gets to a symbolic link, one at        *)
(* `<file>.patch.tmp`; no other call does (LinksNotFollowed).              *)
(***************************************************************************)
Exists(p) == p \in DOMAIN tree
IsDir(p) == Exists(p) /\ tree[p].kind = "dir"
IsLink(p) == Exists(p) /\ tree[p].kind = "link"
IsFile(p) == Exists(p) /\ tree[p].kind = "file"

Parent(p) == IF p = <<>> THEN <<>> ELSE Front(p)
Below(t, p) == {q \in DOMAIN t : IsPrefix(p, q)}
Without(t, S) == [q \in DOMAIN t \ S |-> t[q]]
WithDirs(t, p) == [q \in DOMAIN t \cup Upto(p) |-> IF q \in DOMAIN t THEN t[q] ELSE Dir]
With(t, p, e) == [q \in DOMAIN t \cup {p} |-> IF q = p THEN e ELSE t[q]]

\* Where s, below p, is when p has been renamed to q.
Shifted(p, q, s) == q \o SubSeq(s, Len(p) + 1, Len(s))

\* What was at p, with everything below it, is at q, in place of what was there.
Moved(t, p, q) ==
    LET new == {Shifted(p, q, s) : s \in Below(t, p)}
        rest == DOMAIN t \ (Below(t, p) \cup Below(t, q))
    IN  [s \in new \cup rest |-> IF s \in new THEN t[Shifted(q, p, s)] ELSE t[s]]

CanMakeDirs(p) == \A q \in Upto(p) : Exists(q) => IsDir(q)
CanWrite(p) == p # <<>> /\ IsDir(Parent(p)) /\ ~IsDir(p)

\* fs.writeFile: a symbolic link is followed, to any file, new or not, in the tree
\* or outside of it.
Written(p, d) ==
    IF IsLink(p)
    THEN {tree} \cup {With(tree, q, File(d)) :
                         q \in {s \in DOMAIN tree \cup Path : CanWrite(s) /\ ~IsLink(s)}}
    ELSE {With(tree, p, File(d))}

CanRename(p, q) ==
    /\ p # <<>> /\ q # <<>>
    /\ Exists(p) /\ IsDir(Parent(q))
    /\ ~IsStrictPrefix(p, q)
    /\ \/ p = q
       \/ ~Exists(q)
       \/ ~IsDir(p) /\ ~IsDir(q)
       \/ IsDir(p) /\ IsDir(q) /\ Below(tree, q) = {q}

(***************************************************************************)
(* Resolution and policy.                                                  *)
(***************************************************************************)

\* ensureNoSymlinkInPath: every segment exists, the last one perhaps not, and
\* none is a symbolic link.
NoSymlink_Off(p, missingLeaf) == \A q \in Upto(p) : Exists(q) \/ (missingLeaf /\ q = p)
NoSymlink(p, missingLeaf) ==
    \A q \in Upto(p) :
        \/ Exists(q) /\ ~IsLink(q)
        \/ ~Exists(q) /\ missingLeaf /\ q = p /\ p # <<>>

SafePath(p) == NoSymlink(p, FALSE)
SafeParentPath(p) == NoSymlink(Parent(p), TRUE)

\* isPathAllowedByList: a path or directory of the white list, if there is one.
Allowed(pol, p) == pol.allowed = {} \/ \E a \in pol.allowed : IsPrefix(a, p)
Visible(pol, p) == Allowed(pol, p) /\ p \notin pol.denied

Permits(pol, op, p) ==
    /\ Visible(pol, p)
    /\ ~pol.readOnly
    /\ op = "delete" => pol.allowDelete
    /\ op = "patch" => pol.allowPatch
    /\ op \in {"create", "mkdir"} => pol.allowUpload

ReadPath(p) == SafePath(p) /\ Visible(policy, p)
WritePath_Off(op, p) == SafePath(p)
WritePath(op, p) == SafePath(p) /\ Permits(policy, op, p)
WriteParentPath(op, p) == SafeParentPath(p) /\ Permits(policy, op, p)

\* A parent that need not be created must be there.
ParentReady(r) == r.recursive \/ IsDir(Parent(r.path))

(***************************************************************************)
(* Handlers.                                                               *)
(***************************************************************************)
Answer(a) == at' = "none" /\ answer' = a
Goto(label) == at' = label /\ answer' = "none"

\* get is for text files that are not too large.
MayGet(p) == IsFile(p) /\ Last(p) \in TextNames /\ tree[p].data \notin Large

\* list, stat, get: what they return changes nothing.
Read(r) ==
    Answer(IF /\ ReadPath(r.path)
              /\ r.op = "list" => IsDir(r.path)
              /\ r.op = "get" => MayGet(r.path)
           THEN "ok" ELSE "error")

\* handleCreate: an existing file is replaced only on demand.
MayCreate(r) ==
    /\ ~IsLink(r.path) /\ ~IsDir(r.path)
    /\ IsFile(r.path) => r.overwrite

Create(r) ==
    IF WriteParentPath("create", r.path) /\ MayCreate(r) /\ ParentReady(r)
    THEN Goto(IF r.recursive THEN "ensureDir" ELSE "writeFile")
    ELSE Answer("error")

\* handleMkdir: a directory that is there already may do.
Mkdir(r) ==
    IF ~WriteParentPath("mkdir", r.path) THEN Answer("error")
    ELSE IF Exists(r.path) THEN Answer(IF IsDir(r.path) /\ r.existOk THEN "ok" ELSE "error")
    ELSE IF ParentReady(r) THEN Goto("mkdir") ELSE Answer("error")

Delete(r) == IF WritePath("delete", r.path) THEN Goto("rm") ELSE Answer("error")

\* handleRename: only the parent of the new path may be missing.
Rename(r) ==
    IF /\ WritePath("rename", r.path) /\ WriteParentPath("rename", r.to)
       /\ ~IsLink(r.to)
    THEN Goto("ensureDir") ELSE Answer("error")

\* handlePatch: a patch that does not apply is answered with applied: false.
Patch(r) ==
    IF ~(WritePath("patch", r.path) /\ IsFile(r.path)) THEN Answer("error")
    ELSE IF r.data = NoMatch THEN Answer("ok") ELSE Goto("writeTmp")

\* Bound: what a rename moves stays within MaxDepth.
Fits(r) ==
    r.op = "rename" =>
        \A q \in Below(tree, r.path) : Len(q) - Len(r.path) + Len(r.to) <= MaxDepth

\* Assumed: the Dealer is not rebuilt while a handler is at work, so there is no
\* second read loop to start another (ZNL.js:1475), and nobody else writes below the
\* root.
OneHandler == at = "none"

\* Any of the calls a check makes may reject as well.
Begin(r) ==
    /\ OneHandler /\ ops < MaxOps /\ Fits(r)
    /\ ops' = ops + 1
    /\ req' = r
    /\ before' = tree
    /\ under' = policy
    /\ \/ CASE r.op \in {"list", "stat", "get"} -> Read(r)
            [] r.op = "create" -> Create(r)
            [] r.op = "mkdir" -> Mkdir(r)
            [] r.op = "delete" -> Delete(r)
            [] r.op = "rename" -> Rename(r)
            [] r.op = "patch" -> Patch(r)
       \/ Answer("error")
    /\ UNCHANGED <<tree, policy, faults>>

Acts(label) ==
    /\ at = label
    /\ UNCHANGED <<policy, req, before, under, ops, faults>>

\* create and rename.
Target == IF req.op = "rename" THEN req.to ELSE req.path

EnsureDir ==
    /\ Acts("ensureDir")
    /\ CanMakeDirs(Parent(Target))
    /\ tree' = WithDirs(tree, Parent(Target))
    /\ Goto(IF req.op = "rename" THEN "rename" ELSE "writeFile")

WriteFile ==
    /\ Acts("writeFile")
    /\ CanWrite(req.path)
    /\ tree' \in Written(req.path, Empty)
    /\ Answer("ok")

MakeDir ==
    /\ Acts("mkdir")
    /\ CanMakeDirs(Parent(req.path))
    /\ tree' = WithDirs(tree, req.path)
    /\ Answer("ok")

\* removeIfExists: with everything below it.
Removed_Off == {req.path}
Removed == Below(tree, req.path)

Rm ==
    /\ Acts("rm")
    /\ tree' = Without(tree, Removed)
    /\ Answer("ok")

RenameTo ==
    /\ Acts("rename")
    /\ CanRename(req.path, req.to)
    /\ tree' = IF req.path = req.to THEN tree ELSE Moved(tree, req.path, req.to)
    /\ Answer("ok")

\* The patched text is written beside the file, whatever is there, then takes its
\* place.
PatchFile_Off == req.path
PatchFile == PatchTmp(req.path)

WriteTmp ==
    /\ Acts("writeTmp")
    /\ CanWrite(PatchFile)
    /\ tree' \in Written(PatchFile, req.data)
    /\ Goto("swap")

Swap ==
    /\ Acts("swap")
    /\ CanRename(PatchFile, req.path)
    /\ tree' = IF PatchFile = req.path THEN tree ELSE Moved(tree, PatchFile, req.path)
    /\ Answer("ok")

(***************************************************************************)
(* Calls that fail, crashes, and setRoot() with another policy.            *)
(***************************************************************************)

\* What the call the handler awaits may leave when it does not get to its end: some
\* of the directories, a removal that has come half way, from the leaves up, a file
\* that is torn.  Renaming is all or nothing.
Halfway ==
    {tree} \cup
    CASE at \in {"ensureDir", "mkdir"} ->
           LET made == IF at = "mkdir" THEN req.path ELSE Parent(Target)
           IN  {WithDirs(tree, q) : q \in {s \in Upto(made) \ {made} : CanMakeDirs(s)}}
      [] at = "rm" ->
           {Without(tree, S) : S \in {T \in SUBSET (Below(tree, req.path) \ {req.path}) :
                                        \A q \in T : Below(tree, q) \subseteq T}}
      [] at = "writeFile" -> IF CanWrite(req.path) THEN Written(req.path, Empty) ELSE {}
      [] at = "writeTmp" -> IF CanWrite(PatchFile) THEN Written(PatchFile, Torn) ELSE {}
      [] OTHER -> {}

\* The call rejects, serviceHandler answers an error.
Throws ==
    /\ at # "none"
    /\ tree' \in Halfway
    /\ Answer("error")
    /\ UNCHANGED <<policy, req, before, under, ops, faults>>

Crash ==
    /\ faults < MaxFaults /\ at # "none"
    /\ faults' = faults + 1
    /\ tree' \in Halfway
    /\ at' = "none"
    /\ answer' = "none"
    /\ UNCHANGED <<policy, req, before, under, ops>>

SetRoot ==
    /\ faults < MaxFaults
    /\ faults' = faults + 1
    /\ policy' \in Policies \ {policy}
    /\ UNCHANGED <<tree, handler>>

Next ==
    \/ \E r \in Request : Begin(r)
    \/ EnsureDir \/ WriteFile \/ MakeDir \/ Rm \/ RenameTo \/ WriteTmp \/ Swap
    \/ Throws \/ Crash \/ SetRoot

Spec == Init /\ [][Next]_vars

(***************************************************************************)
(* Properties.                                                             *)
(***************************************************************************)
Files(t) == {q \in DOMAIN t : t[q].kind # "dir"}

\* The paths a request names.
Named(r) == {r.path} \cup (IF r.op = "rename" THEN {r.to} ELSE {})

\* Where t and u are not the same.
Differ(t, u) ==
    {q \in DOMAIN t \cup DOMAIN u : ~(q \in DOMAIN t /\ q \in DOMAIN u /\ t[q] = u[q])}

AtMostOne(S) == \A p, q \in S : p = q

\* The shape of the state; what exists has a directory around it.
TypeOK ==
    /\ \A p \in DOMAIN tree :
         /\ tree[p] \in {Dir, Link} \cup {File(d) : d \in Data \cup {Torn}}
         /\ p # <<>> => IsDir(Parent(p))
    /\ policy \in Policies /\ under \in Policies
    /\ req \in Request \cup {None}
    /\ at \in {"none", "ensureDir", "writeFile", "mkdir", "rm", "rename", "writeTmp", "swap"}
    /\ answer \in {"none", "ok", "error"}
    /\ ops \in 0..MaxOps
    /\ faults \in 0..MaxFaults

\* A path a request names leads through no symbolic link as long as its handler is at
\* work, whatever the operations before it have put there (docs/README.api.md:904).
\* It says nothing of `<file>.patch.tmp`, which no request names: see LinksRefused.
LinksNotFollowed ==
    at # "none" => \A p \in Named(req) : \A q \in Upto(p) : ~IsLink(q)

\* What the handler is writing a file at.
Writing ==
    CASE at = "writeFile" -> {req.path}
      [] at = "writeTmp" -> {PatchTmp(req.path)}
      [] OTHER -> {}

\* Nothing is written through a symbolic link (docs/README.api.md:904, 915).  The code
\* does not keep to it: handlePatch writes `<file>.patch.tmp` without a look
\* (slave.js:834), and TLC finds a patch that goes through a link there.
LinksRefused ==
    [][\A p \in Writing : (\E q \in Upto(p) : IsLink(q)) => tree' = tree]_vars

\* A patch that meets a symbolic link at its temporary file.
LinkBeside(t, r) ==
    r.op = "patch" /\ r.path # <<>> /\ PatchTmp(r.path) \in DOMAIN t /\ t[PatchTmp(r.path)] = Link

\* What an operation promises, in terms of the tree it found
\* (docs/README.api.md:968-1340).
Promised(r, t, u) ==
    CASE r.op \in {"list", "stat", "get"} -> u = t
      [] r.op = "create" -> u = With(WithDirs(t, Parent(r.path)), r.path, File(Empty))
      [] r.op = "mkdir" -> u = WithDirs(t, r.path)
      [] r.op = "delete" -> u = Without(t, Below(t, r.path))
      [] r.op = "rename" ->
           /\ r.path # r.to => \A q \in DOMAIN u : ~IsPrefix(r.path, q)
           /\ \A q \in Below(t, r.path) : u[Shifted(r.path, r.to, q)] = t[q]
           /\ \A q \in Files(t) : IsPrefix(r.path, q) \/ q = r.to \/ (q \in DOMAIN u /\ u[q] = t[q])
      [] r.op = "patch" ->
           IF r.data = NoMatch THEN u = t
           ELSE u = With(Without(t, {PatchTmp(r.path)}), r.path, File(r.data))

\* What an operation that answers an error may have done to the files.
Spoilt(r, t, u) ==
    CASE r.op = "delete" -> Below(t, r.path) \ DOMAIN u
      [] r.op = "create" -> {q \in {r.path} : q \in DOMAIN u /\ u[q] = File(Empty)}
      [] r.op = "patch" -> {q \in DOMAIN u : r.path # <<>> /\ q = PatchTmp(r.path)}
      [] OTHER -> {}

AnswersTruly ==
    answer' # "none" /\ (at # "none" \/ ops' # ops) =>
        LET t == before'
            u == tree'
            changed == Differ(t, u) \cap (Files(t) \cup Files(u))
        IN  IF LinkBeside(t, req')
            THEN AtMostOne(changed \ (IF answer' = "ok" THEN Named(req') \cup {PatchTmp(req'.path)} ELSE {}))
            ELSE IF answer' = "ok" THEN Promised(req', t, u) ELSE changed \subseteq Spoilt(req', t, u)

\* An operation that answers ok has done all of what it promises and nothing else.
\* One that answers an error, even from its last step, has lost or changed no file,
\* but for a delete that came half way, a create that emptied its own target, and the
\* `.patch.tmp` of a patch; it may leave directories.  A patch that writes through a
\* link beside its file changes one other file at most.
AnswerTells == [][AnswersTruly]_vars

\* At every single step, failing ones and crashes included, a file that exists stays
\* as it is unless the request at work names it: a patch is never seen half written,
\* and only create with overwrite empties a file.  The exception is what is at
\* `<file>.patch.tmp`: a patch of the file takes it, and writes where it leads if it
\* is a link (slave.js:833-834).
KeepsFiles ==
    \A p \in Files(tree) :
        \/ p \in DOMAIN tree' /\ tree'[p] = tree[p]
        \/ req.op \in {"delete", "rename"} /\ IsPrefix(req.path, p)
        \/ req.op = "rename" /\ p = req.to
        \/ req.op = "patch" /\ p = PatchTmp(req.path)
        \/ /\ req.op = "patch" /\ p \in DOMAIN tree'
           /\ \/ p = req.path /\ tree'[p] = File(req.data)
              \/ p = req.path /\ LinkBeside(tree, req)
              \/ at = "writeTmp" /\ LinkBeside(tree, req)
        \/ /\ req.op = "create" /\ req.overwrite /\ p = req.path
           /\ p \in DOMAIN tree' /\ tree'[p] = File(Empty)

FilesSafe == [][KeepsFiles]_vars

\* What changes, changes under a policy that was in force when its handler began and
\* permits the operation on every path it names, though setRoot() may have come in
\* between; and it is in the white list of that policy, but for the directories above
\* a path that is created and for what a patch does beside its file.
ObeysPolicy ==
    \A p \in Differ(tree, tree') :
        /\ \A q \in Named(req) : Permits(under, req.op, q)
        /\ \/ Allowed(under, p)
           \/ p \in Upto(Target) /\ p \notin DOMAIN tree /\ tree'[p] = Dir
           \/ p = PatchTmp(req.path) \/ LinkBeside(tree, req)

PolicyObeyed == [][ObeysPolicy]_vars
=============================================================================
