------------------------------ MODULE HostTree ------------------------------
(***************************************************************************)
(* The host's file system as pathshim's handlers use it: the library calls *)
(* of src/src/linux/dispatch.rs and src/src/bind.rs, and the same syscalls *)
(* when the kernel performs them for the command itself.                   *)
(*                                                                         *)
(* A tree is a function from the host paths that exist to nodes.  A link   *)
(* is followed where it is the last name of a path; its target is no link  *)
(* and no path leads through a link (see LinkAssumption of module          *)
(* MountTable).  Of a file's contents and attributes one value is kept.    *)
(***************************************************************************)
EXTENDS ViewPaths

NoTarget == [absolute |-> FALSE, path |-> <<>>]

Node(kind, value, target) == [kind |-> kind, value |-> value, target |-> target]
Dir       == Node("dir", 0, NoTarget)
File(v)   == Node("file", v, NoTarget)
Fifo      == Node("fifo", 0, NoTarget)
Link(to)  == Node("link", 0, to)
Nothing   == Node("none", 0, NoTarget)

Kinds   == {"dir", "file", "fifo", "link", "none"}
Targets == [absolute : BOOLEAN, path : Path]
Nodes   == [kind : Kinds, value : {0, 1}, target : Targets]

Present(tree, path) == path \in DOMAIN tree
IsA(tree, path, kind) == Present(tree, path) /\ tree[path].kind = kind
Below(tree, path) == {p \in DOMAIN tree : IsStrictPrefix(path, p)}
InDir(tree, path) == path # Root /\ IsA(tree, Front(path), "dir")

(* Why a path leads nowhere.                                               *)
LookupError(tree, path) ==
  IF \E p \in DOMAIN tree : IsStrictPrefix(p, path) /\ tree[p].kind # "dir"
  THEN "ENOTDIR" ELSE "ENOENT"

(* Where a path ends when its last name is a link.                         *)
Followed(tree, path) ==
  IF ~IsA(tree, path, "link") THEN path
  ELSE LET to == tree[path].target
       IN IF to.absolute THEN to.path ELSE Front(path) \o to.path

(* The tree in which the node is at the path.                              *)
Put(tree, path, node) ==
  [p \in DOMAIN tree \cup {path} |-> IF p = path THEN node ELSE tree[p]]

(* What a call leaves behind and answers.                                  *)
Outcome(tree, status, seen) == [tree |-> tree, status |-> status, seen |-> seen]
Fails(tree, status) == Outcome(tree, status, Nothing)
Sees(tree, path)    == Outcome(tree, "ok", tree[path])
With(tree, path, node)  == Outcome(Put(tree, path, node), "ok", Nothing)
Without(tree, path)     == Outcome([p \in DOMAIN tree \ {path} |-> tree[p]], "ok", Nothing)

Make(tree, path, node) ==
  IF Present(tree, path) THEN Fails(tree, "EEXIST")
  ELSE IF InDir(tree, path) THEN With(tree, path, node)
  ELSE Fails(tree, LookupError(tree, path))

Unlink(tree, path) ==
  IF ~Present(tree, path) THEN Fails(tree, LookupError(tree, path))
  ELSE IF IsA(tree, path, "dir") THEN Fails(tree, "EISDIR")
  ELSE Without(tree, path)

Rmdir(tree, path) ==
  IF ~Present(tree, path) THEN Fails(tree, LookupError(tree, path))
  ELSE IF ~IsA(tree, path, "dir") THEN Fails(tree, "ENOTDIR")
  ELSE IF Below(tree, path) # {} THEN Fails(tree, "ENOTEMPTY")
  ELSE IF path = Root THEN Fails(tree, "EBUSY")
  ELSE Without(tree, path)

(* The tree in which everything at and below old is at and below new.      *)
Moved(tree, old, new) ==
  LET moving == {old} \cup Below(tree, old)
      At(p)  == new \o SubSeq(p, Len(old) + 1, Len(p))
      kept   == DOMAIN tree \ (moving \cup {new})
  IN [q \in kept \cup {At(p) : p \in moving} |->
        IF q \in kept THEN tree[q] ELSE tree[CHOOSE p \in moving : At(p) = q]]

Rename(tree, old, new) ==
  IF ~Present(tree, old) THEN Fails(tree, LookupError(tree, old))
  ELSE IF ~InDir(tree, new) THEN Fails(tree, LookupError(tree, new))
  ELSE IF IsStrictPrefix(old, new) THEN Fails(tree, "EINVAL")
  ELSE IF old = new THEN Outcome(tree, "ok", Nothing)
  ELSE IF Below(tree, new) # {} THEN Fails(tree, "ENOTEMPTY")
  ELSE IF IsA(tree, new, "dir") /\ ~IsA(tree, old, "dir") THEN Fails(tree, "EISDIR")
  ELSE IF Present(tree, new) /\ ~IsA(tree, new, "dir") /\ IsA(tree, old, "dir")
    THEN Fails(tree, "ENOTDIR")
  ELSE Outcome(Moved(tree, old, new), "ok", Nothing)

Look(tree, path) ==
  IF Present(tree, path) THEN Sees(tree, path) ELSE Fails(tree, LookupError(tree, path))

Readlink(tree, path) ==
  IF Present(tree, path) /\ ~IsA(tree, path, "link")
  THEN Fails(tree, "EINVAL") ELSE Look(tree, path)

Truncate(tree, path) ==
  IF ~Present(tree, path) THEN Fails(tree, LookupError(tree, path))
  ELSE IF IsA(tree, path, "dir") THEN Fails(tree, "EISDIR")
  ELSE IF IsA(tree, path, "file") THEN With(tree, path, File(0))
  ELSE Fails(tree, "EINVAL")

Change(tree, path) ==
  IF Present(tree, path)
  THEN With(tree, path, [tree[path] EXCEPT !.value = 1])
  ELSE Fails(tree, LookupError(tree, path))

(* open(2) with O_CREAT, O_EXCL and O_NOFOLLOW as flags.                   *)
Open(tree, path, flags) ==
  LET end == IF flags \cap {"excl", "nofollow"} = {} THEN Followed(tree, path) ELSE path IN
  IF Present(tree, path) /\ "excl" \in flags THEN Fails(tree, "EEXIST")
  ELSE IF IsA(tree, end, "link") THEN Fails(tree, "ELOOP")
  ELSE IF IsA(tree, end, "dir") /\ "create" \in flags THEN Fails(tree, "EISDIR")
  ELSE IF Present(tree, end) THEN Sees(tree, end)
  ELSE IF "create" \in flags /\ InDir(tree, end)
    THEN Outcome(Put(tree, end, File(0)), "ok", File(0))
  ELSE Fails(tree, LookupError(tree, end))

Ops == {"stat", "readlink", "open", "mkdir", "unlink", "rmdir", "rename",
        "symlink", "truncate", "change"}
Flags == {"create", "excl", "nofollow", "noreplace"}

(* A path call of the command: `to' is the second path of a rename,        *)
(* `target' what a symlink is to hold.  "stat" stands for stat, statx and  *)
(* access, "change" for chmod, chown and utimensat.                        *)
Call == [op : Ops, path : Path, to : Path,
         target : Targets, flags : SUBSET Flags]

(* The call on host paths.                                                 *)
Perform(tree, call, path, to) ==
  LET end == IF "nofollow" \in call.flags THEN path ELSE Followed(tree, path) IN
  CASE call.op = "stat"     -> Look(tree, end)
    [] call.op = "readlink" -> Readlink(tree, path)
    [] call.op = "open"     -> Open(tree, path, call.flags)
    [] call.op = "mkdir"    -> Make(tree, path, Dir)
    [] call.op = "unlink"   -> Unlink(tree, path)
    [] call.op = "rmdir"    -> Rmdir(tree, path)
    [] call.op = "rename"   -> Rename(tree, path, to)
    [] call.op = "symlink"  -> Make(tree, path, Link(call.target))
    [] call.op = "truncate" -> Truncate(tree, end)
    [] call.op = "change"   -> Change(tree, end)

=============================================================================
