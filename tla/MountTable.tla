----------------------------- MODULE MountTable -----------------------------
(***************************************************************************)
(* What a bind view stands for: the host path that a guest path denotes    *)
(* and the effect that a path call has under a table of mounts, written    *)
(* without the search of src/src/bind.rs ("every supported operation below *)
(* a destination goes directly to its source", src/src/bind.rs:20-22).     *)
(***************************************************************************)
EXTENDS HostTree, FiniteSets

CONSTANTS
  View,       \* the projections of an opened view
  Calls,      \* path calls, with the absolute normalized guest paths that
              \*   resolve_path makes of their arguments (module GuestCwd)
  Trees       \* what the host may hold at first

(* What module BindView shows of an opened view.                           *)
ASSUME ViewAssumption ==
  /\ View \in Seq(Projections)
  /\ \A i, j \in DOMAIN View : i < j => Len(View[i].destination) >= Len(View[j].destination)
  /\ \A i, j \in DOMAIN View : i # j => View[i].destination # View[j].destination

ASSUME CallsAssumption == Calls \subseteq Call

ASSUME TreesAssumption ==
  \A tree \in Trees : DOMAIN tree \subseteq Path /\ \A p \in DOMAIN tree : tree[p] \in Nodes

(* The destination with the most components that covers the path.          *)
Mounts(path) == IF IsReserved(path) THEN {} ELSE {i \in DOMAIN View : Covers(View[i], path)}

MountOf(path) ==
  IF Mounts(path) = {} THEN 0
  ELSE CHOOSE i \in Mounts(path) :
         \A j \in Mounts(path) : Len(View[j].destination) <= Len(View[i].destination)

Denoted(path) == IF MountOf(path) = 0 THEN path ELSE ResolveBelow(View[MountOf(path)], path)

(* The call under real mounts, but for these exceptions: renameat2 flags   *)
(* are refused; the source directory of a destination can be removed or    *)
(* renamed by its guest name, and a directory above a destination outside  *)
(* every bind can be renamed, where a mount point is busy; and an absolute *)
(* link target is looked up on the host, not in the view.                  *)
Effect(tree, c) ==
  IF c.op = "rename" /\ "noreplace" \in c.flags THEN Fails(tree, "ENOTSUP")
  ELSE IF c.op = "rename" /\ MountOf(c.path) # MountOf(c.to) THEN Fails(tree, "EXDEV")
  ELSE Perform(tree, c, Denoted(c.path), Denoted(c.to))

(* No path leads through a link, and no link leads to another.             *)
LinkPaths ==
  {Denoted(c.path) : c \in {d \in Calls : d.op = "symlink"}}
    \cup UNION {{p \in DOMAIN tree : tree[p].kind = "link"} : tree \in Trees}

LinkEnds ==
  {IF to.absolute THEN to.path ELSE Front(p) \o to.path :
     p \in LinkPaths, to \in {c.target : c \in Calls}}

ASSUME LinkAssumption ==
  /\ \A c \in Calls, p \in LinkPaths :
       ~IsStrictPrefix(p, Denoted(c.path)) /\ ~IsStrictPrefix(p, Denoted(c.to))
  /\ LinkEnds \cap LinkPaths = {}
=============================================================================
