------------------------------ MODULE ViewPaths ------------------------------
(***************************************************************************)
(* The path algebra of src/src/bind.rs: how a bind view maps a guest path  *)
(* to the host path that backs it, and back.                               *)
(*                                                                         *)
(* A normalized path is the sequence of its component names, <<>> is "/".  *)
(* A path as it was written is a sequence that may also hold Dot and       *)
(* DotDot.  A view is the sequence of projections BindView keeps, in the   *)
(* order projection_index searches it.                                     *)
(***************************************************************************)
EXTENDS Integers, Sequences, SequencesExt

CONSTANTS
  Names,      \* component names
  Reserved    \* those of /dev, /proc and /sys

Dot    == "."
DotDot == ".."
Root   == <<>>

(* A component is a name, "." or "..", and never two of them.              *)
ASSUME NamesAssumption == Reserved \subseteq Names /\ {Dot, DotDot} \cap Names = {}

Path    == Seq(Names)
Written == Seq(Names \cup {Dot, DotDot})

Projections == [source : Path, destination : Path]

(* PathBuf::pop: the root has no parent and stays.                         *)
Pop(path) == IF path = Root THEN Root ELSE Front(path)

(* Fault: a ".." is dropped instead of taking a component with it.         *)
NormalizeKeepingParents(components) ==
  SelectSeq(components, LAMBDA name : name \notin {Dot, DotDot})

(* One round of normalize_virtual's loop.                                  *)
Walk(out, name) ==
  CASE name = Dot    -> out
    [] name = DotDot -> Pop(out)
    [] OTHER         -> Append(out, name)

(* normalize_virtual: lexical, from the root, whatever links there are.    *)
Normalize(components) ==
  LET out[n \in 0 .. Len(components)] ==
        IF n = 0 THEN Root ELSE Walk(out[n - 1], components[n])
  IN out[Len(components)]

(* is_reserved: /dev, /proc, /sys and everything below them.               *)
IsReserved(path) == path # Root /\ Head(path) \in Reserved

(* path.starts_with(destination), whole components only.                   *)
Covers(projection, path) == IsPrefix(projection.destination, path)

(* projection_index, as the relation between a view and the position its   *)
(* iterator stops at.                                                      *)
Selects(view, index, path) ==
  /\ ~IsReserved(path)
  /\ index \in DOMAIN view /\ Covers(view[index], path)
  /\ \A earlier \in DOMAIN view : earlier < index => ~Covers(view[earlier], path)

Projects(view, path) == \E index \in DOMAIN view : Selects(view, index, path)

ProjectionIndex(view, path) ==
  CHOOSE index \in DOMAIN view : Selects(view, index, path)

(* Projection::resolve: the source joined with what follows the            *)
(* destination.                                                            *)
ResolveBelow(projection, path) ==
  projection.source
    \o SubSeq(path, Len(projection.destination) + 1, Len(path))

(* resolve_projected, and with it resolve_read, prepare_open and           *)
(* prepare_mutation: a path outside every destination is its own host path.*)
ResolveProjected(view, path) ==
  IF Projects(view, path)
  THEN ResolveBelow(view[ProjectionIndex(view, path)], path)
  ELSE path

(* Fault: any two projected paths count as one tree.                       *)
BothProjected(view, first, second) ==
  Projects(view, first) /\ Projects(view, second)

(* same_projection.                                                        *)
SameProjection(view, first, second) ==
  /\ Projects(view, first) /\ Projects(view, second)
  /\ ProjectionIndex(view, first) = ProjectionIndex(view, second)

(* virtual_for_host chooses the deepest source that contains the path;     *)
(* max_by_key keeps the last one among equals.                             *)
ContainingSources(view, host) == {i \in DOMAIN view : IsPrefix(view[i].source, host)}

ReverseIndex(view, host) ==
  CHOOSE i \in ContainingSources(view, host) :
    \A j \in ContainingSources(view, host) :
      \/ Len(view[j].source) < Len(view[i].source)
      \/ Len(view[j].source) = Len(view[i].source) /\ j <= i

(* Fault: the destination is joined with the whole host path.              *)
VirtualForHostUnstripped(view, host) ==
  IF ContainingSources(view, host) = {}
  THEN host
  ELSE view[ReverseIndex(view, host)].destination \o host

(* virtual_for_host: the guest name of a host path.                        *)
VirtualForHost(view, host) ==
  IF ContainingSources(view, host) = {}
  THEN host
  ELSE LET best == view[ReverseIndex(view, host)]
       IN best.destination \o SubSeq(host, Len(best.source) + 1, Len(host))
===============================================================================
