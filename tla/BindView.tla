------------------------------- MODULE BindView -------------------------------
(***************************************************************************)
(* BindView of src/src/bind.rs, from the first --bind to the guest working *)
(* directory: `open' takes the binds one by one and sorts the projections, *)
(* main.rs picks the guest cwd in the opened view, and linux::run opens    *)
(* the view a second time for its supervisor (`reopen'): the same rounds,  *)
(* over the projections of the first.  Links on the host may be pointed    *)
(* elsewhere at any time.                                                  *)
(***************************************************************************)
EXTENDS ViewPaths, FiniteSets

CONSTANTS
  Binds,      \* binds a command line can hold, see BindType
  Cwds,       \* --cwd arguments, as written
  LinkMaps,   \* what fs::canonicalize may make of the paths of sources
  HostDirs,   \* directories that exist on the host, their parents included
  HostFiles,  \* regular files that exist on the host
  MaxBinds    \* bound: the binds of one command line

(* A bind's destination as it was written.                                 *)
BindType ==
  [source : Path, absolute : BOOLEAN, destination : Written]

(* A directory that a source led to: no link lies on its path, and         *)
(* canonicalize has nothing to do.                                         *)
Stable(path) == \A map \in LinkMaps : path \in DOMAIN map /\ map[path] = path

(* Links may change, but no directory that one led to becomes a link.      *)
ASSUME BindAssumption ==
  /\ Binds \subseteq BindType
  /\ Cwds \subseteq Written
  /\ \A map \in LinkMaps : \A b \in Binds : b.source \in DOMAIN map
  /\ \A map \in LinkMaps : \A p \in DOMAIN map : map[p] \in Path /\ Stable(map[p])

VARIABLES
  phase,        \* "opening", "opened", "placed" and "reopened", or where the
                \* view was refused: "failed", and "unavailable" for a reopen
  links,        \* what fs::canonicalize makes of a path now
  projections,  \* the view: in the order of the binds, then sorted
  destinations, \* normalized destinations seen so far by the running open
  created,      \* host directories pathshim has made
  guestCwd,     \* where the command is to start
  supervisorView  \* the view of the supervisor thread

vars == <<phase, links, projections, destinations, created, guestCwd, supervisorView>>

TypeOK ==
  /\ phase \in {"opening", "opened", "placed", "reopened", "failed", "unavailable"}
  /\ links \in LinkMaps
  /\ projections \in Seq(Projections)
  /\ destinations \subseteq Path
  /\ created \subseteq Path
  /\ guestCwd \in Path
  /\ supervisorView \in Seq(Projections)

Init ==
  /\ phase = "opening" /\ links \in LinkMaps
  /\ projections = <<>> /\ destinations = {} /\ created = {}
  /\ guestCwd = Root /\ supervisorView = <<>>

Dirs == HostDirs \cup created

(* fs::create_dir_all fails where a regular file is in the way.            *)
Creatable(host) == \A file \in HostFiles : ~IsPrefix(file, host)

WithParents(host) == {SubSeq(host, 1, n) : n \in 0 .. Len(host)}

(* Fault: a bind over "/" is accepted.                                     *)
AcceptableRoot(absolute, destination) ==
  /\ absolute
  /\ ~IsReserved(destination)
  /\ destination \notin destinations

(* The four refusals of `open', in terms of the normalized destination.    *)
Acceptable(absolute, destination) ==
  /\ absolute
  /\ destination # Root
  /\ ~IsReserved(destination)
  /\ destination \notin destinations

(* Fault: the destination is kept as it was written.                       *)
DestinationAsWritten(b) == b.destination

Destination(b) == Normalize(b.destination)

(* One round of open's loop refuses the bind or cannot make its source, or *)
(* makes and canonicalizes it.  A refused bind leaves the earlier sources  *)
(* made.                                                                   *)
Refused(b) ==
  \/ ~Acceptable(b.absolute, Destination(b))
  \/ ~Creatable(links[b.source])

Projected(b) == [source |-> links[b.source], destination |-> Destination(b)]

Takes(b) ==
  /\ ~Refused(b)
  /\ created' = created \cup (WithParents(links[b.source]) \ HostDirs)
  /\ destinations' = destinations \cup {Destination(b)}

OpenBind(b) ==
  /\ phase = "opening" /\ Len(projections) < MaxBinds
  /\ \/ /\ Refused(b) /\ phase' = "failed"
        /\ UNCHANGED <<projections, destinations, created>>
     \/ /\ Takes(b) /\ projections' = Append(projections, Projected(b))
        /\ UNCHANGED phase
  /\ UNCHANGED <<links, guestCwd, supervisorView>>

Depth(projection) == Len(projection.destination)

(* Fault: the shortest destination comes first.                            *)
SortedByDepthAscending(view, sorted) ==
  \E order \in Injection(DOMAIN view, DOMAIN view) :
    /\ sorted = [i \in DOMAIN view |-> view[order[i]]]
    /\ \A i, j \in DOMAIN view : i < j =>
         \/ Depth(view[order[i]]) < Depth(view[order[j]])
         \/ Depth(view[order[i]]) = Depth(view[order[j]]) /\ order[i] < order[j]

(* Fault: equals change places, as sort_unstable_by_key would allow.       *)
SortedByDepthUnstably(view, sorted) ==
  \E order \in Injection(DOMAIN view, DOMAIN view) :
    /\ sorted = [i \in DOMAIN view |-> view[order[i]]]
    /\ \A i, j \in DOMAIN view : i < j =>
         Depth(view[order[i]]) >= Depth(view[order[j]])

(* sort_by_key on Reverse(component count): the deepest destination first, *)
(* equals in the order they had.                                           *)
SortedByDepth(view, sorted) ==
  \E order \in Injection(DOMAIN view, DOMAIN view) :
    /\ sorted = [i \in DOMAIN view |-> view[order[i]]]
    /\ \A i, j \in DOMAIN view : i < j =>
         \/ Depth(view[order[i]]) > Depth(view[order[j]])
         \/ Depth(view[order[i]]) = Depth(view[order[j]]) /\ order[i] < order[j]

Sorts(view) == {[i \in DOMAIN view |-> view[order[i]]] :
                  order \in Injection(DOMAIN view, DOMAIN view)}

(* The end of open.  A command line has at least one --bind.  The set of   *)
(* destinations goes with the call.                                        *)
SortProjections ==
  /\ phase = "opening" /\ projections # <<>>
  /\ \E sorted \in Sorts(projections) :
       SortedByDepth(projections, sorted) /\ projections' = sorted
  /\ phase' = "opened" /\ destinations' = {}
  /\ UNCHANGED <<links, created, guestCwd, supervisorView>>

(* Fault: a missing guest cwd is made wherever it resolves to.             *)
MayCreateAnywhere(cwd) == TRUE

(* create_directory_all refuses a path outside every destination.          *)
MayCreate(cwd) == Projects(projections, cwd)

(* What stat says of a host path.                                          *)
Exists(host) == host \in Dirs \cup HostFiles
BelowFile(host) == \E file \in HostFiles : IsStrictPrefix(file, host)

(* Fault: a missing guest cwd is taken without being made.                 *)
ChooseCwdUnmade(c) ==
  /\ phase = "opened"
  /\ phase' = "placed"
  /\ guestCwd' = Normalize(c)
  /\ UNCHANGED <<links, projections, destinations, created, supervisorView>>

(* main: resolve_directory; where that says NotFound, create_directory_all;*)
(* where that fails, or for any other error, "/".                          *)
ChooseCwd(c) ==
  LET cwd  == Normalize(c)
      host == ResolveProjected(projections, cwd)
      Keep == guestCwd' = cwd
      Fall == guestCwd' = Root
  IN
  /\ phase = "opened"
  /\ phase' = "placed"
  /\ \/ host \in Dirs /\ Keep /\ UNCHANGED created
     \/ (host \in HostFiles \/ BelowFile(host)) /\ Fall /\ UNCHANGED created
     \/ /\ ~Exists(host) /\ ~BelowFile(host) /\ MayCreate(cwd)
        /\ Keep
        /\ created' = created \cup (WithParents(host) \ HostDirs)
     \/ ~Exists(host) /\ ~BelowFile(host) /\ ~MayCreate(cwd) /\ Fall /\ UNCHANGED created
  /\ UNCHANGED <<links, projections, destinations, supervisorView>>

(* What reopen builds of a projection for open.                            *)
BindSpec(projection) ==
  [source |-> projection.source, absolute |-> TRUE, destination |-> projection.destination]

(* A round of the open that reopen calls.  Where it fails, linux::run      *)
(* makes the command run without the view.                                 *)
ReopenBind ==
  LET b == BindSpec(projections[Len(supervisorView) + 1]) IN
  /\ phase = "placed" /\ Len(supervisorView) < Len(projections)
  /\ \/ /\ Refused(b) /\ phase' = "unavailable"
        /\ UNCHANGED <<supervisorView, destinations, created>>
     \/ /\ Takes(b) /\ supervisorView' = Append(supervisorView, Projected(b))
        /\ UNCHANGED phase
  /\ UNCHANGED <<links, projections, guestCwd>>

(* The end of that open.                                                   *)
SortReopened ==
  /\ phase = "placed" /\ Len(supervisorView) = Len(projections)
  /\ \E sorted \in Sorts(supervisorView) :
       SortedByDepth(supervisorView, sorted) /\ supervisorView' = sorted
  /\ phase' = "reopened" /\ destinations' = {}
  /\ UNCHANGED <<links, projections, created, guestCwd>>

Ended == phase \in {"reopened", "failed", "unavailable"}

(* An external writer points links of the host elsewhere.                  *)
Relink(map) ==
  /\ ~Ended /\ map # links /\ links' = map
  /\ UNCHANGED <<phase, projections, destinations, created, guestCwd, supervisorView>>

Done == Ended /\ UNCHANGED vars

Next ==
  \/ \E b \in Binds : OpenBind(b)
  \/ SortProjections
  \/ \E c \in Cwds : ChooseCwd(c)
  \/ ReopenBind \/ SortReopened
  \/ \E map \in LinkMaps : Relink(map)
  \/ Done

Spec == Init /\ [][Next]_vars

-------------------------------------------------------------------------------
(***************************************************************************)
(* What the view guarantees                                                *)
(***************************************************************************)

Opened == phase \in {"opened", "placed", "reopened", "unavailable"}

(* Guest and host paths to ask about: below every destination and source.  *)
Tails == {<<>>} \cup {<<n>> : n \in Names}
Under(path) == {path \o t : t \in Tails}
GuestPaths == Tails \cup UNION {Under(projections[i].destination) : i \in DOMAIN projections}
HostPaths  == UNION {Under(projections[i].source) : i \in DOMAIN projections}

(* A component survives the normalization of a written path exactly when   *)
(* no later ".." takes it away: normalize_virtual against a definition     *)
(* without a stack.                                                        *)
Count(components, i, j, S) ==
  Cardinality({k \in i .. j : components[k] \in S})

Survivors(components) ==
  {i \in DOMAIN components :
     /\ components[i] \in Names
     /\ \A j \in i .. Len(components) :
          Count(components, i, j, Names) > Count(components, i, j, {DotDot})}

NormalizeIsLexical ==
  phase = "opening" =>
    \A c \in Cwds \cup {b.destination : b \in Binds} :
      /\ Len(Normalize(c)) = Cardinality(Survivors(c))
      /\ \A i \in Survivors(c) :
           Normalize(c)[Cardinality({k \in Survivors(c) : k <= i})] = c[i]

(* The destination with the most components decides, however the binds     *)
(* were ordered on the command line (bind.rs: projection_index takes the   *)
(* first match of the sorted projections).                                 *)
LongestDestinationWins ==
  phase = "opened" =>
    \A path \in GuestPaths : \A i, j \in DOMAIN projections :
      (Selects(projections, i, path) /\ Covers(projections[j], path) /\ j # i)
        => Depth(projections[j]) < Depth(projections[i])

(* A projected path is backed by its source alone, and /dev, /proc, /sys   *)
(* and the root are never projected (README: "paths below guest DEST       *)
(* resolve only below physical SOURCE").                                   *)
ResolvesBelowSource ==
  phase = "opened" =>
    \A path \in GuestPaths :
      IF Projects(projections, path)
      THEN /\ ~IsReserved(path) /\ path # Root
           /\ \E i \in DOMAIN projections :
                /\ Covers(projections[i], path)
                /\ IsPrefix(projections[i].source, ResolveProjected(projections, path))
      ELSE ResolveProjected(projections, path) = path

(* A host path below a source gets a guest name that leads back to it,     *)
(* unless a deeper destination hides that name (virtual_for_host against   *)
(* resolve_projected).                                                     *)
ReverseMappingLeadsBack ==
  phase = "opened" =>
    \A host \in HostPaths :
      LET guest == VirtualForHost(projections, host) IN
      \/ ResolveProjected(projections, guest) = host
      \/ \E i \in DOMAIN projections :
           /\ Selects(projections, i, guest)
           /\ Depth(projections[i])
                > Depth(projections[ReverseIndex(projections, host)])

(* The rename that same_projection admits stays in one source tree: it     *)
(* never asks the host for a move between two sources.                     *)
RenameStaysInSource ==
  phase = "opened" =>
    \A old, new \in GuestPaths :
      SameProjection(projections, old, new) =>
        \E i \in DOMAIN projections :
          /\ IsPrefix(projections[i].source, ResolveProjected(projections, old))
          /\ IsPrefix(projections[i].source, ResolveProjected(projections, new))

(* The guest cwd main settles on names an existing directory, or is "/".   *)
GuestCwdIsUsable ==
  phase \in {"placed", "reopened", "unavailable"} =>
    guestCwd = Root \/ ResolveProjected(projections, guestCwd) \in Dirs

(* pathshim makes directories for sources and below them, nowhere else.    *)
CreatesOnlyForSources ==
  Opened => \A host \in created : \E i \in DOMAIN projections :
    IsPrefix(projections[i].source, host) \/ IsPrefix(host, projections[i].source)

(* A view that opened opens again, and the same: nothing open refuses, and *)
(* no change of a link that the command line went through, makes the       *)
(* supervisor do without a view or resolve a path unlike the main thread   *)
(* (bind.rs: reopen; the order decides which of two shared sources names a *)
(* host path).                                                             *)
ReopenedViewIsTheSame ==
  /\ phase # "unavailable"
  /\ phase = "reopened" => supervisorView = projections
===============================================================================
