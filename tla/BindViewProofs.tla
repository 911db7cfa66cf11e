---------------------------- MODULE BindViewProofs ----------------------------
(***************************************************************************)
(* What BindView::open, the choice of the guest cwd and reopen establish   *)
(* for any binds, names and host.  open leaves typed projections with      *)
(* distinct destinations below the root and canonical sources, ordered so  *)
(* that the first match is the longest; from that follow what the mapping  *)
(* promises in both directions and that opening once more yields the same  *)
(* view.                                                                   *)
(***************************************************************************)
EXTENDS BindView, ViewPathsProofs, FiniteSetTheorems

Distinct(view) ==
  \A i, j \in DOMAIN view : i # j => view[i].destination # view[j].destination

DeepestFirst(view) ==
  \A i, j \in DOMAIN view : i < j => Depth(view[i]) >= Depth(view[j])

(* What open has checked of a projection and put into it.                  *)
Sound(projection) ==
  /\ projection.destination # Root /\ ~IsReserved(projection.destination)
  /\ Stable(projection.source) /\ Creatable(projection.source)

(* The set of destinations is what the projections hold, so that the test  *)
(* for duplicates compares a new bind with every earlier one.              *)
ViewInv ==
  /\ \A i \in DOMAIN projections : Sound(projections[i])
  /\ Distinct(projections)
  /\ phase = "opening" => \A i \in DOMAIN projections : projections[i].destination \in destinations
  /\ Opened => DeepestFirst(projections)

(* The rounds of the second open take the projections as they are, and     *)
(* have met the destinations of those they have taken.                     *)
ReopenInv ==
  /\ phase \in {"opening", "opened"} => supervisorView = <<>>
  /\ phase = "opened" => destinations = {}
  /\ phase = "placed" =>
       /\ Len(supervisorView) <= Len(projections)
       /\ \A i \in DOMAIN supervisorView : supervisorView[i] = projections[i]
       /\ \A path \in destinations : \E i \in DOMAIN supervisorView :
            path = projections[i].destination
  /\ ReopenedViewIsTheSame

(* A host path next to a source: above or below it.                        *)
NearSource(view, host) ==
  \E i \in DOMAIN view : IsPrefix(view[i].source, host) \/ IsPrefix(host, view[i].source)

(* What pathshim has made on the host, failed openings included.           *)
HostInv ==
  /\ \A host \in created : NearSource(projections, host)
  /\ GuestCwdIsUsable

IInv == TypeOK /\ ViewInv /\ ReopenInv /\ HostInv

-------------------------------------------------------------------------------
(* Of two prefixes of one path with the same length, each is the other:    *)
(* in a view with distinct destinations, ordered deepest first, the first  *)
(* projection that covers a path is deeper than every other that does.     *)
LEMMA FirstIsLongest ==
  ASSUME NEW view \in Seq(Projections), Distinct(view), DeepestFirst(view),
         NEW path, NEW i, NEW j \in DOMAIN view,
         Selects(view, i, path), Covers(view[j], path), j # i
  PROVE  Depth(view[j]) < Depth(view[i])
<1>1. i \in DOMAIN view /\ Covers(view[i], path) /\ i < j
  BY DEF Selects
<1>2. view[i].destination \in Seq(Names) /\ view[j].destination \in Seq(Names)
  <2>1. view[i] \in Projections /\ view[j] \in Projections
    BY <1>1
  <2> QED
    BY <2>1 DEF Projections, Path
<1>3. Depth(view[i]) >= Depth(view[j])
  BY <1>1 DEF DeepestFirst
<1>4. ASSUME Depth(view[i]) = Depth(view[j]) PROVE FALSE
  <2>1. \A k \in 1 .. Depth(view[i]) : view[i].destination[k] = view[j].destination[k]
    BY <1>1, <1>2, <1>4 DEF Covers, IsPrefix, Depth
  <2>2. view[i].destination = view[j].destination
    BY <1>2, <1>4, <2>1, SeqEqual DEF Depth
  <2> QED
    BY <1>1, <2>2 DEF Distinct
<1> QED
  BY <1>2, <1>3, <1>4 DEF Depth

(* Sorting permutes the projections: their types and their distinctness    *)
(* survive, and the result is ordered.                                     *)
LEMMA SortKeeps ==
  ASSUME NEW view \in Seq(Projections), NEW sorted, SortedByDepth(view, sorted)
  PROVE  /\ sorted \in Seq(Projections)
         /\ DeepestFirst(sorted)
         /\ Distinct(view) => Distinct(sorted)
         /\ \A i \in DOMAIN sorted : \E j \in DOMAIN view : sorted[i] = view[j]
         /\ \A j \in DOMAIN view : \E i \in DOMAIN sorted : sorted[i] = view[j]
<1>1. PICK order \in Injection(DOMAIN view, DOMAIN view) :
        /\ sorted = [i \in DOMAIN view |-> view[order[i]]]
        /\ \A i, j \in DOMAIN view : i < j =>
             \/ Depth(view[order[i]]) > Depth(view[order[j]])
             \/ Depth(view[order[i]]) = Depth(view[order[j]]) /\ order[i] < order[j]
  BY DEF SortedByDepth
<1>2. /\ order \in [DOMAIN view -> DOMAIN view]
      /\ \A a, b \in DOMAIN view : order[a] = order[b] => a = b
  BY <1>1 DEF Injection, IsInjective
<1>3. DOMAIN view = 1 .. Len(view) /\ Len(view) \in Nat
  OBVIOUS
<1>4. \A i \in DOMAIN view : sorted[i] = view[order[i]] /\ order[i] \in DOMAIN view
  BY <1>1, <1>2
<1>5. DOMAIN sorted = DOMAIN view
  BY <1>1
<1>6. sorted \in Seq(Projections)
  BY <1>1, <1>3, <1>4
<1>7. \A i \in DOMAIN view : Depth(view[i]) \in Nat
  BY DEF Depth, Projections, Path
<1>8. DeepestFirst(sorted)
  <2>1. SUFFICES ASSUME NEW i \in DOMAIN view, NEW j \in DOMAIN view, i < j
                 PROVE  Depth(sorted[i]) >= Depth(sorted[j])
    BY <1>5 DEF DeepestFirst
  <2>2. Depth(view[order[i]]) \in Nat /\ Depth(view[order[j]]) \in Nat
    BY <1>4, <1>7
  <2>3. Depth(view[order[i]]) >= Depth(view[order[j]])
    BY <1>1, <2>1, <2>2
  <2>4. sorted[i] = view[order[i]] /\ sorted[j] = view[order[j]]
    BY <1>4
  <2> QED
    BY <2>3, <2>4
<1>9. Distinct(view) => Distinct(sorted)
  BY <1>2, <1>4, <1>5 DEF Distinct
<1>10. ASSUME NEW j \in DOMAIN view PROVE \E i \in DOMAIN sorted : sorted[i] = view[j]
  <2>1. IsFiniteSet(DOMAIN view)
    BY <1>3, FS_Interval
  <2>2. order \in Surjection(DOMAIN view, DOMAIN view)
    BY <1>1, <2>1, FS_Injection
  <2>3. PICK i \in DOMAIN view : order[i] = j
    BY <2>2 DEF Surjection
  <2> QED
    BY <1>4, <1>5, <2>3
<1> QED
  BY <1>4, <1>5, <1>6, <1>8, <1>9, <1>10

(* Sorting what is sorted changes nothing: sort_by_key is stable, so that  *)
(* the order it puts the positions in is increasing, and an increasing map *)
(* of 1 .. n to itself moves none of them.                                 *)
LEMMA SortOfSorted ==
  ASSUME NEW view \in Seq(Projections), DeepestFirst(view),
         NEW sorted, SortedByDepth(view, sorted)
  PROVE  sorted = view
<1>1. PICK order \in Injection(DOMAIN view, DOMAIN view) :
        /\ sorted = [i \in DOMAIN view |-> view[order[i]]]
        /\ \A i, j \in DOMAIN view : i < j =>
             \/ Depth(view[order[i]]) > Depth(view[order[j]])
             \/ Depth(view[order[i]]) = Depth(view[order[j]]) /\ order[i] < order[j]
  BY DEF SortedByDepth
<1> DEFINE n == Len(view)
<1>2. n \in Nat /\ DOMAIN view = 1 .. n
  OBVIOUS
<1>3. order \in [1 .. n -> 1 .. n]
  BY <1>1, <1>2 DEF Injection
<1>4. \A i \in 1 .. n : Depth(view[i]) \in Nat
  BY DEF Depth, Projections, Path
<1>5. \A i, j \in 1 .. n : i < j => order[i] < order[j]
  <2>1. SUFFICES ASSUME NEW i \in 1 .. n, NEW j \in 1 .. n, i < j, ~(order[i] < order[j])
                 PROVE  FALSE
    OBVIOUS
  <2>2. order[i] \in 1 .. n /\ order[j] \in 1 .. n
    BY <1>3
  <2>3. Depth(view[order[i]]) > Depth(view[order[j]])
    BY <1>1, <1>2, <2>1
  <2>4. order[j] < order[i] \/ order[i] = order[j]
    BY <2>1, <2>2
  <2>5. Depth(view[order[j]]) >= Depth(view[order[i]])
    BY <1>2, <1>4, <2>2, <2>4 DEF DeepestFirst
  <2> QED
    BY <1>4, <2>2, <2>3, <2>5
<1> DEFINE Up == {k \in Nat : k \in 1 .. n => order[k] >= k}
           Down == {k \in Nat : n - k \in 1 .. n => order[n - k] <= n - k}
<1>6. \A k \in 1 .. n : order[k] >= k
  <2>1. 0 \in Up
    OBVIOUS
  <2>2. ASSUME NEW k \in Nat, k \in Up PROVE k + 1 \in Up
    <3>1. SUFFICES ASSUME k + 1 \in 1 .. n PROVE order[k + 1] >= k + 1
      OBVIOUS
    <3>2. order[k + 1] \in 1 .. n
      BY <1>3, <3>1
    <3>3. CASE k = 0
      BY <3>2, <3>3
    <3>4. CASE k \in 1 .. n
      <4>1. order[k] < order[k + 1] /\ order[k] >= k /\ order[k] \in 1 .. n
        BY <1>3, <1>5, <2>2, <3>1, <3>4
      <4> QED
        BY <3>2, <4>1
    <3> QED
      BY <1>2, <3>1, <3>3, <3>4
  <2>3. Nat \subseteq Up
    <3> HIDE DEF Up
    <3> QED
      BY <2>1, <2>2, InductionOnSet
  <2> QED
    BY <1>2, <2>3
<1>7. \A k \in 1 .. n : order[k] <= k
  <2>1. 0 \in Down
    BY <1>2, <1>3
  <2>2. ASSUME NEW k \in Nat, k \in Down PROVE k + 1 \in Down
    <3>1. SUFFICES ASSUME n - (k + 1) \in 1 .. n
                   PROVE  order[n - (k + 1)] <= n - (k + 1)
      OBVIOUS
    <3>2. n - k \in 1 .. n /\ n - (k + 1) < n - k
      BY <1>2, <3>1
    <3>3. /\ order[n - k] \in 1 .. n /\ order[n - (k + 1)] \in 1 .. n
          /\ order[n - (k + 1)] < order[n - k] /\ order[n - k] <= n - k
      BY <1>3, <1>5, <2>2, <3>1, <3>2
    <3> QED
      BY <1>2, <3>3
  <2>3. Nat \subseteq Down
    <3> HIDE DEF Down
    <3> QED
      BY <2>1, <2>2, InductionOnSet
  <2>4. ASSUME NEW k \in 1 .. n PROVE order[k] <= k
    <3>1. n - k \in Nat /\ n - (n - k) = k
      BY <1>2
    <3>2. n - k \in Down
      BY <2>3, <3>1
    <3> QED
      BY <3>1, <3>2
  <2> QED
    BY <2>4
<1>8. \A k \in 1 .. n : order[k] = k
  <2>1. \A k \in 1 .. n : order[k] \in 1 .. n
    BY <1>3
  <2> QED
    BY <1>2, <1>6, <1>7, <2>1
<1>9. sorted \in Seq(Projections) /\ Len(sorted) = n
  <2>1. sorted = [i \in 1 .. n |-> view[order[i]]]
    BY <1>1, <1>2
  <2> QED
    BY <1>2, <1>8, <2>1
<1>10. \A k \in 1 .. n : sorted[k] = view[k]
  BY <1>1, <1>2, <1>8
<1> QED
  BY <1>9, <1>10, SeqEqual

-------------------------------------------------------------------------------
(* What is made for a directory is the directory and what is above it.     *)
LEMMA ParentsArePrefixes ==
  ASSUME NEW host \in Path, NEW made \in WithParents(host)
  PROVE  made \in Path /\ IsPrefix(made, host)
<1>1. PICK n \in 0 .. Len(host) : made = SubSeq(host, 1, n)
  BY DEF WithParents
<1>2. made \in Path /\ Len(made) = n /\ Len(host) \in Nat
  BY <1>1 DEF Path
<1>3. SubSeq(made, 1, n) = SubSeq(host, 1, n)
  BY <1>1, <1>2, SubSeqFull DEF Path
<1> QED
  BY <1>2, <1>3 DEF IsPrefix

(* No bind has been taken yet.                                             *)
LEMMA InitIInv == Init => IInv
<1> SUFFICES ASSUME Init PROVE IInv
  OBVIOUS
<1>1. TypeOK
  BY EmptySeq DEF Init, TypeOK, Path, Root
<1>2. DOMAIN projections = {} /\ phase = "opening" /\ created = {} /\ supervisorView = <<>>
  BY DEF Init
<1>3. ViewInv
  BY <1>2 DEF ViewInv, Distinct, Opened
<1>4. ReopenInv
  BY <1>2 DEF ReopenInv, ReopenedViewIsTheSame
<1>5. HostInv
  BY <1>2 DEF HostInv, GuestCwdIsUsable
<1> QED
  BY <1>1, <1>3, <1>4, <1>5 DEF IInv

(* What a round takes.                                                     *)
LEMMA TakesFacts ==
  ASSUME TypeOK, NEW b, b.source \in DOMAIN links, b.destination \in Written, Takes(b)
  PROVE  /\ Projected(b) \in Projections /\ Sound(Projected(b))
         /\ Projected(b).destination = Destination(b) /\ Destination(b) \in Path
         /\ Destination(b) \notin destinations
         /\ destinations' = destinations \cup {Destination(b)}
         /\ created \subseteq created'
         /\ \A made \in created' :
              made \in created \/ (made \in Path /\ IsPrefix(made, Projected(b).source))
<1>1. Destination(b) \in Path
  BY NormalizeType DEF Destination
<1>2. links[b.source] \in Path /\ Stable(links[b.source])
  BY BindAssumption DEF TypeOK
<1>3. Acceptable(b.absolute, Destination(b)) /\ Creatable(links[b.source])
  BY DEF Takes, Refused
<1>4. /\ Projected(b) \in Projections
      /\ Projected(b).source = links[b.source] /\ Projected(b).destination = Destination(b)
  BY <1>1, <1>2 DEF Projected, Projections
<1>5. \A made \in WithParents(links[b.source]) :
        made \in Path /\ IsPrefix(made, links[b.source])
  BY <1>2, ParentsArePrefixes
<1>6. Sound(Projected(b))
  BY <1>2, <1>3, <1>4 DEF Sound, Acceptable
<1> QED
  BY <1>1, <1>3, <1>4, <1>5, <1>6 DEF Takes, Acceptable

(* The new projection is last; its destination was not among the others.   *)
LEMMA OpenBindIInv == ASSUME IInv, NEW b \in Binds, OpenBind(b) PROVE IInv'
<1>1. phase = "opening" /\ UNCHANGED <<links, guestCwd, supervisorView>>
  BY DEF OpenBind
<1>2. b.source \in DOMAIN links /\ b.destination \in Written
  BY BindAssumption DEF BindType, IInv, TypeOK
<1>3. CASE phase' = "failed" /\ UNCHANGED <<projections, destinations, created>>
  <2>1. TypeOK'
    BY <1>1, <1>3 DEF IInv, TypeOK
  <2>2. ViewInv'
    BY <1>1, <1>3 DEF IInv, ViewInv, Sound, Creatable, Opened
  <2>3. ReopenInv'
    BY <1>1, <1>3 DEF ReopenInv, ReopenedViewIsTheSame
  <2>4. HostInv'
    BY <1>1, <1>3 DEF IInv, HostInv, GuestCwdIsUsable
  <2> QED
    BY <2>1, <2>2, <2>3, <2>4 DEF IInv
<1>4. CASE Takes(b) /\ projections' = Append(projections, Projected(b)) /\ UNCHANGED phase
  <2> DEFINE new == Projected(b)
  <2>1. /\ new \in Projections /\ Sound(new)
        /\ new.destination \in Path /\ new.destination \notin destinations
        /\ destinations' = destinations \cup {new.destination} /\ created \subseteq created'
        /\ \A made \in created' :
             made \in created \/ (made \in Path /\ IsPrefix(made, new.source))
    BY <1>2, <1>4, TakesFacts DEF IInv
  <2>2. projections' = Append(projections, new) /\ phase' = "opening"
    BY <1>1, <1>4
  <2> HIDE DEF new
  <2>3. projections' \in Seq(Projections) /\ Len(projections') = Len(projections) + 1
    BY <2>1, <2>2 DEF IInv, TypeOK
  <2>4. \A i \in DOMAIN projections :
          i \in DOMAIN projections' /\ projections'[i] = projections[i]
    BY <2>1, <2>2 DEF IInv, TypeOK
  <2>5. projections'[Len(projections')] = new /\ Len(projections') \in DOMAIN projections'
    BY <2>1, <2>2, <2>3 DEF IInv, TypeOK
  <2>6. \A i \in DOMAIN projections' : i \in DOMAIN projections \/ i = Len(projections')
    BY <2>3 DEF IInv, TypeOK
  <2>7. TypeOK'
    BY <1>1, <2>1, <2>2, <2>3 DEF IInv, TypeOK
  <2>8. \A i \in DOMAIN projections' : Sound(projections'[i])
    BY <2>1, <2>4, <2>5, <2>6 DEF IInv, ViewInv
  <2>9. \A i \in DOMAIN projections' : Sound(projections[i])' <=> Sound(projections'[i])
    BY DEF Sound, Creatable
  <2>10. /\ \A i \in DOMAIN projections : projections[i].destination \in destinations
         /\ Distinct(projections)
    BY <1>1 DEF IInv, ViewInv
  <2>11. Distinct(projections') /\ Distinct(projections)' = Distinct(projections')
    BY <2>1, <2>4, <2>5, <2>6, <2>10 DEF Distinct
  <2>12. \A i \in DOMAIN projections' : projections'[i].destination \in destinations'
    BY <2>1, <2>4, <2>5, <2>6, <2>10
  <2>13. ViewInv'
    BY <2>2, <2>8, <2>9, <2>11, <2>12 DEF ViewInv, Opened
  <2>14. ReopenInv'
    BY <1>1, <2>2 DEF IInv, ReopenInv, ReopenedViewIsTheSame
  <2>15. \A host \in created' : NearSource(projections', host)
    <3>1. SUFFICES ASSUME NEW host \in created' PROVE NearSource(projections', host)
      OBVIOUS
    <3>2. CASE host \in created
      <4>1. PICK i \in DOMAIN projections :
              IsPrefix(projections[i].source, host) \/ IsPrefix(host, projections[i].source)
        BY <3>2 DEF IInv, HostInv, NearSource
      <4> QED
        BY <2>4, <4>1 DEF NearSource
    <3>3. CASE IsPrefix(host, new.source)
      BY <2>5, <3>3 DEF NearSource
    <3> QED
      BY <2>1, <3>2, <3>3
  <2>16. HostInv'
    BY <2>2, <2>15 DEF HostInv, GuestCwdIsUsable
  <2> QED
    BY <2>7, <2>13, <2>14, <2>16 DEF IInv
<1> QED
  BY <1>3, <1>4 DEF OpenBind

(* Sorting permutes what open has collected.                               *)
LEMMA SortIInv == ASSUME IInv, SortProjections PROVE IInv'
<1>1. PICK sorted : SortedByDepth(projections, sorted) /\ projections' = sorted
  BY DEF SortProjections
<1>2. /\ UNCHANGED <<links, created, guestCwd, supervisorView>>
      /\ phase = "opening" /\ phase' = "opened" /\ destinations' = {}
  BY DEF SortProjections
<1>3. /\ sorted \in Seq(Projections) /\ DeepestFirst(sorted) /\ Distinct(sorted)
      /\ \A i \in DOMAIN sorted : \E j \in DOMAIN projections : sorted[i] = projections[j]
      /\ \A j \in DOMAIN projections : \E i \in DOMAIN sorted : sorted[i] = projections[j]
  BY <1>1, SortKeeps DEF IInv, TypeOK, ViewInv
<1>4. TypeOK'
  BY <1>1, <1>2, <1>3 DEF IInv, TypeOK
<1>5. \A i \in DOMAIN sorted : Sound(sorted[i])
  BY <1>3 DEF IInv, ViewInv
<1>6. ViewInv'
  BY <1>1, <1>2, <1>3, <1>5 DEF ViewInv, Sound, Creatable
<1>7. ReopenInv'
  BY <1>2 DEF IInv, ReopenInv, ReopenedViewIsTheSame
<1>8. HostInv'
  <2>1. \A host \in created : NearSource(sorted, host)
    BY <1>3 DEF IInv, HostInv, NearSource
  <2> QED
    BY <1>1, <1>2, <2>1 DEF HostInv, GuestCwdIsUsable
<1> QED
  BY <1>4, <1>6, <1>7, <1>8 DEF IInv

(* The view does not change any more; what is made on the host is below a  *)
(* source or above one, and the cwd that is kept is among it.              *)
LEMMA ChooseCwdIInv == ASSUME IInv, NEW c \in Cwds, ChooseCwd(c) PROVE IInv'
<1> DEFINE cwd  == Normalize(c)
           host == ResolveProjected(projections, cwd)
<1>1. cwd \in Path /\ Root \in Path
  BY BindAssumption, NormalizeType, EmptySeq DEF Path, Root
<1>2. /\ phase = "opened" /\ phase' = "placed"
      /\ UNCHANGED <<links, projections, destinations, supervisorView>>
  BY DEF ChooseCwd
<1>3. /\ projections \in Seq(Projections) /\ host \in Path
  BY <1>1, ResolveType DEF IInv, TypeOK
<1> HIDE DEF cwd
<1>4. \/ guestCwd' = cwd /\ host \in Dirs /\ UNCHANGED created
      \/ guestCwd' = Root /\ UNCHANGED created
      \/ /\ guestCwd' = cwd /\ Projects(projections, cwd)
         /\ created' = created \cup (WithParents(host) \ HostDirs)
  BY DEF ChooseCwd, MayCreate, cwd
<1>5. \A made \in WithParents(host) : made \in Path /\ IsPrefix(made, host)
  BY <1>3, ParentsArePrefixes
<1>6. TypeOK'
  BY <1>1, <1>2, <1>4, <1>5 DEF IInv, TypeOK
<1>7. ViewInv'
  BY <1>2 DEF IInv, ViewInv, Sound, Creatable, Opened
<1>8. ReopenInv'
  <2>1. supervisorView' = <<>> /\ destinations' = {}
    BY <1>2 DEF IInv, ReopenInv
  <2>2. Len(projections') \in Nat
    BY <1>2, <1>3
  <2> QED
    BY <1>2, <2>1, <2>2 DEF ReopenInv, ReopenedViewIsTheSame
<1>9. ASSUME Projects(projections, cwd), NEW made \in WithParents(host)
      PROVE  NearSource(projections, made)
  <2> DEFINE i == ProjectionIndex(projections, cwd)
  <2>1. i \in DOMAIN projections /\ IsPrefix(projections[i].source, host)
    BY <1>1, <1>3, <1>9, SearchStops, ResolvesBelow DEF Selects
  <2>2. projections[i].source \in Path
    <3>1. projections[i] \in Projections
      BY <1>3, <2>1
    <3> QED
      BY <3>1 DEF Projections
  <2>3. IsPrefix(projections[i].source, made) \/ IsPrefix(made, projections[i].source)
    BY <1>3, <1>5, <1>9, <2>1, <2>2, PrefixesCompare
  <2> QED
    BY <2>1, <2>3 DEF NearSource
<1>10. \A made \in created' : NearSource(projections, made)
  BY <1>4, <1>9 DEF IInv, HostInv
<1>11. host \in WithParents(host)
  <2>1. Len(host) \in 0 .. Len(host) /\ SubSeq(host, 1, Len(host)) = host
    BY <1>3, SubSeqFull DEF Path
  <2> QED
    BY <2>1 DEF WithParents
<1>12. guestCwd' = Root \/ (guestCwd' = cwd /\ host \in Dirs')
  BY <1>4, <1>11 DEF Dirs
<1>13. HostInv'
  BY <1>2, <1>10, <1>12 DEF HostInv, GuestCwdIsUsable
<1> QED
  BY <1>6, <1>7, <1>8, <1>13 DEF IInv

(* The second open refuses nothing that the first has accepted, and finds  *)
(* canonical sources and normalized destinations.                          *)
LEMMA ReopenBindIInv == ASSUME IInv, ReopenBind PROVE IInv'
<1> DEFINE n == Len(supervisorView) + 1
           b == BindSpec(projections[n])
<1>1. /\ phase = "placed" /\ Len(supervisorView) < Len(projections)
      /\ UNCHANGED <<links, projections, guestCwd>>
  BY DEF ReopenBind
<1>2. /\ projections \in Seq(Projections) /\ supervisorView \in Seq(Projections)
      /\ n \in DOMAIN projections /\ projections[n] \in Projections
  BY <1>1 DEF IInv, TypeOK
<1>3. /\ projections[n].source \in Path /\ projections[n].destination \in Path
      /\ b.source = projections[n].source /\ b.absolute = TRUE
      /\ b.destination = projections[n].destination
  BY <1>2 DEF Projections, BindSpec
<1> HIDE DEF b
<1>4. Destination(b) = projections[n].destination
  BY <1>3, NormalizeKeepsNormal DEF Destination
<1>5. Sound(projections[n])
  BY <1>2 DEF IInv, ViewInv
<1>6. b.source \in DOMAIN links /\ links[b.source] = b.source
  BY <1>3, <1>5 DEF Sound, Stable, IInv, TypeOK
<1>7. Projected(b) = projections[n]
  BY <1>2, <1>3, <1>4, <1>6 DEF Projected, Projections
<1>8. Destination(b) \notin destinations
  <2>1. SUFFICES ASSUME Destination(b) \in destinations PROVE FALSE
    OBVIOUS
  <2>2. PICK i \in DOMAIN supervisorView : Destination(b) = projections[i].destination
    BY <1>1, <2>1 DEF IInv, ReopenInv
  <2>3. i # n /\ i \in DOMAIN projections
    BY <1>1, <1>2
  <2> QED
    BY <1>2, <1>4, <2>2, <2>3 DEF IInv, ViewInv, Distinct
<1>9. ~Refused(b)
  BY <1>3, <1>4, <1>5, <1>6, <1>8 DEF Refused, Acceptable, Sound
<1>10. /\ Takes(b) /\ phase' = "placed"
       /\ supervisorView' = Append(supervisorView, projections[n])
  BY <1>1, <1>7, <1>9 DEF ReopenBind, b
<1>11. b.destination \in Written
  BY <1>3 DEF Path, Written
<1>12. /\ destinations' = destinations \cup {projections[n].destination}
       /\ created \subseteq created'
       /\ \A made \in created' :
            made \in created \/ (made \in Path /\ IsPrefix(made, projections[n].source))
  BY <1>4, <1>6, <1>7, <1>10, <1>11, TakesFacts DEF IInv
<1> HIDE DEF n
<1>13. TypeOK'
  BY <1>1, <1>2, <1>3, <1>10, <1>12 DEF IInv, TypeOK
<1>14. ViewInv'
  BY <1>1, <1>10 DEF IInv, ViewInv, Sound, Creatable, Opened
<1>15. /\ Len(supervisorView') = n /\ n <= Len(projections')
       /\ \A i \in DOMAIN supervisorView : supervisorView'[i] = supervisorView[i]
       /\ supervisorView'[n] = projections[n] /\ n \in DOMAIN supervisorView'
       /\ \A i \in DOMAIN supervisorView' : i \in DOMAIN supervisorView \/ i = n
       /\ \A i \in DOMAIN supervisorView : i \in DOMAIN supervisorView'
  BY <1>1, <1>2, <1>10 DEF n
<1>16. ReopenInv'
  <2>1. \A i \in DOMAIN supervisorView : supervisorView[i] = projections[i]
    BY <1>1 DEF IInv, ReopenInv
  <2>2. \A i \in DOMAIN supervisorView' : supervisorView'[i] = projections'[i]
    BY <1>1, <1>15, <2>1
  <2>3. \A path \in destinations' : \E i \in DOMAIN supervisorView' :
          path = projections'[i].destination
    BY <1>1, <1>12, <1>15 DEF IInv, ReopenInv
  <2> QED
    BY <1>10, <1>15, <2>2, <2>3 DEF ReopenInv, ReopenedViewIsTheSame
<1>17. HostInv'
  <2>1. \A made \in created' : NearSource(projections, made)
    BY <1>2, <1>12 DEF IInv, HostInv, NearSource
  <2>2. guestCwd = Root \/ ResolveProjected(projections, guestCwd) \in Dirs'
    BY <1>1, <1>12 DEF IInv, HostInv, GuestCwdIsUsable, Dirs
  <2> QED
    BY <1>1, <2>1, <2>2 DEF HostInv, GuestCwdIsUsable
<1> QED
  BY <1>13, <1>14, <1>16, <1>17 DEF IInv

(* What it has collected is sorted already.                                *)
LEMMA SortReopenedIInv == ASSUME IInv, SortReopened PROVE IInv'
<1>1. /\ phase = "placed" /\ phase' = "reopened" /\ destinations' = {}
      /\ Len(supervisorView) = Len(projections)
      /\ UNCHANGED <<links, projections, created, guestCwd>>
  BY DEF SortReopened
<1>2. projections \in Seq(Projections) /\ DeepestFirst(projections)
  BY <1>1 DEF IInv, TypeOK, ViewInv, Opened
<1>3. supervisorView = projections
  <2>1. supervisorView \in Seq(Projections)
    BY DEF IInv, TypeOK
  <2>2. \A i \in 1 .. Len(projections) : supervisorView[i] = projections[i]
    BY <1>1, <2>1 DEF IInv, ReopenInv
  <2> QED
    BY <1>1, <1>2, <2>1, <2>2, SeqEqual
<1>4. supervisorView' = projections
  BY <1>2, <1>3, SortOfSorted DEF SortReopened
<1>5. TypeOK'
  BY <1>1, <1>2, <1>4 DEF IInv, TypeOK
<1>6. ViewInv'
  BY <1>1 DEF IInv, ViewInv, Sound, Creatable, Opened
<1>7. ReopenInv'
  BY <1>1, <1>4 DEF ReopenInv, ReopenedViewIsTheSame
<1>8. HostInv'
  BY <1>1 DEF IInv, HostInv, GuestCwdIsUsable, Dirs
<1> QED
  BY <1>5, <1>6, <1>7, <1>8 DEF IInv

(* A link matters to the binds that are still to be taken.                 *)
LEMMA RelinkIInv == ASSUME IInv, NEW map \in LinkMaps, Relink(map) PROVE IInv'
<1>1. /\ links' \in LinkMaps
      /\ UNCHANGED <<phase, projections, destinations, created, guestCwd, supervisorView>>
  BY DEF Relink
<1>2. TypeOK'
  BY <1>1 DEF IInv, TypeOK
<1>3. ViewInv'
  BY <1>1 DEF IInv, ViewInv, Sound, Creatable, Opened
<1>4. ReopenInv'
  BY <1>1 DEF IInv, ReopenInv, ReopenedViewIsTheSame
<1>5. HostInv'
  BY <1>1 DEF IInv, HostInv, GuestCwdIsUsable, Dirs
<1> QED
  BY <1>2, <1>3, <1>4, <1>5 DEF IInv

(* Every step keeps the invariant.                                         *)
LEMMA NextIInv == IInv /\ [Next]_vars => IInv'
<1>1. SUFFICES ASSUME IInv, [Next]_vars PROVE IInv'
  OBVIOUS
<1>2. ASSUME UNCHANGED vars PROVE IInv'
  <2>1. TypeOK'
    BY <1>1, <1>2 DEF vars, IInv, TypeOK
  <2>2. ViewInv'
    BY <1>1, <1>2 DEF vars, IInv, ViewInv, Sound, Creatable, Opened
  <2>3. ReopenInv'
    BY <1>1, <1>2 DEF vars, IInv, ReopenInv, ReopenedViewIsTheSame
  <2>4. HostInv'
    BY <1>1, <1>2 DEF vars, IInv, HostInv, GuestCwdIsUsable, Dirs
  <2> QED
    BY <2>1, <2>2, <2>3, <2>4 DEF IInv
<1>3. CASE Done
  BY <1>2, <1>3 DEF Done
<1> QED
  BY <1>1, <1>2, <1>3, OpenBindIInv, SortIInv, ChooseCwdIInv, ReopenBindIInv,
     SortReopenedIInv, RelinkIInv DEF Next

(* Whatever binds a command line holds, in whatever order, the invariant   *)
(* above holds while BindView::open takes them and ever after.             *)
THEOREM Inductive == Spec => []IInv
BY InitIInv, NextIInv, PTL DEF Spec

-------------------------------------------------------------------------------
(* Every projection keeps a normalized destination and a canonical source. *)
THEOREM TypeCorrectness == Spec => []TypeOK
<1>1. IInv => TypeOK
  BY DEF IInv
<1> QED
  BY <1>1, Inductive, PTL

(* linux::run can open a view a second time for its supervisor thread, and *)
(* gets the main thread's, projection by projection: its destinations pass *)
(* every test again, its sources are no links, and the sort is stable.     *)
THEOREM SameView == Spec => []ReopenedViewIsTheSame
<1>1. IInv => ReopenedViewIsTheSame
  BY DEF IInv, ReopenInv
<1> QED
  BY <1>1, Inductive, PTL

(* main settles on a guest cwd that exists, or on "/".                     *)
THEOREM UsableCwd == Spec => []GuestCwdIsUsable
<1>1. IInv => GuestCwdIsUsable
  BY DEF IInv, HostInv
<1> QED
  BY <1>1, Inductive, PTL

(* create_dir_all is asked for sources and for directories below them.     *)
THEOREM CreatesForSources == Spec => []CreatesOnlyForSources
<1>1. IInv => CreatesOnlyForSources
  BY DEF IInv, HostInv, CreatesOnlyForSources, NearSource
<1> QED
  BY <1>1, Inductive, PTL

(* In an opened view the first projection that matches a guest path is the *)
(* deepest of those that do, for any number of binds in any order.         *)
THEOREM LongestPrefix == Spec => []LongestDestinationWins
<1>1. IInv => LongestDestinationWins
  <2>1. SUFFICES ASSUME IInv, phase = "opened", NEW path,
                        NEW i \in DOMAIN projections, NEW j \in DOMAIN projections,
                        Selects(projections, i, path), Covers(projections[j], path), j # i
                 PROVE  Depth(projections[j]) < Depth(projections[i])
    BY DEF LongestDestinationWins
  <2>2. /\ projections \in Seq(Projections)
        /\ Distinct(projections) /\ DeepestFirst(projections)
    BY <2>1 DEF IInv, TypeOK, ViewInv, Opened
  <2> QED
    BY <2>1, <2>2, FirstIsLongest
<1> QED
  BY <1>1, Inductive, PTL

-------------------------------------------------------------------------------
(* A view as open returns it.                                              *)
OpenedView(view) ==
  /\ view \in Seq(Projections) /\ Distinct(view) /\ DeepestFirst(view)
  /\ \A i \in DOMAIN view :
       view[i].destination # Root /\ ~IsReserved(view[i].destination)

(* While a view is open it is one.                                        *)
LEMMA ViewIsOpened == IInv /\ Opened => OpenedView(projections)
BY DEF IInv, TypeOK, ViewInv, Sound, OpenedView

(* The components of a projection are normalized paths.                    *)
LEMMA ProjectionType ==
  ASSUME NEW view \in Seq(Projections), NEW i \in DOMAIN view
  PROVE  view[i].source \in Path /\ view[i].destination \in Path
<1>1. view[i] \in Projections
  OBVIOUS
<1> QED
  BY <1>1 DEF Projections

(* So are the tails they are made with.                                   *)
LEMMA TailType == ASSUME NEW t \in Tails PROVE t \in Path
<1>1. CASE t = <<>>
  BY <1>1, EmptySeq DEF Path
<1>2. ASSUME NEW n \in Names, t = <<n>> PROVE t \in Path
  BY <1>2 DEF Path
<1> QED
  BY <1>1, <1>2 DEF Tails

(* The paths the properties ask about are normalized.                      *)
LEMMA AskedType ==
  ASSUME projections \in Seq(Projections)
  PROVE  GuestPaths \subseteq Path /\ HostPaths \subseteq Path
<1>1. \A t \in Tails : t \in Path
  BY TailType
<1>2. ASSUME NEW path \in Path, NEW below \in Under(path) PROVE below \in Path
  <2>1. PICK t \in Tails : below = path \o t
    BY <1>2 DEF Under
  <2> QED
    BY <1>1, <1>2, <2>1, PrefixOfConcat
<1>3. \A path \in GuestPaths : path \in Path
  BY <1>1, <1>2, ProjectionType DEF GuestPaths
<1>4. \A path \in HostPaths : path \in Path
  BY <1>2, ProjectionType DEF HostPaths
<1> QED
  BY <1>3, <1>4

(* A path that is projected is below its projection's source, on the host, *)
(* and is neither reserved nor the root; any other is its own host path.   *)
THEOREM BelowSource == Spec => []ResolvesBelowSource
<1>1. IInv => ResolvesBelowSource
  <2>1. SUFFICES ASSUME IInv, phase = "opened", NEW path \in GuestPaths
                 PROVE  /\ Projects(projections, path) =>
                             /\ ~IsReserved(path) /\ path # Root
                             /\ \E i \in DOMAIN projections :
                                  /\ Covers(projections[i], path)
                                  /\ IsPrefix(projections[i].source,
                                              ResolveProjected(projections, path))
                        /\ ~Projects(projections, path) =>
                             ResolveProjected(projections, path) = path
    BY DEF ResolvesBelowSource
  <2>2. OpenedView(projections) /\ projections \in Seq(Projections)
    BY <2>1, ViewIsOpened DEF Opened, OpenedView
  <2>3. path \in Path
    BY <2>1, <2>2, AskedType
  <2>4. ASSUME Projects(projections, path)
        PROVE  /\ ~IsReserved(path) /\ path # Root
               /\ \E i \in DOMAIN projections :
                    /\ Covers(projections[i], path)
                    /\ IsPrefix(projections[i].source, ResolveProjected(projections, path))
    <3> DEFINE i == ProjectionIndex(projections, path)
    <3>1. Selects(projections, i, path)
      BY <2>2, <2>4, SearchStops
    <3>2. /\ i \in DOMAIN projections /\ ~IsReserved(path)
          /\ IsPrefix(projections[i].destination, path)
      BY <3>1 DEF Selects, Covers
    <3>3. projections[i].destination \in Path /\ projections[i].destination # Root
      BY <2>2, <3>2, ProjectionType DEF OpenedView
    <3>4. path # Root
      BY <3>2, <3>3 DEF IsPrefix, Root, Path
    <3>5. IsPrefix(projections[i].source, ResolveProjected(projections, path))
      BY <2>2, <2>3, <3>1, ResolvesBelow
    <3> QED
      BY <3>2, <3>4, <3>5 DEF Covers
  <2> QED
    BY <2>4 DEF ResolveProjected
<1> QED
  BY <1>1, Inductive, PTL

(* Both ends of a rename that same_projection admits lie below one source. *)
THEOREM RenameInSource == Spec => []RenameStaysInSource
<1>1. IInv => RenameStaysInSource
  <2>1. SUFFICES ASSUME IInv, phase = "opened", NEW old \in GuestPaths, NEW new \in GuestPaths,
                        SameProjection(projections, old, new)
                 PROVE  \E i \in DOMAIN projections :
                          /\ IsPrefix(projections[i].source, ResolveProjected(projections, old))
                          /\ IsPrefix(projections[i].source, ResolveProjected(projections, new))
    BY DEF RenameStaysInSource
  <2>2. projections \in Seq(Projections)
    BY <2>1 DEF IInv, TypeOK
  <2>3. old \in Path /\ new \in Path
    BY <2>1, <2>2, AskedType
  <2> DEFINE i == ProjectionIndex(projections, old)
  <2>4. Selects(projections, i, old) /\ Selects(projections, i, new)
    BY <2>1, <2>2, SearchStops DEF SameProjection
  <2>5. i \in DOMAIN projections
    BY <2>4 DEF Selects
  <2> QED
    BY <2>2, <2>3, <2>4, <2>5, ResolvesBelow
<1> QED
  BY <1>1, Inductive, PTL

-------------------------------------------------------------------------------
(* Where any projection covers a path, the search finds one.               *)
LEMMA SearchFinds ==
  ASSUME NEW view \in Seq(Projections), NEW path, ~IsReserved(path),
         NEW j \in DOMAIN view, Covers(view[j], path)
  PROVE  \E i \in DOMAIN view : Selects(view, i, path)
<1> DEFINE T == {i \in DOMAIN view : Covers(view[i], path)}
<1>1. T \in SUBSET Nat /\ T # {}
  OBVIOUS
<1>2. PICK i \in T : \A k \in T : i <= k
  BY <1>1, LeastNumber
<1>3. \A k \in DOMAIN view : k < i => ~Covers(view[k], path)
  BY <1>1, <1>2
<1> QED
  BY <1>2, <1>3 DEF Selects

(* The guest name of a host path is below the destination of the deepest   *)
(* source; what hides it there can only be a deeper destination.           *)
LEMMA LeadsBack ==
  ASSUME NEW view, OpenedView(view), NEW host \in Path, ContainingSources(view, host) # {}
  PROVE  LET guest == VirtualForHost(view, host) IN
         \/ ResolveProjected(view, guest) = host
         \/ \E i \in DOMAIN view :
              Selects(view, i, guest) /\ Depth(view[i]) > Depth(view[ReverseIndex(view, host)])
<1> DEFINE r     == ReverseIndex(view, host)
           rest  == SubSeq(host, Len(view[r].source) + 1, Len(host))
           guest == view[r].destination \o rest
<1>1. view \in Seq(Projections)
  BY DEF OpenedView
<1>2. r \in DOMAIN view /\ IsPrefix(view[r].source, host)
  BY <1>1, DeepestSource DEF ContainingSources
<1>3. VirtualForHost(view, host) = guest
  BY DEF VirtualForHost
<1> HIDE DEF r
<1>4. view[r].source \in Path /\ view[r].destination \in Path
  BY <1>1, <1>2, ProjectionType
<1>5. rest \in Path /\ host = view[r].source \o rest
  BY <1>2, <1>4, PrefixSplits
<1> HIDE DEF rest
<1>6. /\ guest \in Path /\ IsPrefix(view[r].destination, guest)
      /\ SubSeq(guest, Len(view[r].destination) + 1, Len(guest)) = rest
  BY <1>4, <1>5, PrefixOfConcat
<1>7. ~IsReserved(guest)
  <2>1. view[r].destination # <<>> /\ ~IsReserved(view[r].destination)
    BY <1>2 DEF OpenedView, Root
  <2>2. Len(view[r].destination) \in Nat \ {0} /\ Len(rest) \in Nat
    BY <1>4, <1>5, <2>1 DEF Path
  <2>3. guest[1] = view[r].destination[1]
    BY <1>4, <1>5, <2>2, ConcatProperties DEF Path
  <2>4. \A path \in Path : path # <<>> => Head(path) = path[1]
    BY DEF Path
  <2>5. Head(guest) = guest[1] /\ Head(view[r].destination) = view[r].destination[1]
    <3>1. guest # <<>>
      BY <1>4, <1>5, <2>2, ConcatProperties DEF Path
    <3> HIDE DEF guest
    <3> QED
      BY <1>4, <1>6, <2>1, <2>4, <3>1
  <2> QED
    BY <2>1, <2>3, <2>5 DEF IsReserved, Root
<1> HIDE DEF guest
<1>8. PICK i \in DOMAIN view : Selects(view, i, guest)
  BY <1>1, <1>2, <1>6, <1>7, SearchFinds DEF Covers
<1>9. CASE i = r
  <2>1. ResolveProjected(view, guest) = ResolveBelow(view[r], guest)
    BY <1>1, <1>6, <1>8, <1>9, ResolvesBelow
  <2> QED
    BY <1>3, <1>5, <1>6, <2>1 DEF ResolveBelow
<1>10. CASE i # r
  <2>1. Depth(view[r]) < Depth(view[i])
    BY <1>1, <1>2, <1>6, <1>8, <1>10, FirstIsLongest DEF OpenedView, Covers
  <2>2. Depth(view[r]) \in Nat /\ Depth(view[i]) \in Nat
    BY <1>1, <1>2, ProjectionType DEF Depth, Path
  <2> QED
    BY <1>3, <1>8, <2>1, <2>2 DEF r
<1> QED
  BY <1>9, <1>10

(* virtual_for_host names a host path so that resolve_projected leads back *)
(* to it, unless a deeper destination hides the name.                      *)
THEOREM ReverseLeadsBack == Spec => []ReverseMappingLeadsBack
<1>1. IInv => ReverseMappingLeadsBack
  <2>1. SUFFICES ASSUME IInv, phase = "opened", NEW host \in HostPaths
                 PROVE  LET guest == VirtualForHost(projections, host) IN
                        \/ ResolveProjected(projections, guest) = host
                        \/ \E i \in DOMAIN projections :
                             /\ Selects(projections, i, guest)
                             /\ Depth(projections[i])
                                  > Depth(projections[ReverseIndex(projections, host)])
    BY DEF ReverseMappingLeadsBack
  <2>2. OpenedView(projections) /\ projections \in Seq(Projections)
    BY <2>1, ViewIsOpened DEF Opened, OpenedView
  <2>3. host \in Path
    BY <2>1, <2>2, AskedType
  <2>4. PICK i \in DOMAIN projections : host \in Under(projections[i].source)
    BY <2>1 DEF HostPaths
  <2>5. PICK t \in Tails : host = projections[i].source \o t
    BY <2>4 DEF Under
  <2>6. IsPrefix(projections[i].source, host)
    BY <2>2, <2>5, TailType, ProjectionType, PrefixOfConcat
  <2>7. ContainingSources(projections, host) # {}
    BY <2>6 DEF ContainingSources
  <2> QED
    BY <2>2, <2>3, <2>7, LeadsBack
<1> QED
  BY <1>1, Inductive, PTL

-------------------------------------------------------------------------------
(* What the modules of the supervisor take for granted: ViewAssumption of  *)
(* MountTable and GuestAssumption of GuestCwd, of the view it has reopened *)
(* and of the directory the command starts in ("/" is on every host).      *)
ViewForSupervisor ==
  phase = "reopened" =>
    /\ supervisorView \in Seq(Projections)
    /\ \A i, j \in DOMAIN supervisorView : i < j =>
         Len(supervisorView[i].destination) >= Len(supervisorView[j].destination)
    /\ \A i, j \in DOMAIN supervisorView : i # j =>
         supervisorView[i].destination # supervisorView[j].destination
    /\ guestCwd \in Path
    /\ ResolveProjected(supervisorView, guestCwd) \in Dirs \cup {Root}

(* "/" is on the host what it is for the guest: no bind covers it.         *)
LEMMA RootIsRoot ==
  ASSUME NEW view, OpenedView(view)
  PROVE  ResolveProjected(view, Root) = Root
<1>1. ASSUME NEW i, Selects(view, i, Root) PROVE FALSE
  <2>1. i \in DOMAIN view /\ IsPrefix(view[i].destination, Root)
    BY <1>1 DEF Selects, Covers
  <2>2. view[i].destination \in Seq(Names) /\ view[i].destination # <<>>
    BY <2>1, ProjectionType DEF OpenedView, Path, Root
  <2>3. Len(view[i].destination) \in Nat \ {0}
    BY <2>2, EmptySeq
  <2>4. Len(view[i].destination) <= Len(Root) /\ Len(Root) = 0
    BY <2>1 DEF IsPrefix, Root
  <2> QED
    BY <2>3, <2>4
<1>2. ~Projects(view, Root)
  BY <1>1 DEF Projects
<1> QED
  BY <1>2 DEF ResolveProjected

(* Whatever the binds and the --cwd argument, the view the supervisor has  *)
(* reopened and the guest cwd are what the modules of its handlers assume. *)
THEOREM SupervisorAssumptions == Spec => []ViewForSupervisor
<1>1. IInv => ViewForSupervisor
  <2>1. SUFFICES ASSUME IInv, phase = "reopened" PROVE ViewForSupervisor
    BY DEF ViewForSupervisor
  <2>2. supervisorView = projections /\ guestCwd \in Path
    BY <2>1 DEF IInv, TypeOK, ReopenInv, ReopenedViewIsTheSame
  <2>3. OpenedView(projections)
    BY <2>1, ViewIsOpened DEF Opened
  <2>4. /\ \A i, j \in DOMAIN projections : i < j =>
             Len(projections[i].destination) >= Len(projections[j].destination)
        /\ \A i, j \in DOMAIN projections : i # j =>
             projections[i].destination # projections[j].destination
    BY <2>3 DEF OpenedView, Distinct, DeepestFirst, Depth
  <2>5. ResolveProjected(projections, guestCwd) \in Dirs \cup {Root}
    BY <2>1, <2>3, RootIsRoot DEF IInv, HostInv, GuestCwdIsUsable
  <2> QED
    BY <2>2, <2>3, <2>4, <2>5 DEF ViewForSupervisor, OpenedView
<1> QED
  BY <1>1, Inductive, PTL

-------------------------------------------------------------------------------
(***************************************************************************)
(* normalize_virtual keeps a stack; NormalizeIsLexical counts.  The two    *)
(* are compared after every component: what is on the stack are the names  *)
(* that have survived so far, and a name is as far from the top as the     *)
(* names after it exceed the ".." after it.                                *)
(***************************************************************************)
SurvivorsUpTo(c, n) ==
  {i \in 1 .. n :
     /\ c[i] \in Names
     /\ \A j \in i .. n : Count(c, i, j, Names) > Count(c, i, j, {DotDot})}

Rank(S, i) == Cardinality({k \in S : k <= i})
FromOn(S, i) == Cardinality({k \in S : k >= i})

StackHolds(stack, c, n) ==
  LET S == SurvivorsUpTo(c, n) IN
  /\ stack \in Path /\ Len(stack) = Cardinality(S)
  /\ \A i \in S : stack[Rank(S, i)] = c[i]
  /\ \A i \in S : Count(c, i, n, Names) - Count(c, i, n, {DotDot}) = FromOn(S, i)

(* Counting one component more.                                            *)
LEMMA CountNext ==
  ASSUME NEW c, NEW i \in Nat, NEW n \in Nat, i <= n + 1, NEW S
  PROVE  /\ Count(c, i, n, S) \in Nat
         /\ Count(c, i, n + 1, S) =
              IF c[n + 1] \in S THEN Count(c, i, n, S) + 1 ELSE Count(c, i, n, S)
<1> DEFINE C == {k \in i .. n : c[k] \in S}
           D == {k \in i .. n + 1 : c[k] \in S}
<1>1. IsFiniteSet(i .. n)
  BY FS_Interval
<1>2. IsFiniteSet(C) /\ Cardinality(C) \in Nat
  BY <1>1, FS_Subset, FS_CardinalityType
<1>3. CASE c[n + 1] \in S
  <2>1. D = C \cup {n + 1} /\ n + 1 \notin C
    BY <1>3
  <2>2. Cardinality(D) = Cardinality(C) + 1
    BY <1>2, <2>1, FS_AddElement
  <2> QED
    BY <1>2, <1>3, <2>2 DEF Count
<1>4. CASE c[n + 1] \notin S
  <2>1. D = C
    BY <1>4
  <2> QED
    BY <1>2, <1>4, <2>1 DEF Count
<1> QED
  BY <1>3, <1>4

(* A name that has just been read has nothing after it.                    *)
LEMMA CountOne ==
  ASSUME NEW c, NEW n \in Nat, NEW S
  PROVE  Count(c, n + 1, n + 1, S) = IF c[n + 1] \in S THEN 1 ELSE 0
<1>1. Count(c, n + 1, n, S) = 0
  <2>1. {k \in n + 1 .. n : c[k] \in S} = {}
    OBVIOUS
  <2> QED
    BY <2>1, FS_EmptySet DEF Count
<1>2. Count(c, n + 1, n + 1, S) =
        IF c[n + 1] \in S THEN Count(c, n + 1, n, S) + 1 ELSE Count(c, n + 1, n, S)
  BY CountNext
<1> QED
  BY <1>1, <1>2

(* Sets of positions are finite, and so are their parts.                   *)
LEMMA PositionsFinite ==
  ASSUME NEW c, NEW n \in Nat, NEW T \in SUBSET SurvivorsUpTo(c, n)
  PROVE  IsFiniteSet(T) /\ Cardinality(T) \in Nat
<1>1. IsFiniteSet(1 .. n)
  BY FS_Interval
<1>2. T \subseteq 1 .. n
  BY DEF SurvivorsUpTo
<1> QED
  BY <1>1, <1>2, FS_Subset, FS_CardinalityType

(* Who survives one component more.                                        *)
LEMMA SurvivorsNext ==
  ASSUME NEW c, NEW n \in Nat, NEW i \in 1 .. n
  PROVE  i \in SurvivorsUpTo(c, n + 1) <=>
           /\ i \in SurvivorsUpTo(c, n)
           /\ Count(c, i, n + 1, Names) > Count(c, i, n + 1, {DotDot})
<1>1. i .. n + 1 = (i .. n) \cup {n + 1}
  OBVIOUS
<1> QED
  BY <1>1 DEF SurvivorsUpTo

(* "." changes neither the stack nor the survivors.                        *)
LEMMA StackIgnoresDot ==
  ASSUME NEW c, NEW n \in Nat, NEW stack, StackHolds(stack, c, n), c[n + 1] = Dot
  PROVE  StackHolds(Walk(stack, c[n + 1]), c, n + 1)
<1> DEFINE S == SurvivorsUpTo(c, n)
           T == SurvivorsUpTo(c, n + 1)
<1>1. c[n + 1] \notin Names /\ c[n + 1] \notin {DotDot}
  BY NamesAssumption DEF Dot, DotDot
<1>2. \A i \in 1 .. n : /\ Count(c, i, n + 1, Names) = Count(c, i, n, Names)
                        /\ Count(c, i, n + 1, {DotDot}) = Count(c, i, n, {DotDot})
  BY <1>1, CountNext
<1>3. \A i \in 1 .. n : i \in S => Count(c, i, n, Names) > Count(c, i, n, {DotDot})
  BY DEF SurvivorsUpTo
<1>4. T = S
  <2>1. \A i \in 1 .. n : i \in T <=> i \in S
    BY <1>2, <1>3, SurvivorsNext
  <2>2. T \subseteq 1 .. n
    BY <1>1 DEF SurvivorsUpTo
  <2>3. S \subseteq 1 .. n
    BY DEF SurvivorsUpTo
  <2> QED
    BY <2>1, <2>2, <2>3
<1>5. Walk(stack, c[n + 1]) = stack
  BY DEF Walk, Dot, DotDot
<1>6. S \subseteq 1 .. n
  BY DEF SurvivorsUpTo
<1> HIDE DEF S, T
<1>7. \A i \in S : Count(c, i, n + 1, Names) - Count(c, i, n + 1, {DotDot}) = FromOn(S, i)
  BY <1>2, <1>6 DEF StackHolds, S
<1> QED
  BY <1>4, <1>5, <1>7 DEF StackHolds, S, T

(* A name is pushed and survives, and nobody is nearer to the top.         *)
LEMMA StackPushes ==
  ASSUME NEW c, NEW n \in Nat, NEW stack, StackHolds(stack, c, n), c[n + 1] \in Names
  PROVE  StackHolds(Walk(stack, c[n + 1]), c, n + 1)
<1> DEFINE S == SurvivorsUpTo(c, n)
           T == SurvivorsUpTo(c, n + 1)
           pushed == Append(stack, c[n + 1])
<1>1. c[n + 1] \notin {Dot, DotDot}
  BY NamesAssumption
<1>2. \A i \in 1 .. n : /\ Count(c, i, n + 1, Names) = Count(c, i, n, Names) + 1
                        /\ Count(c, i, n + 1, {DotDot}) = Count(c, i, n, {DotDot})
                        /\ Count(c, i, n, Names) \in Nat /\ Count(c, i, n, {DotDot}) \in Nat
  BY <1>1, CountNext
<1>3. Count(c, n + 1, n + 1, Names) = 1 /\ Count(c, n + 1, n + 1, {DotDot}) = 0
  BY <1>1, CountOne
<1>4. \A i \in 1 .. n : i \in S => Count(c, i, n, Names) > Count(c, i, n, {DotDot})
  BY DEF SurvivorsUpTo
<1>5. S \subseteq 1 .. n /\ n + 1 \notin S
  BY DEF SurvivorsUpTo
<1>6. T = S \cup {n + 1}
  <2>1. ASSUME NEW i \in 1 .. n PROVE i \in T <=> i \in S
    <3> DEFINE names == Count(c, i, n, Names)
               ups   == Count(c, i, n, {DotDot})
    <3>1. /\ names \in Nat /\ ups \in Nat
          /\ Count(c, i, n + 1, Names) = names + 1 /\ Count(c, i, n + 1, {DotDot}) = ups
          /\ i \in S => names > ups
      BY <1>2, <1>4
    <3>2. i \in T <=> i \in S /\ Count(c, i, n + 1, Names) > Count(c, i, n + 1, {DotDot})
      BY SurvivorsNext
    <3> HIDE DEF names, ups, S, T
    <3>3. i \in S => names + 1 > ups
      BY <3>1
    <3> QED
      BY <3>1, <3>2, <3>3
  <2>2. T \subseteq 1 .. n + 1
    BY DEF SurvivorsUpTo
  <2>3. n + 1 \in T
    <3>1. \A j \in n + 1 .. n + 1 : j = n + 1
      OBVIOUS
    <3> QED
      BY <1>3, <3>1 DEF SurvivorsUpTo
  <2> QED
    BY <1>5, <2>1, <2>2, <2>3
<1>7. IsFiniteSet(S) /\ Cardinality(S) \in Nat /\ Cardinality(T) = Cardinality(S) + 1
  BY <1>5, <1>6, PositionsFinite, FS_AddElement
<1>8. stack \in Path /\ Len(stack) = Cardinality(S)
  BY DEF StackHolds
<1>9. \A i \in S : Rank(T, i) = Rank(S, i) /\ Rank(S, i) \in 1 .. Cardinality(S)
  <2>1. SUFFICES ASSUME NEW i \in S
                 PROVE  Rank(T, i) = Rank(S, i) /\ Rank(S, i) \in 1 .. Cardinality(S)
    OBVIOUS
  <2>2. {k \in T : k <= i} = {k \in S : k <= i}
    BY <1>5, <1>6
  <2>3. /\ IsFiniteSet({k \in S : k <= i})
        /\ Cardinality({k \in S : k <= i}) \in Nat
        /\ Cardinality({k \in S : k <= i}) <= Cardinality(S)
    BY <1>7, FS_Subset, FS_CardinalityType
  <2>4. i \in {k \in S : k <= i}
    BY <1>5
  <2>5. Cardinality({k \in S : k <= i}) # 0
    BY <2>3, <2>4, FS_EmptySet
  <2> QED
    BY <1>7, <2>2, <2>3, <2>5 DEF Rank
<1>10. Rank(T, n + 1) = Cardinality(S) + 1
  <2>1. {k \in T : k <= n + 1} = T
    BY <1>5, <1>6
  <2> QED
    BY <1>7, <2>1 DEF Rank
<1>11. /\ pushed \in Path /\ Len(pushed) = Cardinality(S) + 1
       /\ \A k \in 1 .. Cardinality(S) : pushed[k] = stack[k]
       /\ pushed[Cardinality(S) + 1] = c[n + 1]
  BY <1>8, AppendProperties DEF Path
<1>12. Walk(stack, c[n + 1]) = pushed
  BY <1>1 DEF Walk
<1>13. \A i \in S : FromOn(T, i) = FromOn(S, i) + 1 /\ FromOn(S, i) \in Nat
  <2>1. SUFFICES ASSUME NEW i \in S
                 PROVE  FromOn(T, i) = FromOn(S, i) + 1 /\ FromOn(S, i) \in Nat
    OBVIOUS
  <2>2. {k \in T : k >= i} = {k \in S : k >= i} \cup {n + 1} /\ n + 1 \notin {k \in S : k >= i}
    BY <1>5, <1>6
  <2>3. IsFiniteSet({k \in S : k >= i})
    BY <1>7, FS_Subset
  <2> QED
    BY <2>2, <2>3, FS_AddElement, FS_CardinalityType DEF FromOn
<1>14. FromOn(T, n + 1) = 1
  <2>1. {k \in T : k >= n + 1} = {n + 1}
    BY <1>5, <1>6
  <2> QED
    BY <2>1, FS_Singleton DEF FromOn
<1>15. \A i \in S : stack[Rank(S, i)] = c[i]
  BY DEF StackHolds
<1>16. \A i \in S : Count(c, i, n, Names) - Count(c, i, n, {DotDot}) = FromOn(S, i)
  BY DEF StackHolds
<1> HIDE DEF S, T, pushed
<1>17. \A i \in T : pushed[Rank(T, i)] = c[i]
  BY <1>6, <1>9, <1>10, <1>11, <1>15
<1>18. \A i \in T : Count(c, i, n + 1, Names) - Count(c, i, n + 1, {DotDot}) = FromOn(T, i)
  <2>1. SUFFICES ASSUME NEW i \in T
                 PROVE  Count(c, i, n + 1, Names) - Count(c, i, n + 1, {DotDot}) = FromOn(T, i)
    OBVIOUS
  <2>2. CASE i \in S
    <3> DEFINE names == Count(c, i, n, Names)
               ups   == Count(c, i, n, {DotDot})
    <3>1. i \in 1 .. n
      BY <1>5, <2>2
    <3>2. /\ names \in Nat /\ ups \in Nat
          /\ Count(c, i, n + 1, Names) = names + 1 /\ Count(c, i, n + 1, {DotDot}) = ups
          /\ names - ups = FromOn(S, i)
          /\ FromOn(T, i) = FromOn(S, i) + 1
      BY <1>2, <1>13, <1>16, <2>2, <3>1
    <3> HIDE DEF names, ups
    <3>3. (names + 1) - ups = (names - ups) + 1
      BY <3>2
    <3> QED
      BY <3>2, <3>3
  <2>3. CASE i = n + 1
    BY <1>3, <1>14, <2>3
  <2> QED
    BY <1>6, <2>2, <2>3
<1> QED
  BY <1>7, <1>11, <1>12, <1>17, <1>18 DEF StackHolds, T

(* ".." takes the latest survivor with it: the only one that is not        *)
(* followed by another.                                                    *)
LEMMA StackPops ==
  ASSUME NEW c, NEW n \in Nat, NEW stack, StackHolds(stack, c, n), c[n + 1] = DotDot
  PROVE  StackHolds(Walk(stack, c[n + 1]), c, n + 1)
<1> DEFINE S == SurvivorsUpTo(c, n)
           T == SurvivorsUpTo(c, n + 1)
<1>1. c[n + 1] \notin Names /\ c[n + 1] \in {DotDot}
  BY NamesAssumption
<1>2. \A i \in 1 .. n : /\ Count(c, i, n + 1, Names) = Count(c, i, n, Names)
                        /\ Count(c, i, n + 1, {DotDot}) = Count(c, i, n, {DotDot}) + 1
                        /\ Count(c, i, n, Names) \in Nat /\ Count(c, i, n, {DotDot}) \in Nat
  BY <1>1, CountNext
<1>3. S \subseteq 1 .. n
  BY DEF SurvivorsUpTo
<1>4. T \subseteq 1 .. n
  BY <1>1 DEF SurvivorsUpTo
<1>5. stack \in Path /\ Len(stack) = Cardinality(S)
  BY DEF StackHolds
<1>6. IsFiniteSet(S) /\ Cardinality(S) \in Nat
  BY PositionsFinite
<1>7. \A i \in S : Count(c, i, n, Names) - Count(c, i, n, {DotDot}) = FromOn(S, i)
  BY DEF StackHolds
<1>8. \A i \in S : stack[Rank(S, i)] = c[i]
  BY DEF StackHolds
<1>9. \A i \in 1 .. n : i \in T <=> /\ i \in S
                                    /\ Count(c, i, n + 1, Names) > Count(c, i, n + 1, {DotDot})
  BY SurvivorsNext
<1>10. Walk(stack, c[n + 1]) = Pop(stack)
  BY DEF Walk, Dot, DotDot
<1> HIDE DEF S, T
<1>11. \A i \in S : IsFiniteSet({k \in S : k >= i}) /\ FromOn(S, i) \in Nat
  BY <1>6, FS_Subset, FS_CardinalityType DEF FromOn
<1>12. ASSUME NEW i \in 1 .. n PROVE i \in T <=> i \in S /\ FromOn(S, i) > 1
  <2> DEFINE names == Count(c, i, n, Names)
             ups   == Count(c, i, n, {DotDot})
  <2>1. /\ names \in Nat /\ ups \in Nat
        /\ Count(c, i, n + 1, Names) = names /\ Count(c, i, n + 1, {DotDot}) = ups + 1
        /\ i \in S => names - ups = FromOn(S, i)
    BY <1>2, <1>7
  <2>2. i \in T <=> i \in S /\ Count(c, i, n + 1, Names) > Count(c, i, n + 1, {DotDot})
    BY <1>9
  <2> HIDE DEF names, ups
  <2>3. names > ups + 1 <=> names - ups > 1
    BY <2>1
  <2> QED
    BY <2>1, <2>2, <2>3
<1>13. CASE S = {}
  <2>1. T = {} /\ stack = Root
    BY <1>4, <1>5, <1>9, <1>13, FS_EmptySet DEF Path, Root
  <2>2. Pop(stack) = Root /\ Root \in Path /\ Len(Root) = 0
    BY <2>1, EmptySeq DEF Pop, Root, Path
  <2> QED
    BY <1>10, <2>1, <2>2, FS_EmptySet DEF StackHolds, T
<1>14. CASE S # {}
  <2>1. PICK top \in S : \A k \in S : k <= top
    <3> DEFINE M == {m \in Nat : n - m \in S}
    <3>1. PICK some \in S : TRUE
      BY <1>14
    <3>2. n - some \in Nat /\ n - (n - some) = some
      BY <1>3
    <3>3. M \in SUBSET Nat /\ n - some \in M
      BY <3>2
    <3>4. PICK least \in M : \A m \in M : least <= m
      BY <3>3, LeastNumber
    <3>5. ASSUME NEW k \in S PROVE k <= n - least
      <4>1. n - k \in Nat /\ n - (n - k) = k /\ k \in Nat
        BY <1>3
      <4>2. least <= n - k /\ least \in Nat
        BY <3>4, <4>1
      <4> QED
        BY <4>1, <4>2
    <3> QED
      BY <3>4, <3>5
  <2>2. FromOn(S, top) = 1
    <3>1. \A k \in S : k \in Int /\ top \in Int /\ k <= top
      BY <1>3, <2>1
    <3>2. \A k \in S : k >= top <=> k = top
      BY <3>1
    <3>3. {k \in S : k >= top} = {top}
      BY <3>2
    <3> QED
      BY <3>3, FS_Singleton DEF FromOn
  <2>3. \A i \in S : i # top => FromOn(S, i) > 1
    <3>1. SUFFICES ASSUME NEW i \in S, i # top PROVE FromOn(S, i) > 1
      OBVIOUS
    <3>2. /\ {i} \subseteq {k \in S : k >= i} /\ {i} # {k \in S : k >= i}
      BY <1>3, <2>1, <3>1
    <3>3. Cardinality({i}) = 1
      BY FS_Singleton
    <3>4. Cardinality({i}) <= FromOn(S, i) /\ Cardinality({i}) # FromOn(S, i)
      BY <1>11, <3>2, FS_Subset DEF FromOn
    <3>5. FromOn(S, i) \in Nat
      BY <1>11
    <3> QED
      BY <3>3, <3>4, <3>5
  <2>4. T = S \ {top}
    <3>1. top \notin T
      BY <1>3, <1>12, <2>2
    <3>2. \A i \in S : i # top => i \in T
      BY <1>3, <1>12, <2>3
    <3>3. \A i \in T : i \in S
      BY <1>4, <1>12
    <3> QED
      BY <3>1, <3>2, <3>3
  <2>5. Cardinality(T) = Cardinality(S) - 1 /\ Cardinality(T) \in Nat /\ IsFiniteSet(T)
    BY <1>6, <2>1, <2>4, FS_RemoveElement, FS_CardinalityType
  <2>6. \A i \in T : Rank(T, i) = Rank(S, i) /\ Rank(T, i) \in 1 .. Cardinality(T)
    <3>1. SUFFICES ASSUME NEW i \in T
                   PROVE  Rank(T, i) = Rank(S, i) /\ Rank(T, i) \in 1 .. Cardinality(T)
      OBVIOUS
    <3>2. {k \in S : k <= i} = {k \in T : k <= i}
      <4>1. i <= top /\ i # top /\ i \in Nat /\ top \in Nat
        BY <1>3, <2>1, <2>4
      <4> QED
        BY <2>4, <4>1
    <3>3. /\ IsFiniteSet({k \in T : k <= i})
          /\ Cardinality({k \in T : k <= i}) \in Nat
          /\ Cardinality({k \in T : k <= i}) <= Cardinality(T)
      BY <2>5, FS_Subset, FS_CardinalityType
    <3>4. i \in {k \in T : k <= i}
      BY <1>4
    <3>5. Cardinality({k \in T : k <= i}) # 0
      BY <3>3, <3>4, FS_EmptySet
    <3>6. Rank(T, i) = Cardinality({k \in T : k <= i}) /\ Rank(S, i) = Rank(T, i)
      BY <3>2 DEF Rank
    <3>7. Rank(T, i) \in Nat /\ Rank(T, i) <= Cardinality(T) /\ Rank(T, i) # 0
      BY <3>3, <3>5, <3>6
    <3> QED
      BY <2>5, <3>6, <3>7
  <2>7. /\ Pop(stack) \in Path /\ Len(Pop(stack)) = Cardinality(T)
        /\ \A k \in 1 .. Cardinality(T) : Pop(stack)[k] = stack[k]
    <3>1. Len(stack) # 0 /\ stack # Root
      BY <1>5, <2>1, <1>6, FS_EmptySet DEF Root
    <3>2. Pop(stack) = SubSeq(stack, 1, Cardinality(T))
      BY <1>5, <2>5, <3>1 DEF Pop, Front
    <3> QED
      BY <1>5, <2>5, <3>2 DEF Path
  <2>8. \A i \in T : Pop(stack)[Rank(T, i)] = c[i]
    BY <1>8, <2>4, <2>6, <2>7
  <2>9. \A i \in T : FromOn(T, i) = FromOn(S, i) - 1
    <3>1. SUFFICES ASSUME NEW i \in T PROVE FromOn(T, i) = FromOn(S, i) - 1
      OBVIOUS
    <3>2. {k \in T : k >= i} = {k \in S : k >= i} \ {top} /\ top \in {k \in S : k >= i}
      BY <1>4, <2>1, <2>4
    <3> QED
      BY <1>11, <2>4, <3>2, FS_RemoveElement DEF FromOn
  <2>10. \A i \in T : Count(c, i, n + 1, Names) - Count(c, i, n + 1, {DotDot}) = FromOn(T, i)
    <3>1. SUFFICES ASSUME NEW i \in T
                   PROVE  Count(c, i, n + 1, Names) - Count(c, i, n + 1, {DotDot}) = FromOn(T, i)
      OBVIOUS
    <3>2. i \in 1 .. n /\ i \in S
      BY <1>4, <2>4
    <3> QED
      BY <1>2, <1>7, <1>11, <2>9, <3>2
  <2> QED
    BY <1>10, <2>7, <2>8, <2>10 DEF StackHolds, T
<1> QED
  BY <1>13, <1>14

(* What normalize_virtual returns are the components that survive, in the  *)
(* order they were written, for every path.                                *)
LEMMA NormalizeSurvivors ==
  ASSUME NEW c \in Written
  PROVE  /\ Len(Normalize(c)) = Cardinality(Survivors(c))
         /\ \A i \in Survivors(c) : Normalize(c)[Rank(Survivors(c), i)] = c[i]
<1>1. PICK out : /\ out[0] = Root
                 /\ \A n \in 1 .. Len(c) : out[n] = Walk(out[n - 1], c[n])
                 /\ Normalize(c) = out[Len(c)]
  BY NormalizeRounds DEF Written
<1> DEFINE N == {n \in Nat : n <= Len(c) => StackHolds(out[n], c, n)}
<1>2. 0 \in N
  <2>1. SurvivorsUpTo(c, 0) = {}
    BY DEF SurvivorsUpTo
  <2>2. StackHolds(out[0], c, 0)
    BY <1>1, <2>1, EmptySeq, FS_EmptySet DEF StackHolds, Root, Path
  <2> QED
    BY <2>2
<1>3. ASSUME NEW n \in Nat, n \in N PROVE n + 1 \in N
  <2>1. SUFFICES ASSUME n + 1 <= Len(c) PROVE StackHolds(out[n + 1], c, n + 1)
    OBVIOUS
  <2>2. StackHolds(out[n], c, n) /\ n + 1 \in 1 .. Len(c) /\ (n + 1) - 1 = n
    BY <1>3, <2>1 DEF Written
  <2>3. out[n + 1] = Walk(out[n], c[n + 1])
    <3>1. out[n + 1] = Walk(out[(n + 1) - 1], c[n + 1])
      BY <1>1, <2>2
    <3> QED
      BY <2>2, <3>1
  <2>4. c[n + 1] \in Names \cup {Dot, DotDot}
    BY <2>2 DEF Written
  <2> QED
    BY <2>2, <2>3, <2>4, StackIgnoresDot, StackPushes, StackPops
<1>4. Nat \subseteq N
  <2> HIDE DEF N
  <2> QED
    BY <1>2, <1>3, InductionOnSet
<1>5. Len(c) \in Nat /\ DOMAIN c = 1 .. Len(c)
  BY DEF Written
<1>6. Survivors(c) = SurvivorsUpTo(c, Len(c))
  BY <1>5 DEF Survivors, SurvivorsUpTo
<1> QED
  BY <1>1, <1>4, <1>5, <1>6 DEF StackHolds

(* The destinations and guest directories of a command line are normalized *)
(* as counting says, whatever they spell.                                  *)
THEOREM LexicalNormalize == Spec => []NormalizeIsLexical
<1>1. NormalizeIsLexical
  <2>1. SUFFICES ASSUME NEW c \in Cwds \cup {b.destination : b \in Binds}
                 PROVE  /\ Len(Normalize(c)) = Cardinality(Survivors(c))
                        /\ \A i \in Survivors(c) :
                             Normalize(c)[Cardinality({k \in Survivors(c) : k <= i})] = c[i]
    BY DEF NormalizeIsLexical
  <2>2. c \in Written
    BY BindAssumption DEF BindType
  <2> QED
    BY <2>2, NormalizeSurvivors DEF Rank
<1> QED
  BY <1>1, PTL
===============================================================================
