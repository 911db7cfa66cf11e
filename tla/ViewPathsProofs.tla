--------------------------- MODULE ViewPathsProofs ---------------------------
(***************************************************************************)
(* The path algebra of bind.rs for every path and every view: what         *)
(* normalize_virtual returns, that the mapping in both directions yields   *)
(* normalized paths, and that what is projected is backed by the source of *)
(* its projection.                                                         *)
(*                                                                         *)
(* Normalize is a recursive function, so what is said of it is shown by    *)
(* induction on the number of components it has read; an induction is      *)
(* stated with the set of numbers for which its hypothesis holds.          *)
(***************************************************************************)
EXTENDS ViewPaths, SequenceTheorems, WellFoundedInduction, TLAPS

(* A set of numbers that has a member has a least one.                     *)
LEMMA LeastNumber ==
  ASSUME NEW T \in SUBSET Nat, T # {}
  PROVE  \E n \in T : \A m \in T : n <= m
<1>1. PICK least \in T : \A n \in T : ~(<<n, least>> \in OpToRel(<, Nat))
  BY NatLessThanWellFounded, WFMin
<1>2. \A n \in T : ~(n < least)
  BY <1>1 DEF OpToRel
<1>3. \A n \in T : least <= n
  BY <1>2
<1> QED
  BY <1>3

(* Induction on a set of numbers: one that is missing would have a least   *)
(* one missing, whose predecessor is not.                                  *)
LEMMA InductionOnSet ==
  ASSUME NEW S, 0 \in S, \A n \in Nat : n \in S => n + 1 \in S
  PROVE  Nat \subseteq S
<1> DEFINE T == Nat \ S
<1>1. SUFFICES ASSUME T # {} PROVE FALSE
  OBVIOUS
<1>2. PICK least \in T : \A n \in T : least <= n
  BY <1>1, LeastNumber
<1>3. least \in Nat /\ least # 0
  OBVIOUS
<1>4. least - 1 \in Nat /\ least - 1 \notin T
  BY <1>2, <1>3
<1> QED
  BY <1>3, <1>4

-------------------------------------------------------------------------------
(* What normalize_virtual has put together after its first n components.   *)
NormalizedUpTo(out, components, n) ==
  out = [k \in 0 .. n |-> IF k = 0 THEN Root ELSE Walk(out[k - 1], components[k])]

(* Every number of components has been normalized by some rounds.          *)
LEMMA NormalizedUpToEach ==
  ASSUME NEW components, NEW n \in Nat
  PROVE  \E out : NormalizedUpTo(out, components, n)
<1> DEFINE S == {k \in Nat : \E out : NormalizedUpTo(out, components, k)}
<1>1. 0 \in S
  <2>1. NormalizedUpTo([k \in 0 .. 0 |-> Root], components, 0)
    BY DEF NormalizedUpTo
  <2> QED
    BY <2>1
<1>2. ASSUME NEW k \in Nat, k \in S PROVE k + 1 \in S
  <2>1. PICK out : NormalizedUpTo(out, components, k)
    BY <1>2
  <2> DEFINE more == [m \in 0 .. k + 1 |->
                        IF m = k + 1 THEN Walk(out[k], components[k + 1]) ELSE out[m]]
  <2>2. \A m \in 0 .. k : more[m] = out[m]
    OBVIOUS
  <2>3. \A m \in 0 .. k + 1 :
          more[m] = IF m = 0 THEN Root ELSE Walk(more[m - 1], components[m])
    <3>1. SUFFICES ASSUME NEW m \in 0 .. k + 1
                   PROVE  more[m] = IF m = 0 THEN Root ELSE Walk(more[m - 1], components[m])
      OBVIOUS
    <3>2. CASE m = k + 1
      <4>1. more[m - 1] = out[k]
        BY <2>2, <3>2
      <4> QED
        BY <3>2, <4>1
    <3>3. CASE m \in 1 .. k
      <4>1. out[m] = Walk(out[m - 1], components[m])
        BY <2>1, <3>3 DEF NormalizedUpTo
      <4>2. more[m] = out[m] /\ more[m - 1] = out[m - 1]
        BY <2>2, <3>3
      <4> QED
        BY <3>3, <4>1, <4>2
    <3>4. CASE m = 0
      <4>1. out[0] = Root
        BY <2>1 DEF NormalizedUpTo
      <4> QED
        BY <2>2, <3>4, <4>1
    <3> QED
      BY <3>2, <3>3, <3>4
  <2>4. NormalizedUpTo(more, components, k + 1)
    <3> HIDE DEF more
    <3>1. more = [m \in 0 .. k + 1 |-> more[m]]
      BY DEF more
    <3> QED
      BY <2>3, <3>1 DEF NormalizedUpTo
  <2> QED
    BY <2>4
<1>3. Nat \subseteq S
  <2> HIDE DEF S
  <2> QED
    BY <1>1, <1>2, InductionOnSet
<1> QED
  BY <1>3

(* The rounds of normalize_virtual, one per component.                     *)
LEMMA NormalizeRounds ==
  ASSUME NEW components, Len(components) \in Nat
  PROVE  \E out : /\ out[0] = Root
                  /\ \A n \in 1 .. Len(components) : out[n] = Walk(out[n - 1], components[n])
                  /\ Normalize(components) = out[Len(components)]
<1> DEFINE out == CHOOSE out : NormalizedUpTo(out, components, Len(components))
<1>1. NormalizedUpTo(out, components, Len(components))
  BY NormalizedUpToEach
<1>2. Normalize(components) = out[Len(components)]
  BY DEF Normalize, NormalizedUpTo
<1> HIDE DEF out
<1>3. /\ out[0] = Root
      /\ \A n \in 1 .. Len(components) : out[n] = Walk(out[n - 1], components[n])
  BY <1>1 DEF NormalizedUpTo
<1> QED
  BY <1>2, <1>3

(* One round of it keeps a path normalized.                                *)
LEMMA WalkType ==
  ASSUME NEW path \in Path, NEW name \in Names \cup {Dot, DotDot}
  PROVE  Walk(path, name) \in Path
<1>1. Pop(path) \in Path
  BY DEF Pop, Root, Front, Path
<1>2. name \notin {Dot, DotDot} => Append(path, name) \in Path
  BY DEF Path
<1> QED
  BY <1>1, <1>2 DEF Walk

(* normalize_virtual returns a normalized path, whatever it is given.      *)
THEOREM NormalizeType ==
  ASSUME NEW components \in Written
  PROVE  Normalize(components) \in Path
<1>1. PICK out : /\ out[0] = Root
                 /\ \A n \in 1 .. Len(components) : out[n] = Walk(out[n - 1], components[n])
                 /\ Normalize(components) = out[Len(components)]
  BY NormalizeRounds DEF Written
<1> DEFINE S == {n \in Nat : n <= Len(components) => out[n] \in Path}
<1>2. 0 \in S
  <2>1. out[0] \in Path
    BY <1>1, EmptySeq DEF Root, Path
  <2> QED
    BY <2>1
<1>3. ASSUME NEW n \in Nat, n \in S PROVE n + 1 \in S
  <2>1. SUFFICES ASSUME n + 1 <= Len(components) PROVE out[n + 1] \in Path
    OBVIOUS
  <2>2. out[n] \in Path /\ n + 1 \in 1 .. Len(components)
    BY <1>3, <2>1 DEF Written
  <2>3. out[n + 1] = Walk(out[n], components[n + 1])
    BY <1>1, <2>2
  <2>4. components[n + 1] \in Names \cup {Dot, DotDot}
    BY <2>2 DEF Written
  <2> QED
    BY <2>2, <2>3, <2>4, WalkType
<1>4. Nat \subseteq S
  <2> HIDE DEF S
  <2> QED
    BY <1>2, <1>3, InductionOnSet
<1>5. Len(components) \in Nat
  BY DEF Written
<1> QED
  BY <1>1, <1>4, <1>5

(* The rounds over names alone put the names together.                     *)
LEMMA RoundsKeepNormal ==
  ASSUME NEW path \in Path, NEW out, out[0] = Root,
         \A n \in 1 .. Len(path) : out[n] = Walk(out[n - 1], path[n])
  PROVE  out[Len(path)] = path
<1> DEFINE S == {n \in Nat : n <= Len(path) => out[n] = SubSeq(path, 1, n)}
<1>1. 0 \in S
  <2>1. out[0] = SubSeq(path, 1, 0)
    BY SubSeqEmpty DEF Root
  <2> QED
    BY <2>1
<1>2. ASSUME NEW n \in Nat, n \in S PROVE n + 1 \in S
  <2>1. SUFFICES ASSUME n + 1 <= Len(path) PROVE out[n + 1] = SubSeq(path, 1, n + 1)
    OBVIOUS
  <2>2. out[n] = SubSeq(path, 1, n) /\ n + 1 \in 1 .. Len(path)
    BY <1>2, <2>1 DEF Path
  <2>3. path[n + 1] \in Names
    BY <2>2 DEF Path
  <2>4. Walk(out[n], path[n + 1]) = Append(out[n], path[n + 1])
    BY <2>3, NamesAssumption DEF Walk
  <2>5. Append(SubSeq(path, 1, n), path[n + 1]) = SubSeq(path, 1, n + 1)
    BY <2>2 DEF Path
  <2>6. out[n + 1] = Walk(out[n], path[n + 1])
    <3>1. n + 1 \in 1 .. Len(path) /\ (n + 1) - 1 = n
      BY <2>2
    <3>2. out[n + 1] = Walk(out[(n + 1) - 1], path[n + 1])
      BY <3>1
    <3> QED
      BY <3>1, <3>2
  <2> QED
    BY <2>2, <2>4, <2>5, <2>6
<1>3. Nat \subseteq S
  <2> HIDE DEF S
  <2> QED
    BY <1>1, <1>2, InductionOnSet
<1>4. Len(path) \in Nat /\ SubSeq(path, 1, Len(path)) = path
  BY SubSeqFull DEF Path
<1> QED
  BY <1>3, <1>4

(* A normalized path is left as it is: a component is never "." or "..".   *)
THEOREM NormalizeKeepsNormal ==
  ASSUME NEW path \in Path
  PROVE  Normalize(path) = path
BY NormalizeRounds, RoundsKeepNormal DEF Path

(* What is written without ".." stays below the path it is joined to.      *)
THEOREM NormalizeBelow ==
  ASSUME NEW base \in Path, NEW written \in Written, DotDot \notin Range(written)
  PROVE  Normalize(base \o written) = base \o Normalize(written)
<1> DEFINE whole == base \o written
           b == Len(base)
           w == Len(written)
<1>1. b \in Nat /\ w \in Nat
  BY DEF Path, Written
<1>2. /\ whole \in Written /\ Len(whole) = b + w
      /\ \A n \in 1 .. b : whole[n] = base[n]
      /\ \A n \in 1 .. w : whole[b + n] = written[n]
  <2>1. base \in Written
    BY DEF Path, Written
  <2>2. /\ whole \in Written /\ Len(whole) = b + w
        /\ \A n \in 1 .. b + w : whole[n] = IF n <= b THEN base[n] ELSE written[n - b]
    BY <2>1, ConcatProperties DEF Written
  <2> HIDE DEF whole
  <2>3. ASSUME NEW n \in 1 .. w PROVE whole[b + n] = written[n]
    <3>1. b + n \in 1 .. b + w /\ ~(b + n <= b) /\ (b + n) - b = n
      BY <1>1
    <3>2. whole[b + n] = written[(b + n) - b]
      BY <2>2, <3>1
    <3> QED
      BY <3>1, <3>2
  <2> HIDE DEF b, w
  <2>4. \A n \in 1 .. b : n \in 1 .. b + w /\ n <= b
    BY <1>1
  <2> QED
    BY <2>2, <2>3, <2>4
<1>3. PICK in : /\ in[0] = Root
                /\ \A n \in 1 .. w : in[n] = Walk(in[n - 1], written[n])
                /\ Normalize(written) = in[w]
  BY <1>1, NormalizeRounds
<1>4. PICK out : /\ out[0] = Root
                 /\ \A n \in 1 .. b + w : out[n] = Walk(out[n - 1], whole[n])
                 /\ Normalize(whole) = out[b + w]
  <2> HIDE DEF whole, b, w
  <2>1. Len(whole) \in Nat
    BY <1>1, <1>2
  <2>2. PICK rounds : /\ rounds[0] = Root
                      /\ \A n \in 1 .. Len(whole) : rounds[n] = Walk(rounds[n - 1], whole[n])
                      /\ Normalize(whole) = rounds[Len(whole)]
    BY <2>1, NormalizeRounds
  <2> QED
    BY <1>2, <2>2
<1>5. out[b] = base
  <2>1. \A n \in 1 .. b : out[n] = Walk(out[n - 1], base[n])
    BY <1>1, <1>2, <1>4
  <2> QED
    BY <1>4, <2>1, RoundsKeepNormal
<1>6. \A n \in 1 .. w : written[n] \in Names \cup {Dot} /\ written[n] # DotDot
  BY DEF Written, Range
<1> HIDE DEF whole, b, w
<1> DEFINE S == {n \in Nat : n <= w => in[n] \in Path /\ out[b + n] = base \o in[n]}
<1>7. 0 \in S
  <2>1. in[0] \in Path /\ base \o in[0] = base /\ b + 0 = b
    BY <1>1, <1>3, EmptySeq DEF Root, Path
  <2> QED
    BY <1>5, <2>1
<1>8. ASSUME NEW n \in Nat, n \in S PROVE n + 1 \in S
  <2>1. SUFFICES ASSUME n + 1 <= w
                 PROVE  in[n + 1] \in Path /\ out[b + (n + 1)] = base \o in[n + 1]
    OBVIOUS
  <2>2. /\ n + 1 \in 1 .. w /\ b + (n + 1) \in 1 .. b + w
        /\ (n + 1) - 1 = n /\ (b + (n + 1)) - 1 = b + n /\ n <= w
    BY <1>1, <2>1
  <2>3. in[n] \in Path /\ out[b + n] = base \o in[n]
    BY <1>8, <2>2
  <2>4. in[n + 1] = Walk(in[n], written[n + 1])
    <3>1. in[n + 1] = Walk(in[(n + 1) - 1], written[n + 1])
      BY <1>3, <2>2
    <3> QED
      BY <2>2, <3>1
  <2>5. out[b + (n + 1)] = Walk(base \o in[n], written[n + 1])
    <3>1. out[b + (n + 1)] = Walk(out[(b + (n + 1)) - 1], whole[b + (n + 1)])
      BY <1>4, <2>2
    <3> QED
      BY <1>2, <2>2, <2>3, <3>1
  <2>6. CASE written[n + 1] = Dot
    <3>1. Walk(in[n], Dot) = in[n] /\ Walk(base \o in[n], Dot) = base \o in[n]
      BY DEF Walk, Dot, DotDot
    <3> QED
      BY <2>3, <2>4, <2>5, <2>6, <3>1
  <2>7. CASE written[n + 1] \in Names
    <3>1. \A path : Walk(path, written[n + 1]) = Append(path, written[n + 1])
      BY <2>7, NamesAssumption DEF Walk
    <3>2. /\ Append(in[n], written[n + 1]) \in Path
          /\ Append(base \o in[n], written[n + 1]) = base \o Append(in[n], written[n + 1])
      <4> DEFINE names == in[n]
                 name  == written[n + 1]
      <4>1. base \in Seq(Names) /\ names \in Seq(Names) /\ name \in Names
        BY <2>3, <2>7 DEF Path
      <4> HIDE DEF names, name
      <4>2. Append(names, name) \in Seq(Names) /\ Append(base \o names, name) = base \o Append(names, name)
        BY <4>1
      <4> QED
        BY <4>2 DEF names, name, Path
    <3> QED
      BY <2>4, <2>5, <3>1, <3>2
  <2> QED
    BY <1>6, <2>2, <2>6, <2>7
<1>9. Nat \subseteq S
  <2> HIDE DEF S
  <2> QED
    BY <1>7, <1>8, InductionOnSet
<1> QED
  BY <1>1, <1>3, <1>4, <1>9 DEF whole

-------------------------------------------------------------------------------
(* A prefix and what is left of the path make up the path.                 *)
LEMMA PrefixSplits ==
  ASSUME NEW prefix \in Path, NEW path \in Path, IsPrefix(prefix, path)
  PROVE  LET rest == SubSeq(path, Len(prefix) + 1, Len(path))
         IN rest \in Path /\ path = prefix \o rest
<1> DEFINE rest == SubSeq(path, Len(prefix) + 1, Len(path))
<1>1. /\ Len(prefix) \in Nat /\ Len(path) \in Nat /\ Len(prefix) <= Len(path)
      /\ SubSeq(prefix, 1, Len(prefix)) = SubSeq(path, 1, Len(prefix))
  BY DEF IsPrefix, Path
<1>2. SubSeq(path, 1, Len(prefix)) \o rest = SubSeq(path, 1, Len(path))
  <2> DEFINE k == Len(prefix)
             n == Len(path)
  <2>1. 1 \in 1 .. n + 1 /\ k \in 1 - 1 .. n /\ n \in k .. n /\ path \in Seq(Names)
    BY <1>1 DEF Path
  <2>2. SubSeq(path, 1, k) \o SubSeq(path, k + 1, n) = SubSeq(path, 1, n)
    <3> HIDE DEF k
    <3> QED
      BY <2>1, ConcatAdjacentSubSeq
  <2> QED
    BY <2>2
<1>3. SubSeq(prefix, 1, Len(prefix)) = prefix /\ SubSeq(path, 1, Len(path)) = path
  BY SubSeqFull DEF Path
<1>4. rest \in Path
  BY <1>1 DEF Path
<1> QED
  BY <1>1, <1>2, <1>3, <1>4

(* What is appended to a path leaves it a prefix.                          *)
LEMMA PrefixOfConcat ==
  ASSUME NEW prefix \in Path, NEW rest \in Path
  PROVE  /\ prefix \o rest \in Path
         /\ IsPrefix(prefix, prefix \o rest)
         /\ SubSeq(prefix \o rest, Len(prefix) + 1, Len(prefix \o rest)) = rest
<1>1. /\ prefix \o rest \in Path /\ Len(prefix) \in Nat /\ Len(rest) \in Nat
      /\ Len(prefix \o rest) = Len(prefix) + Len(rest)
      /\ \A i \in 1 .. Len(prefix) + Len(rest) :
           (prefix \o rest)[i] = IF i <= Len(prefix) THEN prefix[i] ELSE rest[i - Len(prefix)]
  BY ConcatProperties DEF Path
<1>2. IsPrefix(prefix, prefix \o rest)
  <2>1. \A i \in 1 .. Len(prefix) : prefix[i] = (prefix \o rest)[i]
    BY <1>1
  <2>2. SubSeq(prefix, 1, Len(prefix)) = SubSeq(prefix \o rest, 1, Len(prefix))
    BY <1>1, <2>1 DEF Path
  <2> QED
    BY <1>1, <2>2 DEF IsPrefix
<1>3. SubSeq(prefix \o rest, Len(prefix) + 1, Len(prefix \o rest)) = rest
  <2> DEFINE tail == SubSeq(prefix \o rest, Len(prefix) + 1, Len(prefix \o rest))
  <2>1. tail \in Path /\ Len(tail) = Len(rest)
    BY <1>1 DEF Path
  <2>2. \A i \in 1 .. Len(rest) : tail[i] = rest[i]
    BY <1>1 DEF Path
  <2> QED
    BY <2>1, <2>2, SeqEqual DEF Path
<1> QED
  BY <1>1, <1>2, <1>3

(* What a prefix of a prefix covers.                                       *)
LEMMA PrefixTransitive ==
  ASSUME NEW p \in Path, NEW q \in Path, NEW r \in Path, IsPrefix(p, q), IsPrefix(q, r)
  PROVE  IsPrefix(p, r)
<1>1. /\ Len(p) \in Nat /\ Len(q) \in Nat /\ Len(r) \in Nat
      /\ Len(p) <= Len(q) /\ Len(q) <= Len(r)
  BY DEF IsPrefix, Path
<1>2. \A i \in 1 .. Len(p) : p[i] = q[i]
  BY <1>1 DEF IsPrefix, Path
<1>3. \A i \in 1 .. Len(q) : q[i] = r[i]
  BY <1>1 DEF IsPrefix, Path
<1>4. \A i \in 1 .. Len(p) : p[i] = r[i]
  BY <1>1, <1>2, <1>3
<1>5. SubSeq(p, 1, Len(p)) = SubSeq(r, 1, Len(p))
  BY <1>1, <1>4 DEF Path
<1> QED
  BY <1>1, <1>5 DEF IsPrefix

(* Of two prefixes of one path, one is a prefix of the other.              *)
LEMMA PrefixesCompare ==
  ASSUME NEW p \in Path, NEW q \in Path, NEW r \in Path, IsPrefix(p, r), IsPrefix(q, r)
  PROVE  IsPrefix(p, q) \/ IsPrefix(q, p)
<1>1. Len(p) \in Nat /\ Len(q) \in Nat /\ Len(r) \in Nat
  BY DEF Path
<1>2. \A i \in 1 .. Len(p) : p[i] = r[i]
  BY <1>1 DEF IsPrefix, Path
<1>3. \A i \in 1 .. Len(q) : q[i] = r[i]
  BY <1>1 DEF IsPrefix, Path
<1>4. CASE Len(p) <= Len(q)
  <2>1. \A i \in 1 .. Len(p) : p[i] = q[i]
    BY <1>1, <1>2, <1>3, <1>4
  <2>2. SubSeq(p, 1, Len(p)) = SubSeq(q, 1, Len(p))
    BY <1>1, <1>4, <2>1 DEF Path
  <2> QED
    BY <1>4, <2>2 DEF IsPrefix
<1>5. CASE Len(q) <= Len(p)
  <2>1. \A i \in 1 .. Len(q) : q[i] = p[i]
    BY <1>1, <1>2, <1>3, <1>5
  <2>2. SubSeq(q, 1, Len(q)) = SubSeq(p, 1, Len(q))
    BY <1>1, <1>5, <2>1 DEF Path
  <2> QED
    BY <1>5, <2>2 DEF IsPrefix
<1> QED
  BY <1>1, <1>4, <1>5

-------------------------------------------------------------------------------
(* The search of projection_index stops at one position.                   *)
LEMMA SearchStops ==
  ASSUME NEW view \in Seq(Projections), NEW path, Projects(view, path)
  PROVE  /\ Selects(view, ProjectionIndex(view, path), path)
         /\ \A i : Selects(view, i, path) => i = ProjectionIndex(view, path)
<1>1. Selects(view, ProjectionIndex(view, path), path)
  BY DEF Projects, ProjectionIndex
<1>2. ASSUME NEW i, NEW j, Selects(view, i, path), Selects(view, j, path) PROVE i = j
  <2>1. /\ i \in DOMAIN view /\ j \in DOMAIN view
        /\ Covers(view[i], path) /\ Covers(view[j], path) /\ ~(i < j) /\ ~(j < i)
    BY <1>2 DEF Selects
  <2>2. i \in Int /\ j \in Int
    BY <2>1
  <2> QED
    BY <2>1, <2>2
<1> QED
  BY <1>1, <1>2

(* What projection_index finds backs the path: its source with what        *)
(* follows the destination.                                                *)
LEMMA ResolvesBelow ==
  ASSUME NEW view \in Seq(Projections), NEW path \in Path, NEW i, Selects(view, i, path)
  PROVE  /\ ResolveProjected(view, path) = ResolveBelow(view[i], path)
         /\ ResolveBelow(view[i], path) \in Path
         /\ IsPrefix(view[i].source, ResolveBelow(view[i], path))
<1>1. i \in DOMAIN view /\ Covers(view[i], path) /\ Projects(view, path)
  BY DEF Selects, Projects
<1>2. i = ProjectionIndex(view, path)
  BY <1>1, SearchStops
<1>3. view[i].source \in Path /\ view[i].destination \in Path
  <2>1. view[i] \in Projections
    BY <1>1
  <2> QED
    BY <2>1 DEF Projections
<1> DEFINE rest == SubSeq(path, Len(view[i].destination) + 1, Len(path))
<1>4. rest \in Path
  BY <1>1, <1>3, PrefixSplits DEF Covers
<1> HIDE DEF rest
<1>5. view[i].source \o rest \in Path /\ IsPrefix(view[i].source, view[i].source \o rest)
  BY <1>3, <1>4, PrefixOfConcat
<1>6. ResolveBelow(view[i], path) = view[i].source \o rest
  BY DEF ResolveBelow, rest
<1> QED
  BY <1>1, <1>2, <1>5, <1>6 DEF ResolveProjected

(* Every guest path has a host path.                                       *)
LEMMA ResolveType ==
  ASSUME NEW view \in Seq(Projections), NEW path \in Path
  PROVE  ResolveProjected(view, path) \in Path
<1>1. CASE Projects(view, path)
  BY <1>1, SearchStops, ResolvesBelow
<1>2. CASE ~Projects(view, path)
  BY <1>2 DEF ResolveProjected
<1> QED
  BY <1>1, <1>2

(* max_by_key of virtual_for_host finds a deepest source, the last of      *)
(* them, wherever a source contains the host path.                         *)
LEMMA DeepestSource ==
  ASSUME NEW view \in Seq(Projections), NEW host, ContainingSources(view, host) # {}
  PROVE  LET i == ReverseIndex(view, host)
         IN /\ i \in ContainingSources(view, host)
            /\ \A j \in ContainingSources(view, host) :
                 \/ Len(view[j].source) < Len(view[i].source)
                 \/ Len(view[j].source) = Len(view[i].source) /\ j <= i
<1> DEFINE C == ContainingSources(view, host)
           Beats(i, j) == \/ Len(view[j].source) < Len(view[i].source)
                          \/ Len(view[j].source) = Len(view[i].source) /\ j <= i
           Found(n) == \E i \in C : i <= n /\ \A j \in C : j <= n => Beats(i, j)
           S == {n \in Nat : (\E i \in C : i <= n) => Found(n)}
<1>1. /\ C \subseteq 1 .. Len(view) /\ Len(view) \in Nat
      /\ \A i \in C : Len(view[i].source) \in Nat
  BY DEF ContainingSources, Projections, Path
<1> HIDE DEF C
<1>2. 0 \in S
  BY <1>1
<1>3. ASSUME NEW n \in Nat, n \in S PROVE n + 1 \in S
  <2>1. CASE n + 1 \notin C
    <3>1. \A i \in C : i <= n + 1 <=> i <= n
      BY <1>1, <2>1
    <3> QED
      BY <1>3, <3>1
  <2>2. CASE n + 1 \in C /\ ~\E i \in C : i <= n
    <3>1. \A j \in C : j <= n + 1 => j = n + 1
      BY <1>1, <2>2
    <3>2. Beats(n + 1, n + 1)
      BY <2>2
    <3> QED
      BY <2>2, <3>1, <3>2
  <2>3. CASE n + 1 \in C /\ \E i \in C : i <= n
    <3>1. PICK i \in C : i <= n /\ \A j \in C : j <= n => Beats(i, j)
      BY <1>3, <2>3
    <3>2. CASE Len(view[n + 1].source) < Len(view[i].source)
      <4>1. \A j \in C : j <= n + 1 => Beats(i, j)
        BY <1>1, <3>1, <3>2
      <4> QED
        BY <1>1, <3>1, <4>1
    <3>3. CASE ~(Len(view[n + 1].source) < Len(view[i].source))
      <4>1. \A j \in C : j <= n + 1 => Beats(n + 1, j)
        BY <1>1, <2>3, <3>1, <3>3
      <4> QED
        BY <2>3, <4>1
    <3> QED
      BY <3>2, <3>3
  <2> QED
    BY <2>1, <2>2, <2>3
<1>4. Nat \subseteq S
  <2> HIDE DEF S
  <2> QED
    BY <1>2, <1>3, InductionOnSet
<1>5. \E i \in C : i <= Len(view)
  BY <1>1 DEF C
<1>6. Found(Len(view))
  BY <1>1, <1>4, <1>5
<1>7. \E i \in C : \A j \in C : Beats(i, j)
  BY <1>1, <1>6
<1> QED
  BY <1>7 DEF ReverseIndex, C

(* Every host path has a guest name.                                       *)
LEMMA VirtualForHostType ==
  ASSUME NEW view \in Seq(Projections), NEW host \in Path
  PROVE  VirtualForHost(view, host) \in Path
<1>1. CASE ContainingSources(view, host) # {}
  <2> DEFINE i == ReverseIndex(view, host)
             rest == SubSeq(host, Len(view[i].source) + 1, Len(host))
  <2>1. i \in DOMAIN view /\ IsPrefix(view[i].source, host)
    BY <1>1, DeepestSource DEF ContainingSources
  <2>2. view[i].source \in Path /\ view[i].destination \in Path
    <3>1. view[i] \in Projections
      BY <2>1
    <3> QED
      BY <3>1 DEF Projections
  <2>3. rest \in Path
    BY <2>1, <2>2, PrefixSplits
  <2> HIDE DEF rest
  <2>4. view[i].destination \o rest \in Path
    BY <2>2, <2>3, PrefixOfConcat
  <2> QED
    BY <1>1, <2>4 DEF VirtualForHost, rest
<1>2. CASE ContainingSources(view, host) = {}
  BY <1>2 DEF VirtualForHost
<1> QED
  BY <1>1, <1>2
===============================================================================
