--------------------------- MODULE DispatchProofs ---------------------------
(***************************************************************************)
(* Module Dispatch implements module MountedCalls, answers tell effects,   *)
(* and what a destination hides stays, for any view, calls, trees and      *)
(* tracees.                                                                *)
(***************************************************************************)
EXTENDS Dispatch, ViewPathsProofs

-------------------------------------------------------------------------------
(***************************************************************************)
(* The search of bind.rs finds what a mount table would                    *)
(***************************************************************************)

LEMMA ViewFacts ==
  /\ DOMAIN View = 1 .. Len(View) /\ Len(View) \in Nat
  /\ \A i \in DOMAIN View :
       /\ View[i].source \in Path /\ View[i].destination \in Path
       /\ View[i].destination \in Seq(Names) /\ Len(View[i].destination) \in Nat
<1>1. View \in Seq(Projections)
  BY ViewAssumption
<1>2. \A i \in DOMAIN View : View[i] \in Projections
  BY <1>1
<1> QED
  BY <1>1, <1>2 DEF Projections, Path

(* Of the projections that cover a path one comes first.                   *)
LEMMA FirstCovering ==
  ASSUME NEW path, ~IsReserved(path), NEW i \in DOMAIN View, Covers(View[i], path)
  PROVE  Projects(View, path)
<1> DEFINE T == {k \in DOMAIN View : Covers(View[k], path)}
<1>1. T \subseteq Nat /\ T # {}
  BY ViewFacts
<1>2. PICK k \in T : \A j \in T : ~(<<j, k>> \in OpToRel(<, Nat))
  BY <1>1, WFMin, NatLessThanWellFounded
<1>3. \A j \in T : ~(j < k)
  BY <1>1, <1>2 DEF OpToRel
<1>4. Selects(View, k, path)
  BY <1>3 DEF Selects
<1> QED
  BY <1>4 DEF Projects, Selects

(* It is the one with the most components.                                 *)
LEMMA FirstIsMount ==
  ASSUME NEW path, NEW i, Selects(View, i, path)
  PROVE  i = MountOf(path) /\ i # 0 /\ i \in DOMAIN View
<1>1. i \in DOMAIN View /\ ~IsReserved(path) /\ Covers(View[i], path) /\ i # 0
  BY ViewFacts DEF Selects
<1>2. Mounts(path) = {j \in DOMAIN View : Covers(View[j], path)} /\ i \in Mounts(path)
  BY <1>1 DEF Mounts
<1>3. ASSUME NEW j \in Mounts(path), j # i
      PROVE  Len(View[j].destination) < Len(View[i].destination)
  <2>1. j \in DOMAIN View /\ Covers(View[j], path) /\ i < j
    BY <1>2, <1>3, ViewFacts DEF Selects
  <2>2. Len(View[i].destination) >= Len(View[j].destination)
    BY <1>1, <2>1, ViewAssumption
  <2>3. ASSUME Len(View[i].destination) = Len(View[j].destination) PROVE FALSE
    <3>1. \A k \in 1 .. Len(View[i].destination) :
            View[i].destination[k] = View[j].destination[k]
      BY <1>1, <2>1, <2>3, ViewFacts DEF Covers, IsPrefix
    <3>2. View[i].destination = View[j].destination
      BY <1>1, <2>1, <2>3, <3>1, ViewFacts, SeqEqual
    <3> QED
      BY <1>1, <2>1, <3>2, ViewAssumption
  <2> QED
    BY <1>1, <2>1, <2>2, <2>3, ViewFacts
<1>4. \A j \in Mounts(path) : Len(View[j].destination) <= Len(View[i].destination)
  BY <1>1, <1>3, ViewFacts
<1>5. \A k \in Mounts(path) :
        (\A j \in Mounts(path) : Len(View[j].destination) <= Len(View[k].destination)) => k = i
  BY <1>1, <1>2, <1>3, ViewFacts DEF Mounts
<1> QED
  BY <1>1, <1>2, <1>4, <1>5 DEF MountOf

(* projection_index, projects, resolve_projected and same_projection.      *)
LEMMA SearchFindsMount ==
  ASSUME NEW path
  PROVE  /\ Projects(View, path) <=> MountOf(path) # 0
         /\ Projects(View, path) => ProjectionIndex(View, path) = MountOf(path)
         /\ ResolveProjected(View, path) = Denoted(path)
<1>1. CASE Projects(View, path)
  <2>1. PICK i \in DOMAIN View : Selects(View, i, path)
    BY <1>1 DEF Projects
  <2>2. \A k \in DOMAIN View : Selects(View, k, path) => k = MountOf(path)
    BY FirstIsMount
  <2>3. MountOf(path) = i /\ i # 0
    BY <2>1, FirstIsMount
  <2>4. ProjectionIndex(View, path) = i
    BY <2>1, <2>2, <2>3 DEF ProjectionIndex
  <2> QED
    BY <1>1, <2>3, <2>4 DEF ResolveProjected, Denoted
<1>2. CASE ~Projects(View, path)
  <2>1. Mounts(path) = {}
    BY <1>2, FirstCovering DEF Mounts
  <2>2. MountOf(path) = 0
    BY <2>1 DEF MountOf
  <2> QED
    BY <1>2, <2>2 DEF ResolveProjected, Denoted
<1> QED
  BY <1>1, <1>2

LEMMA SameMount ==
  ASSUME NEW first, NEW second
  PROVE  SameProjection(View, first, second)
           <=> MountOf(first) = MountOf(second) /\ MountOf(first) # 0
BY SearchFindsMount DEF SameProjection

-------------------------------------------------------------------------------
(***************************************************************************)
(* What the handlers make of a call is its effect under mounts             *)
(***************************************************************************)

(* Only a rename looks at the second path.                                 *)
LEMMA OnePath ==
  ASSUME NEW host, NEW c \in Call, c.op # "rename", NEW path, NEW p, NEW q
  PROVE  Perform(host, c, path, p) = Perform(host, c, path, q)
BY DEF Perform, Call, Ops

LEMMA EffectIsServed ==
  ASSUME NEW host, NEW c \in Call
  PROVE  /\ Route(c) = "perform" =>
              Effect(host, c) = Perform(host, c, ResolveProjected(View, c.path),
                                                 ResolveProjected(View, c.to))
         /\ Route(c) = "continue" => Effect(host, c) = Perform(host, c, c.path, c.to)
         /\ Route(c) \notin {"perform", "continue"} => Effect(host, c) = Fails(host, Route(c))
         /\ Route(c) \in {"perform", "continue", "ENOTSUP", "EXDEV"}
<1>1. /\ ResolveProjected(View, c.path) = Denoted(c.path)
      /\ ResolveProjected(View, c.to) = Denoted(c.to)
      /\ Projects(View, c.path) <=> MountOf(c.path) # 0
      /\ Projects(View, c.to) <=> MountOf(c.to) # 0
      /\ SameProjection(View, c.path, c.to)
           <=> MountOf(c.path) = MountOf(c.to) /\ MountOf(c.path) # 0
  BY SearchFindsMount, SameMount
<1>2. /\ MountOf(c.path) = 0 => Denoted(c.path) = c.path
      /\ MountOf(c.to) = 0 => Denoted(c.to) = c.to
  BY DEF Denoted
<1>3. CASE c.op = "rename"
  <2>1. CASE "noreplace" \in c.flags
    BY <1>3, <2>1 DEF Route, RouteRename, Effect
  <2>2. CASE "noreplace" \notin c.flags
    BY <1>1, <1>2, <1>3, <2>2 DEF Route, RouteRename, Effect
  <2> QED
    BY <2>1, <2>2
<1>4. CASE c.op # "rename"
  <2>1. Effect(host, c) = Perform(host, c, Denoted(c.path), Denoted(c.to))
    BY <1>4 DEF Effect
  <2>2. Effect(host, c) = Perform(host, c, Denoted(c.path), c.to)
    BY <1>4, <2>1, OnePath
  <2> QED
    BY <1>1, <1>2, <1>4, <2>1, <2>2 DEF Route
<1> QED
  BY <1>3, <1>4

(* No call of the host answers that it is to be continued, so that the     *)
(* answer of a performed call is never taken for a continuation.           *)
PerformStatuses == {"ok", "ENOENT", "ENOTDIR", "EEXIST", "EISDIR", "ENOTEMPTY",
                    "EBUSY", "EINVAL", "ELOOP"}

LEMMA PerformStatus ==
  ASSUME NEW host, NEW c \in Call, NEW p, NEW q
  PROVE  Perform(host, c, p, q).status \in PerformStatuses
<1> USE DEF Outcome, Fails, Sees, With, Without, PerformStatuses
<1>1. \A path : LookupError(host, path) \in {"ENOENT", "ENOTDIR"}
  BY DEF LookupError
<1>2. \A path : Look(host, path).status \in PerformStatuses
  BY <1>1 DEF Look
<1>3. \A path : Readlink(host, path).status \in PerformStatuses
  BY <1>2 DEF Readlink
<1>4. \A path, flags : Open(host, path, flags).status \in PerformStatuses
  BY <1>1 DEF Open
<1>5. \A path, node : Make(host, path, node).status \in PerformStatuses
  BY <1>1 DEF Make
<1>6. \A path : /\ Unlink(host, path).status \in PerformStatuses
                /\ Rmdir(host, path).status \in PerformStatuses
                /\ Truncate(host, path).status \in PerformStatuses
                /\ Change(host, path).status \in PerformStatuses
  BY <1>1 DEF Unlink, Rmdir, Truncate, Change
<1>7. \A old, new : Rename(host, old, new).status \in PerformStatuses
  BY <1>1 DEF Rename
<1>8. c.op \in Ops
  BY DEF Call
<1> QED
  BY <1>2, <1>3, <1>4, <1>5, <1>6, <1>7, <1>8 DEF Perform, Ops

-------------------------------------------------------------------------------
(***************************************************************************)
(* The queue                                                               *)
(***************************************************************************)

(* Taking a tracee's notification out of the queue takes nothing else.     *)
LEMMA RemoveFirstFacts ==
  ASSUME NEW S, NEW s \in Seq(S), IsInjective(s), NEW e
  PROVE  /\ RemoveFirst(s, e) \in Seq(S)
         /\ IsInjective(RemoveFirst(s, e))
         /\ Range(RemoveFirst(s, e)) = Range(s) \ {e}
<1>1. CASE ~\E i \in 1 .. Len(s) : s[i] = e
  BY <1>1 DEF RemoveFirst, Range
<1>2. CASE \E i \in 1 .. Len(s) : s[i] = e
  <2>1. PICK i \in 1 .. Len(s) : s[i] = e
    BY <1>2
  <2> DEFINE removed == SubSeq(s, 1, i - 1) \o SubSeq(s, i + 1, Len(s))
  <2>2. {k \in 1 .. Len(s) : s[k] = e} = {i}
    BY <2>1 DEF IsInjective
  <2>3. Min({i}) = i
    BY DEF Min
  <2>4. RemoveFirst(s, e) = removed
    BY <1>2, <2>2, <2>3 DEF RemoveFirst, SelectInSeq, RemoveAt
  <2>5. /\ removed \in Seq(S) /\ Len(removed) = Len(s) - 1
        /\ \A k \in 1 .. Len(s) - 1 : removed[k] = IF k < i THEN s[k] ELSE s[k + 1]
    <3> DEFINE before == SubSeq(s, 1, i - 1)
               after  == SubSeq(s, i + 1, Len(s))
    <3>1. i \in Int /\ Len(s) \in Nat /\ 1 <= i /\ i <= Len(s)
      BY <2>1
    <3>2. \A k \in 1 .. Len(s) : s[k] \in S
      OBVIOUS
    <3>3. /\ before \in Seq(S) /\ Len(before) = i - 1
          /\ \A k \in 1 .. i - 1 : before[k] = s[k]
      BY <3>1, <3>2, SubSeqProperties
    <3>4. /\ after \in Seq(S) /\ Len(after) = Len(s) - i
          /\ \A k \in 1 .. Len(s) - i : after[k] = s[i + k]
      BY <3>1, <3>2, SubSeqProperties
    <3>5. /\ before \o after \in Seq(S)
          /\ Len(before \o after) = Len(before) + Len(after)
          /\ \A k \in 1 .. Len(before) + Len(after) : (before \o after)[k] =
                IF k <= Len(before) THEN before[k] ELSE after[k - Len(before)]
      BY <3>3, <3>4, ConcatProperties
    <3> HIDE DEF before, after
    <3>6. ASSUME NEW k \in 1 .. Len(s) - 1
          PROVE  (before \o after)[k] = IF k < i THEN s[k] ELSE s[k + 1]
      <4>1. k \in 1 .. Len(before) + Len(after) /\ k \in Int
        BY <3>1, <3>3, <3>4
      <4>2. (before \o after)[k] = IF k <= Len(before) THEN before[k] ELSE after[k - Len(before)]
        BY <3>5, <4>1
      <4>3. CASE k < i
        <5>1. k \in 1 .. i - 1 /\ k <= Len(before)
          BY <3>1, <3>3, <4>3
        <5> QED
          BY <3>3, <4>2, <4>3, <5>1
      <4>4. CASE ~(k < i)
        <5>1. /\ k - (i - 1) \in 1 .. Len(s) - i /\ i + (k - (i - 1)) = k + 1
              /\ ~(k <= Len(before)) /\ k - Len(before) = k - (i - 1)
          BY <3>1, <3>3, <4>4
        <5>2. after[k - (i - 1)] = s[i + (k - (i - 1))]
          BY <3>4, <5>1
        <5>3. (before \o after)[k] = after[k - (i - 1)]
          BY <4>2, <5>1
        <5>4. (before \o after)[k] = s[k + 1]
          BY <5>1, <5>2, <5>3
        <5> QED
          BY <4>4, <5>4
      <4> QED
        BY <4>3, <4>4
    <3>7. Len(before \o after) = Len(s) - 1
      BY <3>1, <3>3, <3>4, <3>5
    <3> QED
      BY <3>5, <3>6, <3>7 DEF before, after
  <2>6. Len(s) \in Nat /\ i \in Nat /\ 1 <= i /\ i <= Len(s) /\ DOMAIN s = 1 .. Len(s)
    BY <2>1
  <2> HIDE DEF removed
  <2>7. DOMAIN removed = 1 .. Len(s) - 1
    BY <2>5, <2>6
  <2>8. IsInjective(removed)
    <3>1. ASSUME NEW a \in 1 .. Len(s) - 1, NEW b \in 1 .. Len(s) - 1, removed[a] = removed[b]
          PROVE  a = b
      <4> DEFINE place(k) == IF k < i THEN k ELSE k + 1
      <4>1. place(a) \in 1 .. Len(s) /\ place(b) \in 1 .. Len(s)
        BY <2>6
      <4>2. removed[a] = s[place(a)] /\ removed[b] = s[place(b)]
        BY <2>5
      <4>3. place(a) = place(b)
        BY <2>6, <3>1, <4>1, <4>2 DEF IsInjective
      <4> QED
        BY <2>6, <4>3
    <3> QED
      BY <2>7, <3>1 DEF IsInjective
  <2>9. Range(removed) = Range(s) \ {e}
    <3>1. ASSUME NEW k \in 1 .. Len(s) - 1 PROVE removed[k] \in Range(s) /\ removed[k] # e
      <4>1. PICK j \in 1 .. Len(s) : removed[k] = s[j] /\ j # i
        BY <2>5, <2>6
      <4> QED
        BY <2>1, <2>6, <4>1 DEF IsInjective, Range
    <3>2. ASSUME NEW k \in 1 .. Len(s), s[k] # e
          PROVE  \E j \in 1 .. Len(s) - 1 : removed[j] = s[k]
      <4>1. CASE k < i
        BY <2>5, <2>6, <4>1
      <4>2. CASE k > i
        <5>1. k - 1 \in 1 .. Len(s) - 1 /\ ~(k - 1 < i) /\ (k - 1) + 1 = k
          BY <2>6, <4>2
        <5>2. removed[k - 1] = s[k]
          BY <2>5, <5>1
        <5> QED
          BY <5>1, <5>2
      <4> QED
        BY <2>1, <2>6, <3>2, <4>1, <4>2
    <3>3. ASSUME NEW x \in Range(removed) PROVE x \in Range(s) \ {e}
      BY <2>7, <3>1 DEF Range
    <3>4. ASSUME NEW x \in Range(s) \ {e} PROVE x \in Range(removed)
      <4>1. PICK k \in 1 .. Len(s) : s[k] = x /\ s[k] # e
        BY <2>6 DEF Range
      <4> QED
        BY <2>7, <3>2, <4>1 DEF Range
    <3> QED
      BY <3>3, <3>4
  <2> QED
    BY <2>4, <2>5, <2>8, <2>9
<1> QED
  BY <1>1, <1>2

(* A new notification goes to the end of the queue.                        *)
LEMMA AppendFacts ==
  ASSUME NEW S, NEW s \in Seq(S), IsInjective(s), NEW e \in S, e \notin Range(s)
  PROVE  /\ Append(s, e) \in Seq(S)
         /\ IsInjective(Append(s, e))
         /\ Range(Append(s, e)) = Range(s) \cup {e}
<1>1. Len(s) \in Nat /\ DOMAIN s = 1 .. Len(s) /\ \A k \in 1 .. Len(s) : s[k] # e
  BY DEF Range
<1>2. /\ Append(s, e) \in Seq(S) /\ DOMAIN Append(s, e) = 1 .. Len(s) + 1
      /\ \A k \in 1 .. Len(s) : Append(s, e)[k] = s[k]
      /\ Append(s, e)[Len(s) + 1] = e
  BY AppendProperties
<1>3. \A k \in 1 .. Len(s) + 1 : k \in 1 .. Len(s) \/ k = Len(s) + 1
  BY <1>1
<1>4. IsInjective(Append(s, e))
  BY <1>1, <1>2, <1>3 DEF IsInjective
<1>5. 1 .. Len(s) \subseteq 1 .. Len(s) + 1 /\ Len(s) + 1 \in 1 .. Len(s) + 1
  BY <1>1
<1>6. Range(Append(s, e)) = Range(s) \cup {e}
  BY <1>1, <1>2, <1>3, <1>5 DEF Range
<1> QED
  BY <1>2, <1>4, <1>6

(* The oldest notification is received.                                    *)
LEMMA TailFacts ==
  ASSUME NEW S, NEW s \in Seq(S), IsInjective(s), s # <<>>
  PROVE  /\ Head(s) \in S /\ Head(s) \in Range(s)
         /\ Tail(s) \in Seq(S) /\ IsInjective(Tail(s))
         /\ Range(Tail(s)) = Range(s) \ {Head(s)}
<1>1. /\ Len(s) \in Nat /\ Len(s) > 0 /\ DOMAIN s = 1 .. Len(s) /\ Head(s) = s[1]
      /\ 1 \in 1 .. Len(s)
  BY EmptySeq
<1>2. /\ Tail(s) \in Seq(S) /\ DOMAIN Tail(s) = 1 .. Len(s) - 1
      /\ \A k \in 1 .. Len(s) - 1 : Tail(s)[k] = s[k + 1]
  BY <1>1, HeadTailProperties
<1>3. \A k \in 1 .. Len(s) - 1 : k + 1 \in 1 .. Len(s) /\ k + 1 # 1
  BY <1>1
<1>4. \A k \in 1 .. Len(s) : k # 1 => k - 1 \in 1 .. Len(s) - 1 /\ (k - 1) + 1 = k
  BY <1>1
<1>5. IsInjective(Tail(s))
  <2>1. ASSUME NEW a \in 1 .. Len(s) - 1, NEW b \in 1 .. Len(s) - 1, s[a + 1] = s[b + 1]
        PROVE  a = b
    <3>1. a + 1 = b + 1
      BY <1>1, <1>3, <2>1 DEF IsInjective
    <3> QED
      BY <3>1
  <2> QED
    BY <1>2, <2>1 DEF IsInjective
<1>6. ASSUME NEW x \in Range(Tail(s)) PROVE x \in Range(s) \ {Head(s)}
  <2>1. PICK k \in 1 .. Len(s) - 1 : x = s[k + 1]
    BY <1>2 DEF Range
  <2> QED
    BY <1>1, <1>3, <2>1 DEF Range, IsInjective
<1>7. ASSUME NEW x \in Range(s) \ {Head(s)} PROVE x \in Range(Tail(s))
  <2>1. PICK k \in 1 .. Len(s) : x = s[k] /\ k # 1
    BY <1>1 DEF Range
  <2>2. Tail(s)[k - 1] = x
    BY <1>2, <1>4, <2>1
  <2> QED
    BY <1>2, <1>4, <2>1, <2>2 DEF Range
<1> QED
  BY <1>1, <1>2, <1>5, <1>6, <1>7 DEF Range

-------------------------------------------------------------------------------
(***************************************************************************)
(* The inductive invariant                                                 *)
(***************************************************************************)

(* Only a call that is routed to the kernel is continued.                  *)
TraceeInv ==
  /\ pc \in [Tracees -> {"running", "waiting", "continued", "done", "dead"}]
  /\ call \in [Tracees -> Calls \cup {NoCall}]
  /\ result = [t \in Tracees |-> result[t]]
  /\ \A t \in Tracees : pc[t] \in {"waiting", "continued"} => call[t] \in Calls
  /\ \A t \in Tracees : pc[t] # "done" => result[t] = NoReply
  /\ \A t \in Tracees : pc[t] = "continued" => Route(call[t]) = "continue"

(* Every waiting call has one notification.                                *)
QueueInv ==
  /\ queue \in Seq(Tracees) /\ IsInjective(queue)
  /\ \A t \in Range(queue) : pc[t] = "waiting" /\ ~(live /\ caller = t)
  /\ \A t \in Tracees : pc[t] = "waiting" => t \in Range(queue) \/ (live /\ caller = t)

(* The call that was read from a notification is its caller's call as long *)
(* as the notification is there, and the answer is what that call asks for.*)
SupervisorInv ==
  /\ sup \in SupStates /\ caller \in Tracees /\ live \in BOOLEAN
  /\ stop \in BOOLEAN /\ (stop => pc[Command] = "dead")
  /\ sup \notin {"poll", "ended"} => served \in Calls
  /\ live => /\ sup \notin {"poll", "ended"}
             /\ pc[caller] = "waiting" /\ served = call[caller]
  /\ sup = "performing" => Route(served) = "perform"
  /\ sup = "answering" /\ reply = Continue /\ live => Route(served) = "continue"
  /\ sup \in {"blocked", "injecting"} => reply.status = "ok" /\ served.op = "open"

IInv == TraceeInv /\ QueueInv /\ SupervisorInv

LEMMA CallTypes ==
  /\ Calls \subseteq Call /\ NoCall \notin Calls
  /\ \A c \in Calls : Route(c) \in {"perform", "continue", "ENOTSUP", "EXDEV"}
<1>1. Calls \subseteq Call
  BY CallsAssumption
<1>2. \A c \in Calls : Route(c) \in {"perform", "continue", "ENOTSUP", "EXDEV"}
  BY <1>1, EffectIsServed
<1>3. NoCall \notin Call
  BY DEF NoCall, Call, Ops
<1> QED
  BY <1>1, <1>2, <1>3

LEMMA ErrorsDiffer == \A a, b : Error(a) = Error(b) => a = b
<1> SUFFICES ASSUME NEW a, NEW b, Error(a) = Error(b) PROVE a = b
  OBVIOUS
<1>1. Error(a).status = a /\ Error(b).status = b
  BY DEF Error
<1> QED
  BY <1>1

LEMMA InitInv == Init => IInv
<1> SUFFICES ASSUME Init PROVE IInv
  OBVIOUS
<1>1. TraceeInv
  BY DEF Init, TraceeInv
<1>2. QueueInv
  BY EmptySeq DEF Init, QueueInv, IsInjective, Range
<1>3. SupervisorInv
  BY TraceesAssumption DEF Init, SupervisorInv, SupStates
<1> QED
  BY <1>1, <1>2, <1>3 DEF IInv

(* The answer to a performed call is never taken for a continuation.       *)
LEMMA PerformedIsNoContinue ==
  ASSUME NEW c \in Calls, NEW host, NEW p, NEW q
  PROVE  /\ Reply(Perform(host, c, p, q)) # Continue
         /\ Reply(Perform(host, c, p, q)).status = Perform(host, c, p, q).status
<1>1. Perform(host, c, p, q).status # "continue"
  BY CallTypes, PerformStatus DEF PerformStatuses
<1> QED
  BY <1>1 DEF Reply, Continue, Error

-------------------------------------------------------------------------------
(***************************************************************************)
(* Every step keeps the invariant                                          *)
(***************************************************************************)

LEMMA SubmitKeeps ==
  ASSUME IInv, NEW t \in Tracees, NEW c \in Calls, Submit(t, c) PROVE IInv'
<1> USE DEF IInv
<1>1. t \notin Range(queue) /\ ~(live /\ caller = t)
  BY DEF Submit, QueueInv, SupervisorInv, TraceeInv
<1>2. TraceeInv'
  BY DEF Submit, TraceeInv
<1>3. QueueInv'
  <2>1. CASE sup = "ended"
    BY <1>1, <2>1, RangeOfSeq DEF Submit, QueueInv, TraceeInv, supVars
  <2>2. CASE sup # "ended"
    <3>1. /\ queue' \in Seq(Tracees) /\ IsInjective(queue')
          /\ Range(queue') = Range(queue) \cup {t}
      <4>1. queue' = Append(queue, t) /\ queue \in Seq(Tracees) /\ IsInjective(queue)
        BY <2>2 DEF Submit, QueueInv
      <4> QED
        BY <1>1, <4>1, AppendFacts
    <3> QED
      BY <1>1, <2>2, <3>1, RangeOfSeq DEF Submit, QueueInv, TraceeInv, supVars
  <2> QED
    BY <2>1, <2>2
<1>4. SupervisorInv'
  BY <1>1, TraceesAssumption DEF Submit, SupervisorInv, TraceeInv, supVars
<1> QED
  BY <1>2, <1>3, <1>4

LEMMA KernelPerformsKeeps ==
  ASSUME IInv, NEW t \in Tracees, KernelPerforms(t) PROVE IInv'
<1> USE DEF IInv
<1>1. TraceeInv'
  BY DEF KernelPerforms, TraceeInv
<1>2. QueueInv'
  BY RangeOfSeq DEF KernelPerforms, QueueInv, TraceeInv, supVars
<1>3. SupervisorInv'
  BY DEF KernelPerforms, SupervisorInv, TraceeInv, supVars
<1> QED
  BY <1>1, <1>2, <1>3

LEMMA ReturnKeeps ==
  ASSUME IInv, NEW t \in Tracees, Return(t) PROVE IInv'
<1> USE DEF IInv
<1>1. TraceeInv'
  BY DEF Return, TraceeInv
<1>2. QueueInv'
  BY RangeOfSeq DEF Return, QueueInv, TraceeInv, supVars
<1>3. SupervisorInv'
  BY DEF Return, SupervisorInv, TraceeInv, supVars
<1> QED
  BY <1>1, <1>2, <1>3

LEMMA InterruptKeeps ==
  ASSUME IInv, NEW t \in Tracees, Interrupt(t) PROVE IInv'
<1> USE DEF IInv, Withdraw
<1>1. /\ RemoveFirst(queue, t) \in Seq(Tracees) /\ IsInjective(RemoveFirst(queue, t))
      /\ Range(RemoveFirst(queue, t)) = Range(queue) \ {t}
  BY RemoveFirstFacts DEF QueueInv
<1>2. SupervisorInv'
  BY TraceesAssumption DEF Interrupt, SupervisorInv, TraceeInv
<1>3. CASE queue' = Append(RemoveFirst(queue, t), t) /\ UNCHANGED <<pc, result>>
  <2>1. TraceeInv'
    BY <1>3 DEF Interrupt, TraceeInv
  <2>2. /\ queue' \in Seq(Tracees) /\ IsInjective(queue')
        /\ Range(queue') = (Range(queue) \ {t}) \cup {t}
    BY <1>1, <1>3, AppendFacts
  <2>3. QueueInv'
    BY <1>3, <2>2, RangeOfSeq DEF Interrupt, QueueInv, TraceeInv
  <2> QED
    BY <1>2, <2>1, <2>3
<1>4. CASE /\ queue' = RemoveFirst(queue, t) /\ pc' = [pc EXCEPT ![t] = "done"]
           /\ result' = [result EXCEPT ![t] = Error("EINTR")]
  <2>1. TraceeInv'
    BY <1>4 DEF Interrupt, TraceeInv
  <2>2. QueueInv'
    BY <1>1, <1>4, RangeOfSeq DEF Interrupt, QueueInv, TraceeInv
  <2> QED
    BY <1>2, <2>1, <2>2
<1> QED
  BY <1>3, <1>4 DEF Interrupt

LEMMA ExitKeeps ==
  ASSUME IInv, NEW t \in Tracees, Exit(t) PROVE IInv'
<1> USE DEF IInv, Withdraw
<1>1. /\ RemoveFirst(queue, t) \in Seq(Tracees) /\ IsInjective(RemoveFirst(queue, t))
      /\ Range(RemoveFirst(queue, t)) = Range(queue) \ {t}
  BY RemoveFirstFacts DEF QueueInv
<1>2. TraceeInv'
  BY DEF Exit, TraceeInv
<1>3. QueueInv'
  BY <1>1, RangeOfSeq DEF Exit, QueueInv, TraceeInv
<1>4. SupervisorInv'
  BY TraceesAssumption DEF Exit, SupervisorInv, TraceeInv
<1> QED
  BY <1>2, <1>3, <1>4

LEMMA ReceiveKeeps ==
  ASSUME IInv, Receive PROVE IInv'
<1> USE DEF IInv
<1>1. /\ Head(queue) \in Tracees /\ Head(queue) \in Range(queue)
      /\ Tail(queue) \in Seq(Tracees) /\ IsInjective(Tail(queue))
      /\ Range(Tail(queue)) = Range(queue) \ {Head(queue)}
  BY TailFacts DEF Receive, QueueInv
<1>2. TraceeInv'
  BY DEF Receive, TraceeInv
<1>3. QueueInv'
  BY <1>1, RangeOfSeq DEF Receive, QueueInv, SupervisorInv
<1>4. SupervisorInv'
  BY <1>1 DEF Receive, QueueInv, SupervisorInv, SupStates, TraceeInv
<1> QED
  BY <1>2, <1>3, <1>4

LEMMA ServeKeeps ==
  ASSUME IInv, Serve PROVE IInv'
<1> USE DEF IInv
<1>1. /\ sup \in {"serving", "performing"}
      /\ UNCHANGED <<pc, call, result, queue, stop, caller, live, served>>
  BY DEF Serve, ServeGone, ServeElsewhere, ReadPath, ServeOnSource, Serving, traceeVars
<1>2. TraceeInv' /\ QueueInv'
  BY <1>1 DEF TraceeInv, QueueInv
<1>3. CASE ServeGone
  <2>1. sup' = "answering" /\ reply' # Continue
    BY <1>3, ErrorsDiffer DEF ServeGone, Decide, Continue
  <2> QED
    BY <1>1, <1>2, <2>1 DEF SupervisorInv, SupStates
<1>4. CASE ServeElsewhere
  <2>1. reply' = Continue => Route(served) = "continue"
    BY <1>4, ErrorsDiffer DEF ServeElsewhere, Decide, Continue
  <2> QED
    BY <1>1, <1>2, <1>4, <2>1 DEF ServeElsewhere, Decide, SupervisorInv, SupStates
<1>5. CASE ReadPath
  <2>1. sup' = "performing" /\ Route(served)' = "perform"
    BY <1>1, <1>5 DEF ReadPath, Route, RouteRename
  <2> QED
    BY <1>1, <1>2, <2>1 DEF SupervisorInv, SupStates
<1>6. CASE ServeOnSource
  <2>1. reply' = Reply(OnSource(served)) /\ sup' = AfterCall(OnSource(served))
    BY <1>6 DEF ServeOnSource
  <2>2. served \in Calls
    BY <1>1 DEF SupervisorInv
  <2>3. reply' # Continue /\ reply'.status = OnSource(served).status
    BY <2>1, <2>2, PerformedIsNoContinue DEF OnSource
  <2>4. /\ sup' \in {"answering", "blocked", "injecting"}
        /\ sup' # "answering" => OnSource(served).status = "ok" /\ served.op = "open"
    BY <2>1 DEF AfterCall
  <2> QED
    BY <1>1, <1>2, <2>3, <2>4 DEF SupervisorInv, SupStates
<1> QED
  BY <1>2, <1>3, <1>4, <1>5, <1>6 DEF Serve

LEMMA AddFdKeeps ==
  ASSUME IInv, AddFd PROVE IInv'
<1> USE DEF IInv
<1>1. sup = "injecting" /\ UNCHANGED <<call, queue, stop, caller, served>>
  BY DEF AddFd
<1>2. CASE /\ live /\ Wakes(caller, "done", reply) /\ sup' = "poll"
           /\ live' = FALSE /\ UNCHANGED reply
  <2>1. TraceeInv'
    BY <1>1, <1>2 DEF Wakes, TraceeInv, SupervisorInv
  <2>2. QueueInv'
    BY <1>1, <1>2, RangeOfSeq DEF Wakes, QueueInv, TraceeInv, SupervisorInv
  <2>3. SupervisorInv'
    BY <1>1, <1>2, TraceesAssumption DEF Wakes, TraceeInv, SupervisorInv, SupStates
  <2> QED
    BY <2>1, <2>2, <2>3
<1>3. CASE /\ sup' = "answering" /\ reply' # Continue /\ UNCHANGED <<pc, result, live>>
  BY <1>1, <1>3 DEF TraceeInv, QueueInv, SupervisorInv, SupStates
<1> QED
  BY <1>2, <1>3, ErrorsDiffer DEF AddFd, Decide, Continue

LEMMA AnswerKeeps ==
  ASSUME IInv, Answer PROVE IInv'
<1> USE DEF IInv
<1>1. /\ sup = "answering" /\ sup' = "poll" /\ live' = FALSE
      /\ UNCHANGED <<call, queue, stop, caller, served, reply>>
  BY DEF Answer
<1>2. SupervisorInv'
  <2>1. stop => pc'[Command] = "dead"
    BY <1>1, TraceesAssumption DEF Answer, Wakes, TraceeInv, SupervisorInv
  <2> QED
    BY <1>1, <2>1 DEF SupervisorInv, SupStates
<1>3. CASE ~live
  BY <1>1, <1>2, <1>3 DEF Answer, TraceeInv, QueueInv
<1>4. CASE live /\ reply = Continue
  <2>1. Wakes(caller, "continued", NoReply)
    BY <1>4 DEF Answer
  <2>2. TraceeInv'
    BY <1>1, <1>4, <2>1 DEF Wakes, TraceeInv, SupervisorInv
  <2>3. QueueInv'
    BY <1>1, <1>4, <2>1, RangeOfSeq DEF Wakes, QueueInv, TraceeInv, SupervisorInv
  <2> QED
    BY <1>2, <2>2, <2>3
<1>5. CASE live /\ reply # Continue
  <2>1. Wakes(caller, "done", reply)
    BY <1>5 DEF Answer
  <2>2. TraceeInv'
    BY <1>1, <1>5, <2>1 DEF Wakes, TraceeInv, SupervisorInv
  <2>3. QueueInv'
    BY <1>1, <1>5, <2>1, RangeOfSeq DEF Wakes, QueueInv, TraceeInv, SupervisorInv
  <2> QED
    BY <1>2, <2>2, <2>3
<1> QED
  BY <1>3, <1>4, <1>5 DEF SupervisorInv

LEMMA EndKeeps ==
  ASSUME IInv, Stop \/ PeerOpens \/ SupervisorEnds PROVE IInv'
<1> USE DEF IInv
<1>1. CASE PeerOpens
  BY <1>1 DEF PeerOpens, traceeVars, TraceeInv, QueueInv, SupervisorInv, SupStates
<1>2. CASE SupervisorEnds
  <2>1. TraceeInv'
    BY <1>2 DEF SupervisorEnds, TraceeInv
  <2>2. QueueInv'
    BY <1>2, EmptySeq DEF SupervisorEnds, QueueInv, IsInjective, Range
  <2>3. SupervisorInv'
    BY <1>2, TraceesAssumption DEF SupervisorEnds, SupervisorInv, SupStates
  <2> QED
    BY <2>1, <2>2, <2>3
<1>3. CASE Stop
  BY <1>3 DEF Stop, traceeVars, TraceeInv, QueueInv, SupervisorInv, SupStates
<1> QED
  BY <1>1, <1>2, <1>3

LEMMA StepInv == IInv /\ [Next]_vars => IInv'
<1> SUFFICES ASSUME IInv, [Next]_vars PROVE IInv'
  OBVIOUS
<1>1. CASE UNCHANGED vars
  BY <1>1 DEF vars, traceeVars, supVars, IInv, TraceeInv, QueueInv, SupervisorInv
<1>2. CASE Supervisor
  BY <1>2, ReceiveKeeps, ServeKeeps, AddFdKeeps, AnswerKeeps, EndKeeps DEF Supervisor
<1>3. CASE Stop \/ PeerOpens
  BY <1>3, EndKeeps
<1>4. CASE \E t \in Tracees : Tracee(t)
  BY <1>4, SubmitKeeps, KernelPerformsKeeps, ReturnKeeps, InterruptKeeps, ExitKeeps DEF Tracee
<1>5. CASE Finished
  BY <1>1, <1>5 DEF Finished
<1> QED
  BY <1>1, <1>2, <1>3, <1>4, <1>5 DEF Next

LEMMA Inductive == Spec => []IInv
BY InitInv, StepInv, PTL DEF Spec

-------------------------------------------------------------------------------
(***************************************************************************)
(* What a call returns and how often it was performed                      *)
(***************************************************************************)

Performances(status) == IF status = "ok" THEN 1 ELSE 0

(* A call that waits to be served, or to be continued, was not performed;  *)
(* one that was served was performed if its answer says so.                *)
EffectInv ==
  /\ performed \in [Tracees -> Nat]
  /\ \A t \in Tracees : t \notin interrupted =>
       /\ pc[t] = "waiting" /\ ~(live /\ caller = t) => performed[t] = 0
       /\ pc[t] = "continued" => performed[t] = 0
       /\ pc[t] = "done" /\ result[t].status # "EMFILE"
            => performed[t] = Performances(result[t].status)
  /\ live /\ caller \notin interrupted =>
       /\ sup \in {"serving", "performing"} => performed[caller] = 0
       /\ sup \in {"blocked", "injecting"} => performed[caller] = 1
       /\ sup = "answering" /\ reply.status # "EMFILE"
            => performed[caller] = Performances(reply.status)

LEMMA StatusOfError == \A status : Error(status).status = status
BY DEF Error

LEMMA TraceeKeepsEffect ==
  ASSUME IInv, EffectInv, NEW t \in Tracees, Tracee(t) PROVE EffectInv'
<1> USE DEF IInv
<1>1. ASSUME NEW c \in Calls, Submit(t, c) PROVE EffectInv'
  <2>1. /\ ~(live /\ caller = t) /\ interrupted' = interrupted \ {t}
        /\ performed' = [performed EXCEPT ![t] = 0]
        /\ UNCHANGED <<sup, caller, live, reply>>
    BY <1>1 DEF Submit, supVars, SupervisorInv, TraceeInv
  <2>2. /\ pc'[t] \in {"done", "waiting"}
        /\ pc'[t] = "done" => result'[t].status = "ENOSYS"
        /\ \A u \in Tracees \ {t} : pc'[u] = pc[u] /\ result'[u] = result[u]
    BY <1>1, StatusOfError DEF Submit, TraceeInv
  <2> QED
    BY <2>1, <2>2 DEF EffectInv, Performances, SupervisorInv
<1>2. CASE KernelPerforms(t)
  <2> DEFINE outcome == Perform(tree, call[t], call[t].path, call[t].to)
  <2>1. /\ pc[t] = "continued" /\ pc'[t] = "done" /\ result'[t] = Reply(outcome)
        /\ \A u \in Tracees \ {t} : pc'[u] = pc[u] /\ result'[u] = result[u]
        /\ performed' =
             [performed EXCEPT ![t] = IF outcome.status = "ok" THEN @ + 1 ELSE @]
        /\ UNCHANGED <<sup, caller, live, reply, interrupted>>
    BY <1>2 DEF KernelPerforms, TraceeInv, supVars
  <2>2. result'[t].status = outcome.status
    BY <2>1 DEF Reply
  <2> HIDE DEF outcome
  <2>3. live => caller # t
    BY <2>1 DEF SupervisorInv
  <2> QED
    BY <2>1, <2>2, <2>3 DEF EffectInv, Performances, SupervisorInv
<1>3. CASE Return(t)
  <2>1. /\ pc[t] = "done" /\ pc'[t] = "running"
        /\ \A u \in Tracees \ {t} : pc'[u] = pc[u] /\ result'[u] = result[u]
        /\ UNCHANGED <<sup, caller, live, reply, performed, interrupted>>
    BY <1>3 DEF Return, TraceeInv, supVars, history
  <2> QED
    BY <2>1 DEF EffectInv
<1>4. CASE Interrupt(t) \/ Exit(t)
  <2>1. /\ interrupted \subseteq interrupted'
        /\ t \in interrupted' \/ pc'[t] = "dead"
        /\ live' <=> live /\ caller # t
        /\ \A u \in Tracees \ {t} : pc'[u] = pc[u] /\ result'[u] = result[u]
        /\ UNCHANGED <<sup, caller, reply, performed>>
        /\ interrupted' \subseteq interrupted \cup {t}
    BY <1>4 DEF Interrupt, Exit, Withdraw, TraceeInv, history
  <2> QED
    BY <2>1 DEF EffectInv, SupervisorInv
<1> QED
  BY <1>1, <1>2, <1>3, <1>4 DEF Tracee

LEMMA ServeKeepsEffect ==
  ASSUME IInv, EffectInv, Serve PROVE EffectInv'
<1> USE DEF IInv
<1>1. /\ sup \in {"serving", "performing"} /\ caller \in Tracees
      /\ UNCHANGED <<pc, result, caller, live, interrupted>>
  BY DEF Serve, ServeGone, ServeElsewhere, ReadPath, ServeOnSource, Serving, traceeVars,
         SupervisorInv
<1>2. CASE ~live
  <2>1. performed' = performed
    <3>1. performed' = performed \/ performed' = [performed EXCEPT ![caller] = @]
      BY <1>2 DEF Serve, ServeGone, ServeElsewhere, ReadPath, ServeOnSource
    <3> QED
      BY <3>1 DEF EffectInv
  <2> QED
    BY <1>1, <1>2, <2>1 DEF EffectInv
<1>3. CASE live
  <2>1. pc[caller] = "waiting" /\ served \in Calls
    BY <1>1, <1>3 DEF SupervisorInv
  <2>2. CASE ServeElsewhere
    <3>1. /\ performed' = performed /\ sup' = "answering"
          /\ reply'.status = Route(served) /\ Route(served) # "ok"
      BY <2>1, <2>2, StatusOfError, CallTypes DEF ServeElsewhere, Decide
    <3> QED
      BY <1>1, <1>3, <3>1 DEF EffectInv, Performances
  <2>3. CASE ReadPath
    BY <1>1, <1>3, <2>3 DEF ReadPath, EffectInv
  <2>4. CASE ServeOnSource
    <3> DEFINE outcome == OnSource(served)
    <3>1. /\ reply'.status = outcome.status /\ sup' = AfterCall(outcome)
          /\ performed' = [performed EXCEPT
                             ![caller] = IF outcome.status = "ok" THEN @ + 1 ELSE @]
      BY <1>3, <2>4 DEF ServeOnSource, Reply
    <3>2. /\ sup' \in {"answering", "blocked", "injecting"}
          /\ sup' # "answering" => outcome.status = "ok"
      BY <3>1 DEF AfterCall
    <3> HIDE DEF outcome
    <3> QED
      BY <1>1, <1>3, <2>1, <3>1, <3>2 DEF EffectInv, Performances
  <2> QED
    BY <2>1, <2>2, <2>3, <2>4 DEF Serve, ServeGone
<1> QED
  BY <1>2, <1>3 DEF SupervisorInv

LEMMA SupervisorKeepsEffect ==
  ASSUME IInv, EffectInv,
         Receive \/ AddFd \/ Answer \/ SupervisorEnds \/ Stop \/ PeerOpens
  PROVE  EffectInv'
<1> USE DEF IInv
<1>1. UNCHANGED <<performed, interrupted>>
  BY DEF Receive, AddFd, Answer, SupervisorEnds, Stop, PeerOpens, history
<1>2. CASE Receive
  <2>1. Head(queue) \in Tracees /\ pc[Head(queue)] = "waiting" /\ ~live
    BY <1>2, TailFacts DEF Receive, QueueInv, SupervisorInv
  <2> QED
    BY <1>1, <1>2, <2>1 DEF Receive, EffectInv
<1>3. CASE AddFd
  <2>1. CASE ~live
    BY <1>1, <1>3, <2>1 DEF AddFd, EffectInv
  <2>2. CASE live
    <3>1. sup = "injecting" /\ caller \in Tracees /\ caller' = caller /\ reply.status = "ok"
      BY <1>3 DEF AddFd, SupervisorInv
    <3>2. CASE Wakes(caller, "done", reply) /\ live' = FALSE
      <4>1. /\ pc'[caller] = "done" /\ result'[caller] = reply
            /\ \A u \in Tracees \ {caller} : pc'[u] = pc[u] /\ result'[u] = result[u]
        BY <3>1, <3>2 DEF Wakes, TraceeInv
      <4> QED
        BY <1>1, <2>2, <3>1, <3>2, <4>1 DEF EffectInv, Performances
    <3>3. CASE Decide(Error("EMFILE")) /\ UNCHANGED <<pc, result, live>>
      BY <1>1, <2>2, <3>1, <3>3, StatusOfError DEF Decide, EffectInv
    <3> QED
      BY <1>3, <2>2, <3>2, <3>3 DEF AddFd
  <2> QED
    BY <2>1, <2>2 DEF SupervisorInv
<1>4. CASE Answer
  <2>1. sup = "answering" /\ caller \in Tracees /\ caller' = caller /\ live' = FALSE
    BY <1>4 DEF Answer, SupervisorInv
  <2>2. CASE ~live
    BY <1>1, <1>4, <2>1, <2>2 DEF Answer, EffectInv
  <2>3. CASE live
    <3>1. \/ reply = Continue /\ pc'[caller] = "continued"
          \/ pc'[caller] = "done" /\ result'[caller] = reply
      BY <1>4, <2>1, <2>3 DEF Answer, Wakes, TraceeInv
    <3>2. \A u \in Tracees \ {caller} : pc'[u] = pc[u] /\ result'[u] = result[u]
      BY <1>4, <2>1, <2>3 DEF Answer, Wakes, TraceeInv
    <3>3. reply = Continue => reply.status = "continue"
      BY StatusOfError DEF Continue
    <3> QED
      BY <1>1, <2>1, <2>3, <3>1, <3>2, <3>3 DEF EffectInv, Performances
  <2> QED
    BY <2>2, <2>3 DEF SupervisorInv
<1>5. CASE SupervisorEnds
  <2>1. ~live /\ live' = live /\ sup' = "ended"
    BY <1>5 DEF SupervisorEnds, SupervisorInv
  <2>2. \A t \in Tracees :
          \/ pc[t] = "waiting" /\ pc'[t] = "done" /\ result'[t].status = "ENOSYS"
          \/ pc[t] # "waiting" /\ pc'[t] = pc[t] /\ result'[t] = result[t]
    BY <1>5, StatusOfError DEF SupervisorEnds
  <2> QED
    BY <1>1, <2>1, <2>2 DEF EffectInv, Performances
<1>6. CASE Stop \/ PeerOpens
  BY <1>1, <1>6 DEF Stop, PeerOpens, traceeVars, EffectInv
<1> QED
  BY <1>2, <1>3, <1>4, <1>5, <1>6

LEMMA StepEffect == IInv /\ EffectInv /\ [Next]_vars => EffectInv'
<1> SUFFICES ASSUME IInv, EffectInv, [Next]_vars PROVE EffectInv'
  OBVIOUS
<1>1. CASE UNCHANGED vars
  BY <1>1 DEF vars, traceeVars, supVars, history, EffectInv
<1>2. CASE Supervisor \/ Stop \/ PeerOpens
  BY <1>2, ServeKeepsEffect, SupervisorKeepsEffect DEF Supervisor
<1>3. CASE \E t \in Tracees : Tracee(t)
  BY <1>3, TraceeKeepsEffect
<1>4. CASE Finished
  BY <1>1, <1>4 DEF Finished
<1> QED
  BY <1>1, <1>2, <1>3, <1>4 DEF Next

(* For any view, calls, trees and tracees: what a path call returns says   *)
(* whether linux/mod.rs and dispatch.rs have performed it, and no answer   *)
(* stands for two performances.                                            *)
THEOREM AnswersTellEffects == Spec => []AnswerTellsEffect
<1>1. Init => EffectInv
  BY DEF Init, EffectInv
<1>2. EffectInv => AnswerTellsEffect
  BY DEF EffectInv, Performances, AnswerTellsEffect
<1> QED
  BY Inductive, StepEffect, <1>1, <1>2, PTL DEF Spec

-------------------------------------------------------------------------------
(***************************************************************************)
(* Every step maps to a step of the mounted object or to a stutter         *)
(***************************************************************************)

(* The stage of a tracee at that point, if it has that one when it waits.  *)
StageOf(at, stage) ==
  CASE at = "running"   -> "idle"
    [] at = "dead"      -> "gone"
    [] at = "done"      -> "applied"
    [] at = "continued" -> "asked"
    [] at = "waiting"   -> stage

LEMMA StageValues ==
  ASSUME NEW stage
  PROVE  /\ StageOf("running", stage) = "idle"
         /\ StageOf("dead", stage) = "gone"
         /\ StageOf("done", stage) = "applied"
         /\ StageOf("continued", stage) = "asked"
         /\ StageOf("waiting", stage) = stage
BY DEF StageOf

LEMMA MappedState ==
  /\ MountedStage =
       [t \in Tracees |-> StageOf(pc[t], IF Decided(t) THEN "applied" ELSE "asked")]
  /\ MountedStage' =
       [t \in Tracees |-> StageOf(pc'[t], IF Decided(t)' THEN "applied" ELSE "asked")]
  /\ MountedAnswer = [t \in Tracees |-> IF Decided(t) THEN reply ELSE result[t]]
  /\ MountedAnswer' = [t \in Tracees |-> IF Decided(t)' THEN reply' ELSE result'[t]]
BY DEF MountedStage, MountedAnswer, StageOf

(* A step that changes one tracee.                                         *)
LEMMA OneTracee ==
  ASSUME NEW t \in Tracees,
         \A u \in Tracees \ {t} :
           /\ pc'[u] = pc[u] /\ result'[u] = result[u] /\ (Decided(u)' <=> Decided(u))
           /\ Decided(u) => reply' = reply
  PROVE  /\ MountedStage' = [MountedStage EXCEPT
             ![t] = StageOf(pc'[t], IF Decided(t)' THEN "applied" ELSE "asked")]
         /\ MountedAnswer' = [MountedAnswer EXCEPT
                                ![t] = IF Decided(t)' THEN reply' ELSE result'[t]]
BY MappedState

(* A step that changes none.                                               *)
LEMMA NoTracee ==
  ASSUME \A u \in Tracees :
           /\ MountedStage'[u] = MountedStage[u] /\ MountedAnswer'[u] = MountedAnswer[u]
  PROVE  MountedStage' = MountedStage /\ MountedAnswer' = MountedAnswer
BY MappedState

LEMMA InitMaps == Init => Mounted!Init
<1> SUFFICES ASSUME Init PROVE Mounted!Init
  OBVIOUS
<1>1. \A t \in Tracees : ~Decided(t)
  BY DEF Init, Decided
<1>2. MountedStage = [t \in Tracees |-> "idle"]
  BY <1>1, MappedState, StageValues DEF Init
<1>3. MountedAnswer = [t \in Tracees |-> NoReply]
  BY <1>1, MappedState DEF Init
<1>4. MountedStray = {}
  BY DEF Init, MountedStray
<1> QED
  BY <1>2, <1>3, <1>4
  DEF Init, Mounted!Init, NoCall, Mounted!NoCall, NoReply, Mounted!NoAnswer

Stutters == /\ MountedStage' = MountedStage /\ MountedAnswer' = MountedAnswer
            /\ MountedStray' = MountedStray
            /\ (sup' = "ended") = (sup = "ended") /\ UNCHANGED <<tree, call>>

LEMMA StuttersMap == Stutters => UNCHANGED Mounted!vars
BY DEF Stutters, Mounted!vars

LEMMA SubmitMaps ==
  ASSUME IInv, NEW t \in Tracees, NEW c \in Calls, Submit(t, c)
  PROVE  Mounted!Ask(t, c) \/ Mounted!AskLate(t, c)
<1> USE DEF IInv, supVars
<1>1. ~(live /\ caller = t) /\ pc[t] = "running" /\ result[t] = NoReply
  BY DEF Submit, SupervisorInv, TraceeInv
<1>2. ~Decided(t) /\ ~Decided(t)'
  BY <1>1 DEF Submit, Decided
<1>3. \A u \in Tracees \ {t} :
        /\ pc'[u] = pc[u] /\ result'[u] = result[u] /\ (Decided(u)' <=> Decided(u))
        /\ Decided(u) => reply' = reply
  BY DEF Submit, TraceeInv, Decided
<1>4. MountedStray' = MountedStray
  BY <1>1 DEF Submit, TraceeInv, MountedStray, SupervisorInv
<1>5. MountedStage[t] = "idle" /\ MountedAnswer[t] = NoReply
  BY <1>1, <1>2, MappedState, StageValues
<1>6. CASE sup = "ended"
  <2>1. pc'[t] = "done" /\ result'[t] = Error("ENOSYS")
    BY <1>6 DEF Submit, TraceeInv
  <2>2. /\ MountedStage' = [MountedStage EXCEPT ![t] = "applied"]
        /\ MountedAnswer' = [MountedAnswer EXCEPT ![t] = Error("ENOSYS")]
    BY <1>2, <1>3, <2>1, OneTracee, StageValues
  <2> QED
    BY <1>4, <1>5, <1>6, <2>2
    DEF Submit, Mounted!AskLate, Mounted!Stage, Mounted!Answers
<1>7. CASE sup # "ended"
  <2>1. pc'[t] = "waiting" /\ result'[t] = NoReply
    BY <1>1, <1>7 DEF Submit, TraceeInv
  <2>2. MountedStage' = [MountedStage EXCEPT ![t] = "asked"]
    BY <1>2, <1>3, <2>1, OneTracee, StageValues
  <2>3. MountedAnswer' = [MountedAnswer EXCEPT ![t] = NoReply]
    BY <1>2, <1>3, <2>1, OneTracee
  <2>4. MountedAnswer' = MountedAnswer
    BY <1>5, <2>3, MappedState
  <2> QED
    BY <1>4, <1>5, <1>7, <2>2, <2>4 DEF Submit, Mounted!Ask, Mounted!Stage
<1> QED
  BY <1>6, <1>7

LEMMA KernelPerformsMaps ==
  ASSUME IInv, NEW t \in Tracees, KernelPerforms(t) PROVE Mounted!Apply(t)
<1> USE DEF IInv, supVars
<1> DEFINE outcome == Perform(tree, call[t], call[t].path, call[t].to)
<1>1. /\ pc[t] = "continued" /\ call[t] \in Calls /\ Route(call[t]) = "continue"
      /\ pc'[t] = "done" /\ result'[t] = Reply(outcome) /\ tree' = outcome.tree
  BY DEF KernelPerforms, TraceeInv
<1>2. outcome = Effect(tree, call[t])
  BY <1>1, CallTypes, EffectIsServed
<1> HIDE DEF outcome
<1>3. ~Decided(t) /\ ~Decided(t)'
  BY <1>1 DEF Decided
<1>4. \A u \in Tracees \ {t} :
        /\ pc'[u] = pc[u] /\ result'[u] = result[u] /\ (Decided(u)' <=> Decided(u))
        /\ Decided(u) => reply' = reply
  BY DEF KernelPerforms, TraceeInv, Decided
<1>5. MountedStray' = MountedStray
  BY <1>1 DEF KernelPerforms, TraceeInv, MountedStray, SupervisorInv
<1>6. /\ MountedStage[t] = "asked"
      /\ MountedStage' = [MountedStage EXCEPT ![t] = "applied"]
      /\ MountedAnswer' = [MountedAnswer EXCEPT ![t] = Reply(outcome)]
  <2>1. MountedStage[t] = "asked"
    BY <1>1, MappedState, StageValues
  <2>2. MountedStage' = [MountedStage EXCEPT ![t] = "applied"]
    BY <1>1, <1>3, <1>4, OneTracee, StageValues
  <2>3. MountedAnswer' = [MountedAnswer EXCEPT ![t] = Reply(outcome)]
    BY <1>1, <1>3, <1>4, OneTracee
  <2> QED
    BY <2>1, <2>2, <2>3
<1> QED
  BY <1>1, <1>2, <1>5, <1>6
  DEF KernelPerforms, Mounted!Apply, Mounted!Stage, Mounted!Answers, Mounted!Reply, Reply

LEMMA ReturnMaps ==
  ASSUME IInv, NEW t \in Tracees, Return(t) PROVE Mounted!Return(t)
<1> USE DEF IInv, supVars
<1>1. pc[t] = "done" /\ pc'[t] = "running" /\ result'[t] = NoReply
  BY DEF Return, TraceeInv
<1>2. ~Decided(t) /\ ~Decided(t)'
  BY <1>1 DEF Decided
<1>3. \A u \in Tracees \ {t} :
        /\ pc'[u] = pc[u] /\ result'[u] = result[u] /\ (Decided(u)' <=> Decided(u))
        /\ Decided(u) => reply' = reply
  BY DEF Return, TraceeInv, Decided
<1>4. MountedStray' = MountedStray
  BY <1>1 DEF Return, TraceeInv, MountedStray, SupervisorInv
<1>5. /\ MountedStage[t] = "applied"
      /\ MountedStage' = [MountedStage EXCEPT ![t] = "idle"]
      /\ MountedAnswer' = [MountedAnswer EXCEPT ![t] = NoReply]
  <2>1. MountedStage[t] = "applied"
    BY <1>1, MappedState, StageValues
  <2>2. MountedStage' = [MountedStage EXCEPT ![t] = "idle"]
    BY <1>1, <1>2, <1>3, OneTracee, StageValues
  <2>3. MountedAnswer' = [MountedAnswer EXCEPT ![t] = NoReply]
    BY <1>1, <1>2, <1>3, OneTracee
  <2> QED
    BY <2>1, <2>2, <2>3
<1> QED
  BY <1>4, <1>5
  DEF Return, Mounted!Return, Mounted!Stage, Mounted!Answers, Mounted!NoAnswer, NoReply

LEMMA InterruptMaps ==
  ASSUME IInv, NEW t \in Tracees, Interrupt(t) PROVE Mounted!Interrupt(t)
<1> USE DEF IInv, Withdraw
<1>1. /\ pc[t] = "waiting" /\ result[t] = NoReply /\ live' = (live /\ caller # t)
      /\ UNCHANGED <<tree, call, sup, caller, served, reply>>
  BY DEF Interrupt, TraceeInv
<1>2. ~Decided(t)'
  BY <1>1 DEF Decided
<1>3. \A u \in Tracees \ {t} :
        /\ pc'[u] = pc[u] /\ result'[u] = result[u] /\ (Decided(u)' <=> Decided(u))
        /\ Decided(u) => reply' = reply
  <2>1. \A u \in Tracees \ {t} : pc'[u] = pc[u] /\ result'[u] = result[u]
    BY DEF Interrupt, TraceeInv
  <2>2. \A u \in Tracees \ {t} : live' /\ caller = u <=> live /\ caller = u
    BY <1>1 DEF SupervisorInv
  <2>3. \A u \in Tracees \ {t} : Decided(u)' <=> Decided(u)
    BY <1>1, <2>1, <2>2 DEF Decided
  <2> QED
    BY <1>1, <2>1, <2>3
<1>4. MountedStage[t] \in {"asked", "applied"}
  BY <1>1, MappedState, StageValues
<1>5. /\ pc'[t] \in {"waiting", "done"}
      /\ pc'[t] = "waiting" => result'[t] = NoReply
      /\ pc'[t] = "done" => result'[t] = Error("EINTR")
  BY <1>1 DEF Interrupt, TraceeInv
<1>6. \/ /\ MountedStage' = [MountedStage EXCEPT ![t] = "asked"]
         /\ MountedAnswer' = [MountedAnswer EXCEPT ![t] = NoReply]
      \/ /\ MountedStage' = [MountedStage EXCEPT ![t] = "applied"]
         /\ MountedAnswer' = [MountedAnswer EXCEPT ![t] = Error("EINTR")]
  BY <1>2, <1>3, <1>5, OneTracee, StageValues
<1>7. \/ MountedStray' = MountedStray
      \/ MountedStage[t] = "asked" /\ MountedStray = {} /\ MountedStray' = {call[t]}
  <2>1. CASE live /\ caller = t /\ sup \in {"serving", "performing"}
    <3>1. ~Decided(t) /\ served = call[t] /\ pc'[caller] # "dead"
      BY <1>5, <2>1 DEF Decided, SupervisorInv
    <3> QED
      BY <1>1, <2>1, <3>1, MappedState, StageValues DEF MountedStray
  <2>2. CASE live /\ caller = t /\ sup \notin {"serving", "performing"}
    BY <1>1, <2>2 DEF MountedStray
  <2>3. CASE ~(live /\ caller = t)
    <3>1. live' = live
      BY <1>1, <2>3 DEF SupervisorInv
    <3>2. pc'[caller] = "dead" <=> pc[caller] = "dead"
      BY <1>1, <1>3, <1>5 DEF SupervisorInv
    <3> QED
      BY <1>1, <3>1, <3>2 DEF MountedStray
  <2> QED
    BY <2>1, <2>2, <2>3
<1> QED
  BY <1>1, <1>4, <1>6, <1>7
  DEF Mounted!Interrupt, Mounted!Answers, Mounted!NoAnswer, NoReply

LEMMA ExitMaps ==
  ASSUME IInv, NEW t \in Tracees, Exit(t) PROVE Mounted!Die(t)
<1> USE DEF IInv, Withdraw
<1>1. /\ pc[t] # "dead" /\ pc'[t] = "dead" /\ result'[t] = NoReply
      /\ live' = (live /\ caller # t)
      /\ UNCHANGED <<tree, call, sup, caller, served, reply>>
  BY DEF Exit, TraceeInv
<1>2. ~Decided(t)'
  BY <1>1 DEF Decided
<1>3. \A u \in Tracees \ {t} :
        /\ pc'[u] = pc[u] /\ result'[u] = result[u] /\ (Decided(u)' <=> Decided(u))
        /\ Decided(u) => reply' = reply
  <2>1. \A u \in Tracees \ {t} : pc'[u] = pc[u] /\ result'[u] = result[u]
    BY DEF Exit, TraceeInv
  <2>2. \A u \in Tracees \ {t} : live' /\ caller = u <=> live /\ caller = u
    BY <1>1 DEF SupervisorInv
  <2>3. \A u \in Tracees \ {t} : Decided(u)' <=> Decided(u)
    BY <1>1, <2>1, <2>2 DEF Decided
  <2> QED
    BY <1>1, <2>1, <2>3
<1>4. MountedStage[t] # "gone"
  <2>1. pc[t] \in {"running", "waiting", "continued", "done"}
    BY <1>1 DEF TraceeInv
  <2> QED
    BY <2>1, MappedState, StageValues
<1>5. /\ MountedStage' = [MountedStage EXCEPT ![t] = "gone"]
      /\ MountedAnswer' = [MountedAnswer EXCEPT ![t] = NoReply]
  BY <1>1, <1>2, <1>3, OneTracee, StageValues
<1>6. \/ MountedStray' \in {MountedStray, {}}
      \/ MountedStage[t] = "asked" /\ MountedStray = {} /\ MountedStray' = {call[t]}
  <2>1. CASE caller = t
    <3>1. CASE live /\ sup = "performing"
      <4>1. pc[t] = "waiting" /\ ~Decided(t) /\ served = call[t]
        BY <2>1, <3>1 DEF Decided, SupervisorInv
      <4> QED
        BY <1>1, <2>1, <3>1, <4>1, MappedState, StageValues DEF MountedStray
    <3>2. CASE ~(live /\ sup = "performing")
      BY <1>1, <2>1, <3>2 DEF MountedStray, SupervisorInv
    <3> QED
      BY <3>1, <3>2
  <2>2. CASE caller # t
    <3>1. live' = live /\ pc'[caller] = pc[caller]
      BY <1>1, <1>3, <2>2 DEF SupervisorInv
    <3> QED
      BY <1>1, <3>1 DEF MountedStray
  <2> QED
    BY <2>1, <2>2
<1> QED
  BY <1>1, <1>4, <1>5, <1>6 DEF Mounted!Die, Mounted!Answers, Mounted!NoAnswer, NoReply

LEMMA ReceiveMaps == ASSUME IInv, Receive PROVE Stutters
<1>1. \A u \in Tracees : ~Decided(u) /\ ~Decided(u)'
  BY DEF Receive, Decided
<1>2. pc' = pc /\ result' = result
  BY DEF Receive
<1>3. MountedStage' = MountedStage /\ MountedAnswer' = MountedAnswer
  BY <1>1, <1>2, MappedState, StageValues, NoTracee
<1> QED
  BY <1>3 DEF Receive, MountedStray, Stutters

(* The call of a notification that is still there is applied.              *)
LEMMA ServeApplies ==
  ASSUME IInv, Serving("serving") \/ Serving("performing"), live, reply' # Continue,
         sup' \in {"blocked", "injecting", "answering"},
         tree' = Effect(tree, served).tree, reply' = Reply(Effect(tree, served))
  PROVE  Mounted!Apply(caller)
<1> USE DEF IInv, traceeVars
<1>1. /\ sup \in {"serving", "performing"} /\ caller \in Tracees /\ pc[caller] = "waiting"
      /\ served = call[caller]
      /\ UNCHANGED <<pc, call, result, caller, live, served>>
  BY DEF Serving, SupervisorInv
<1>2. ~Decided(caller) /\ Decided(caller)'
  BY <1>1 DEF Decided
<1>3. \A u \in Tracees \ {caller} : ~Decided(u) /\ ~Decided(u)'
  BY <1>1 DEF Decided
<1>4. /\ MountedStage' = [MountedStage EXCEPT
            ![caller] = StageOf(pc'[caller], IF Decided(caller)' THEN "applied" ELSE "asked")]
      /\ MountedAnswer' = [MountedAnswer EXCEPT ![caller] =
                             IF Decided(caller)' THEN reply' ELSE result'[caller]]
  BY <1>1, <1>3, OneTracee
<1>5. /\ MountedStage[caller] = "asked"
      /\ MountedStage' = [MountedStage EXCEPT ![caller] = "applied"]
      /\ MountedAnswer' = [MountedAnswer EXCEPT ![caller] = reply']
  <2>1. MountedStage[caller] = "asked"
    BY <1>1, <1>2, MappedState, StageValues
  <2>2. MountedStage' = [MountedStage EXCEPT ![caller] = "applied"]
    <3>1. StageOf(pc'[caller], "applied") = "applied"
      BY <1>1, StageValues
    <3> QED
      BY <1>2, <1>4, <3>1
  <2>3. MountedAnswer' = [MountedAnswer EXCEPT ![caller] = reply']
    BY <1>2, <1>4
  <2> QED
    BY <2>1, <2>2, <2>3
<1>6. MountedStray = {} /\ MountedStray' = {}
  BY <1>1 DEF MountedStray
<1> QED
  BY <1>1, <1>5, <1>6 DEF Mounted!Apply, Mounted!Stage, Mounted!Answers, Mounted!Reply, Reply

(* The call of one that is gone takes its effect for nobody.               *)
LEMMA ServeStrays ==
  ASSUME IInv, ~live,
         Serving("performing") \/ (Serving("serving") /\ pc[caller] # "dead"),
         sup' \in {"blocked", "injecting", "answering"},
         tree' \in {tree, Effect(tree, served).tree}
  PROVE  Mounted!Stray
<1> USE DEF IInv, traceeVars
<1>1. /\ sup = "performing" \/ (sup = "serving" /\ pc[caller] # "dead")
      /\ UNCHANGED <<pc, call, result, caller, live, served>>
  BY DEF Serving
<1>2. \A u \in Tracees : ~Decided(u) /\ ~Decided(u)'
  BY <1>1 DEF Decided
<1>3. MountedStage' = MountedStage /\ MountedAnswer' = MountedAnswer
  BY <1>1, <1>2, MappedState, StageValues, NoTracee
<1>4. MountedStray = {served} /\ MountedStray' = {}
  BY <1>1 DEF MountedStray
<1> QED
  BY <1>1, <1>3, <1>4 DEF Mounted!Stray

LEMMA ServeMaps ==
  ASSUME IInv, Serve PROVE Mounted!Apply(caller) \/ Mounted!Stray \/ Stutters
<1> USE DEF IInv
<1>1. /\ sup \in {"serving", "performing"} /\ served \in Calls /\ live \in BOOLEAN
      /\ UNCHANGED <<pc, call, result, caller, live, served>>
  BY DEF Serve, ServeGone, ServeElsewhere, ReadPath, ServeOnSource, Serving, traceeVars,
         SupervisorInv
<1>2. CASE ServeGone /\ sup = "performing"
  <2>1. ~live
    BY <1>2 DEF ServeGone, SupervisorInv
  <2> QED
    BY <1>2, <2>1, ServeStrays DEF ServeGone, Serving, Decide
<1>3. CASE ServeGone /\ sup = "serving"
  <2>1. \A u \in Tracees : ~Decided(u) /\ ~Decided(u)'
    BY <1>1, <1>3 DEF ServeGone, Serving, Decided
  <2>2. MountedStage' = MountedStage /\ MountedAnswer' = MountedAnswer
    BY <1>1, <2>1, MappedState, StageValues, NoTracee
  <2> QED
    BY <1>1, <1>3, <2>2 DEF ServeGone, Serving, Decide, MountedStray, Stutters
<1>4. CASE ServeElsewhere
  <2>1. /\ Serving("serving") /\ pc[caller] # "dead" /\ sup' = "answering" /\ reply' = Error(Route(served))
        /\ tree' = tree
    BY <1>4 DEF ServeElsewhere, Decide
  <2>2. CASE ~live
    BY <1>1, <2>1, <2>2, ServeStrays
  <2>3. CASE live /\ Route(served) # "continue"
    <3>1. Effect(tree, served) = Fails(tree, Route(served))
      BY <1>1, <1>4, <2>3, CallTypes, EffectIsServed DEF ServeElsewhere
    <3>2. Effect(tree, served).tree = tree /\ Reply(Effect(tree, served)) = Error(Route(served))
      BY <3>1 DEF Fails, Outcome, Reply, Error
    <3>3. reply' # Continue
      BY <2>1, <2>3, ErrorsDiffer DEF Continue
    <3> QED
      BY <1>1, <2>1, <2>3, <3>2, <3>3, ServeApplies
  <2>4. CASE live /\ Route(served) = "continue"
    <3>1. \A u \in Tracees : ~Decided(u) /\ ~Decided(u)'
      BY <1>1, <2>1, <2>4 DEF Decided, Continue, Error
    <3>2. MountedStage' = MountedStage /\ MountedAnswer' = MountedAnswer
      BY <1>1, <3>1, MappedState, StageValues, NoTracee
    <3> QED
      BY <1>1, <2>1, <2>4, <3>2 DEF MountedStray, Stutters
  <2> QED
    BY <1>1, <2>2, <2>3, <2>4
<1>5. CASE ReadPath
  <2>1. \A u \in Tracees : ~Decided(u) /\ ~Decided(u)'
    BY <1>5 DEF ReadPath, Serving, Decided
  <2>2. MountedStage' = MountedStage /\ MountedAnswer' = MountedAnswer
    BY <1>1, <2>1, MappedState, StageValues, NoTracee
  <2> QED
    BY <1>1, <1>5, <2>2 DEF ReadPath, Serving, MountedStray, Stutters
<1>6. CASE ServeOnSource
  <2>1. OnSource(served) = Effect(tree, served)
    <3>1. Route(served) = "perform"
      BY <1>6 DEF ServeOnSource, Serving, SupervisorInv
    <3> QED
      BY <1>1, <3>1, CallTypes, EffectIsServed DEF OnSource
  <2>2. /\ Serving("performing") /\ tree' = Effect(tree, served).tree
        /\ reply' = Reply(Effect(tree, served))
        /\ sup' \in {"blocked", "injecting", "answering"}
    BY <1>6, <2>1 DEF ServeOnSource, AfterCall
  <2>3. reply' # Continue
    BY <1>1, <1>6, PerformedIsNoContinue DEF ServeOnSource, OnSource
  <2>4. CASE live
    BY <1>1, <2>2, <2>3, <2>4, ServeApplies
  <2>5. CASE ~live
    BY <1>1, <2>2, <2>5, ServeStrays
  <2> QED
    BY <2>4, <2>5
<1> QED
  BY <1>1, <1>2, <1>3, <1>4, <1>5, <1>6 DEF Serve

LEMMA AddFdMaps ==
  ASSUME IInv, AddFd PROVE Mounted!OutOfFds(caller) \/ Stutters
<1> USE DEF IInv
<1>1. /\ sup = "injecting" /\ UNCHANGED <<tree, call, queue, caller, served>>
      /\ sup' \in {"poll", "answering"}
      /\ caller \in Tracees /\ reply.status = "ok" /\ reply # Continue
      /\ MountedStray' = MountedStray
  BY DEF AddFd, Decide, SupervisorInv, Continue, Error, MountedStray
<1>2. \A u \in Tracees \ {caller} : ~Decided(u) /\ ~Decided(u)'
  BY <1>1 DEF Decided
<1>3. \A u \in Tracees \ {caller} : pc'[u] = pc[u] /\ result'[u] = result[u]
  BY DEF AddFd, Wakes, TraceeInv
<1>4. CASE ~live
  <2>1. pc' = pc /\ result' = result /\ live' = live
    BY <1>4 DEF AddFd
  <2>2. \A u \in Tracees : ~Decided(u) /\ ~Decided(u)'
    BY <1>4, <2>1 DEF Decided
  <2>3. MountedStage' = MountedStage /\ MountedAnswer' = MountedAnswer
    BY <2>1, <2>2, MappedState, StageValues, NoTracee
  <2> QED
    BY <1>1, <2>3 DEF Stutters
<1>5. CASE live
  <2>1. pc[caller] = "waiting" /\ served = call[caller] /\ served.op = "open"
    BY <1>1, <1>5 DEF SupervisorInv
  <2>2. Decided(caller)
    BY <1>1, <1>5, <2>1 DEF Decided
  <2>3. MountedStage[caller] = "applied" /\ MountedAnswer[caller] = reply
    BY <1>1, <2>1, <2>2, MappedState, StageValues
  <2>4. CASE /\ Wakes(caller, "done", reply) /\ sup' = "poll"
             /\ live' = FALSE /\ UNCHANGED reply
    <3>1. pc'[caller] = "done" /\ result'[caller] = reply /\ ~Decided(caller)'
      BY <1>1, <2>4 DEF Wakes, Decided, TraceeInv
    <3>2. MountedStage'[caller] = "applied" /\ MountedAnswer'[caller] = reply
      BY <1>1, <3>1, MappedState, StageValues
    <3>3. \A u \in Tracees \ {caller} :
            MountedStage'[u] = MountedStage[u] /\ MountedAnswer'[u] = MountedAnswer[u]
      BY <1>1, <1>2, <1>3, MappedState, StageValues
    <3>4. MountedStage' = MountedStage /\ MountedAnswer' = MountedAnswer
      BY <2>3, <3>2, <3>3, NoTracee
    <3> QED
      BY <1>1, <2>4, <3>4 DEF Stutters
  <2>5. CASE Decide(Error("EMFILE")) /\ UNCHANGED <<pc, result, live>>
    <3>1. sup' = "answering" /\ reply' = Error("EMFILE") /\ reply' # Continue
      BY <2>5, ErrorsDiffer DEF Decide, Continue
    <3>2. Decided(caller)'
      BY <1>1, <1>5, <2>1, <2>5, <3>1 DEF Decided
    <3>3. /\ MountedStage' = [MountedStage EXCEPT ![caller] = "applied"]
          /\ MountedAnswer' = [MountedAnswer EXCEPT ![caller] = Error("EMFILE")]
      BY <1>1, <1>2, <1>3, <2>1, <2>5, <3>1, <3>2, OneTracee, StageValues
    <3>4. MountedStage' = MountedStage
      BY <2>3, <3>3, MappedState
    <3> QED
      BY <1>1, <2>1, <2>3, <3>1, <3>3, <3>4
      DEF Mounted!OutOfFds, Mounted!Answers
  <2> QED
    BY <1>5, <2>4, <2>5 DEF AddFd
<1> QED
  BY <1>4, <1>5

LEMMA AnswerMaps == ASSUME IInv, Answer PROVE Stutters
<1> USE DEF IInv
<1>1. /\ sup = "answering" /\ sup' = "poll" /\ UNCHANGED <<tree, call, caller, served, reply>>
      /\ caller \in Tracees /\ \A u \in Tracees : ~Decided(u)'
  BY DEF Answer, SupervisorInv, Decided
<1>2. MountedStray' = MountedStray
  BY <1>1 DEF MountedStray
<1>3. CASE ~live
  <2>1. pc' = pc /\ result' = result /\ \A u \in Tracees : ~Decided(u)
    BY <1>3 DEF Answer, Decided
  <2>2. MountedStage' = MountedStage /\ MountedAnswer' = MountedAnswer
    BY <1>1, <2>1, MappedState, StageValues, NoTracee
  <2> QED
    BY <1>1, <1>2, <2>2 DEF Stutters
<1>4. CASE live
  <2>1. pc[caller] = "waiting" /\ result[caller] = NoReply
    BY <1>4 DEF SupervisorInv, TraceeInv
  <2>2. \A u \in Tracees \ {caller} :
          ~Decided(u) /\ pc'[u] = pc[u] /\ result'[u] = result[u]
    BY DEF Answer, Wakes, Decided, TraceeInv
  <2>3. \A u \in Tracees \ {caller} :
          MountedStage'[u] = MountedStage[u] /\ MountedAnswer'[u] = MountedAnswer[u]
    BY <1>1, <2>2, MappedState, StageValues
  <2>4. /\ MountedStage'[caller] = MountedStage[caller]
        /\ MountedAnswer'[caller] = MountedAnswer[caller]
    <3>1. CASE reply = Continue
      <4>1. pc'[caller] = "continued" /\ result'[caller] = NoReply /\ ~Decided(caller)
        BY <1>1, <1>4, <3>1 DEF Answer, Wakes, TraceeInv, Decided
      <4> QED
        BY <1>1, <2>1, <4>1, MappedState, StageValues
    <3>2. CASE reply # Continue
      <4>1. pc'[caller] = "done" /\ result'[caller] = reply /\ Decided(caller)
        BY <1>1, <1>4, <2>1, <3>2 DEF Answer, Wakes, TraceeInv, Decided
      <4> QED
        BY <1>1, <2>1, <4>1, MappedState, StageValues
    <3> QED
      BY <3>1, <3>2
  <2>5. MountedStage' = MountedStage /\ MountedAnswer' = MountedAnswer
    BY <2>3, <2>4, NoTracee
  <2> QED
    BY <1>1, <1>2, <2>5 DEF Stutters
<1> QED
  BY <1>3, <1>4

LEMMA OthersMap == ASSUME IInv, Stop \/ PeerOpens PROVE Stutters
<1>1. \A u \in Tracees : (Decided(u)' <=> Decided(u))
  BY DEF Stop, PeerOpens, Decided, traceeVars
<1>2. MountedStage' = MountedStage /\ MountedAnswer' = MountedAnswer
  BY <1>1, MappedState DEF Stop, PeerOpens, traceeVars
<1> QED
  BY <1>2 DEF Stop, PeerOpens, MountedStray, Stutters, traceeVars

LEMMA SupervisorEndsMaps == ASSUME IInv, SupervisorEnds PROVE Mounted!Over
<1> USE DEF IInv
<1> DEFINE refused == {t \in Tracees : pc[t] = "waiting"}
<1>1. sup = "poll" /\ sup' = "ended" /\ pc[Command] = "dead" /\ UNCHANGED <<tree, call>>
  BY TraceesAssumption DEF SupervisorEnds, SupervisorInv
<1>2. \A t \in Tracees : ~Decided(t) /\ ~Decided(t)'
  BY <1>1 DEF Decided
<1>3. \A t \in refused :
        /\ MountedStage[t] = "asked" /\ pc'[t] = "done" /\ result'[t] = Error("ENOSYS")
  BY <1>2, MappedState, StageValues DEF SupervisorEnds
<1>4. \A t \in Tracees \ refused : pc'[t] = pc[t] /\ result'[t] = result[t]
  BY DEF SupervisorEnds
<1>5. MountedStage' = [t \in Tracees |-> IF t \in refused THEN "applied" ELSE MountedStage[t]]
  <2>1. \A t \in Tracees : MountedStage'[t] = StageOf(pc'[t], "asked")
    BY <1>2, MappedState
  <2>2. \A t \in refused : MountedStage'[t] = "applied"
    BY <1>3, <2>1, StageValues
  <2>3. \A t \in Tracees \ refused : MountedStage'[t] = MountedStage[t]
    BY <1>2, <1>4, <2>1, MappedState
  <2> QED
    BY <2>2, <2>3, MappedState
<1>6. MountedAnswer' =
        [t \in Tracees |-> IF t \in refused THEN Error("ENOSYS") ELSE MountedAnswer[t]]
  BY <1>2, <1>3, <1>4, MappedState
<1>7. MountedStage[Command] = "gone"
  BY <1>1, TraceesAssumption, MappedState, StageValues
<1>8. MountedStray = {} /\ MountedStray' = {}
  BY <1>1 DEF MountedStray
<1>9. refused \in SUBSET {t \in Tracees : MountedStage[t] = "asked"}
  BY <1>3
<1> HIDE DEF refused
<1> QED
  BY <1>1, <1>5, <1>6, <1>7, <1>8, <1>9 DEF Mounted!Over

LEMMA StepMaps == IInv /\ [Next]_vars => [Mounted!Next]_Mounted!vars
<1> SUFFICES ASSUME IInv, [Next]_vars PROVE Mounted!Next \/ Stutters
  BY StuttersMap
<1>1. CASE UNCHANGED vars
  BY <1>1 DEF vars, traceeVars, supVars, Stutters, MountedStage, MountedAnswer,
              MountedStray, Decided
<1>2. CASE Supervisor
  <2>1. caller \in Tracees
    BY DEF IInv, SupervisorInv
  <2> QED
    BY <1>2, <2>1, ReceiveMaps, ServeMaps, AddFdMaps, AnswerMaps, SupervisorEndsMaps
    DEF Supervisor, Mounted!Next
<1>3. CASE Stop \/ PeerOpens
  BY <1>3, OthersMap
<1>4. CASE \E t \in Tracees : Tracee(t)
  BY <1>4, SubmitMaps, KernelPerformsMaps, ReturnMaps, InterruptMaps, ExitMaps
  DEF Tracee, Mounted!Next
<1>5. CASE Finished
  BY <1>1, <1>5 DEF Finished
<1> QED
  BY <1>1, <1>2, <1>3, <1>4, <1>5 DEF Next

-------------------------------------------------------------------------------
(***************************************************************************)
(* What the command can rely on                                            *)
(***************************************************************************)

(* For any view, calls, trees and tracees, every path call is one atomic   *)
(* step on the mounted object: the supervisor of linux/mod.rs and the      *)
(* handlers of dispatch.rs do to the host's tree what real mounts would.   *)
THEOREM DispatchIsAtomic == Spec => ImplementsMountedCalls
<1>1. Spec => Mounted!Spec
  BY InitMaps, StepMaps, Inductive, PTL DEF Spec, Mounted!Spec
<1> QED
  BY <1>1 DEF ImplementsMountedCalls

-------------------------------------------------------------------------------
(***************************************************************************)
(* What the host's calls do to a tree                                      *)
(***************************************************************************)

IsTree(host) == DOMAIN host \subseteq Path /\ \A p \in DOMAIN host : host[p] \in Nodes

(* An outcome that is a tree again, and an inode.                          *)
IsOutcome(outcome) == IsTree(outcome.tree) /\ outcome.seen \in Nodes

(* The two trees agree about the path.                                     *)
Agree(host, after, path) ==
  /\ path \in DOMAIN host <=> path \in DOMAIN after
  /\ path \in DOMAIN host => after[path] = host[path]

(* The kinds of inodes.                                                    *)
LEMMA NodeTypes ==
  /\ Dir \in Nodes /\ Fifo \in Nodes /\ Nothing \in Nodes
  /\ File(0) \in Nodes
  /\ \A to \in Targets : Link(to) \in Nodes
<1>1. NoTarget \in Targets
  BY EmptySeq DEF NoTarget, Targets, Path
<1> QED
  BY <1>1 DEF Dir, Fifo, Nothing, File, Link, Node, Nodes, Kinds

(* The path of a link is where its target leads, and a path is its own end *)
(* when it is no link.                                                     *)
LEMMA FollowedType ==
  ASSUME NEW host, IsTree(host), NEW path \in Path
  PROVE  /\ Followed(host, path) \in Path
         /\ Followed(host, path) # path => path \in DOMAIN host
<1>1. CASE ~IsA(host, path, "link")
  BY <1>1 DEF Followed
<1>2. CASE IsA(host, path, "link")
  <2> DEFINE to == host[path].target
  <2>1. path \in DOMAIN host /\ to \in Targets
    BY <1>2 DEF IsA, Present, IsTree, Nodes
  <2>2. to.path \in Path
    BY <2>1 DEF Targets
  <2>3. Front(path) \in Path
    <3>1. Len(path) \in Nat /\ \A i \in 1 .. Len(path) - 1 : path[i] \in Names
      BY DEF Path
    <3> QED
      BY <3>1 DEF Front, Path
  <2>4. Front(path) \o to.path \in Path
    BY <2>2, <2>3, ConcatProperties DEF Path
  <2> QED
    BY <1>2, <2>1, <2>2, <2>4 DEF Followed
<1> QED
  BY <1>1, <1>2

LEMMA PutKeeps ==
  ASSUME NEW host, IsTree(host), NEW path \in Path, NEW node \in Nodes
  PROVE  /\ IsTree(Put(host, path, node))
         /\ \A other : other # path => Agree(host, Put(host, path, node), other)
BY DEF IsTree, Put, Agree

LEMMA WithoutKeeps ==
  ASSUME NEW host, IsTree(host), NEW path
  PROVE  /\ IsTree(Without(host, path).tree) /\ Without(host, path).seen = Nothing
         /\ \A other : other # path => Agree(host, Without(host, path).tree, other)
<1>1. /\ Without(host, path).tree = [p \in DOMAIN host \ {path} |-> host[p]]
      /\ Without(host, path).seen = Nothing
  BY DEF Without, Outcome
<1> QED
  BY <1>1 DEF IsTree, Agree

(* rename(2): what is neither at nor below one of the two paths stays.     *)
LEMMA MovedKeeps ==
  ASSUME NEW host, IsTree(host), NEW old \in Path, NEW new \in Path
  PROVE  /\ old \in DOMAIN host => IsTree(Moved(host, old, new))
         /\ old \in DOMAIN host => \A other : other # old /\ other # new
              /\ ~IsStrictPrefix(old, other) /\ ~IsStrictPrefix(new, other)
                => Agree(host, Moved(host, old, new), other)
<1> SUFFICES ASSUME old \in DOMAIN host
             PROVE  /\ IsTree(Moved(host, old, new))
                    /\ \A other : other # old /\ other # new
                         /\ ~IsStrictPrefix(old, other) /\ ~IsStrictPrefix(new, other)
                           => Agree(host, Moved(host, old, new), other)
  OBVIOUS
<1> DEFINE moving == {old} \cup Below(host, old)
           At(p)  == new \o SubSeq(p, Len(old) + 1, Len(p))
           kept   == DOMAIN host \ (moving \cup {new})
           places == {At(p) : p \in moving}
           after  == Moved(host, old, new)
<1>1. after = [q \in kept \cup places |->
                 IF q \in kept THEN host[q] ELSE host[CHOOSE p \in moving : At(p) = q]]
  BY DEF Moved
<1>2. moving \subseteq DOMAIN host /\ moving \subseteq Path
  BY DEF Below, IsTree
<1>3. ASSUME NEW p \in moving
      PROVE  /\ At(p) \in Path /\ IsPrefix(new, At(p))
  <2> DEFINE rest == SubSeq(p, Len(old) + 1, Len(p))
  <2>1. Len(p) \in Nat /\ Len(old) \in Nat /\ \A i \in 1 .. Len(p) : p[i] \in Names
    BY <1>2 DEF Path
  <2>2. rest \in Path
    BY <2>1 DEF Path
  <2> HIDE DEF rest
  <2>3. new \o rest \in Path /\ IsPrefix(new, new \o rest)
    BY <2>2, PrefixOfConcat
  <2> QED
    BY <2>3 DEF rest
<1>4. \A p \in moving : p = old \/ IsStrictPrefix(old, p)
  BY DEF Below
<1>5. \A q \in places : q = new \/ IsStrictPrefix(new, q)
  BY <1>3 DEF IsStrictPrefix
<1>6. \A q \in places : (CHOOSE p \in moving : At(p) = q) \in moving
  OBVIOUS
<1>7. kept \subseteq DOMAIN host /\ kept \subseteq Path /\ places \subseteq Path
  BY <1>3 DEF IsTree
<1>8. DOMAIN after = kept \cup places /\ \A q \in kept : after[q] = host[q]
  BY <1>1
<1>9. \A q \in places : after[q] \in Nodes
  <2>1. ASSUME NEW q \in places PROVE after[q] \in Nodes
    <3>1. CASE q \in kept
      BY <1>7, <1>8, <3>1 DEF IsTree
    <3>2. CASE q \notin kept
      <4>1. after[q] = host[CHOOSE p \in moving : At(p) = q]
        BY <1>1, <2>1, <3>2
      <4> QED
        BY <1>2, <1>6, <2>1, <4>1 DEF IsTree
    <3> QED
      BY <3>1, <3>2
  <2> QED
    BY <2>1
<1> HIDE DEF after, kept, places, moving
<1>10. IsTree(after)
  BY <1>7, <1>8, <1>9 DEF IsTree
<1>11. ASSUME NEW other, other # old, other # new,
              ~IsStrictPrefix(old, other), ~IsStrictPrefix(new, other)
       PROVE  Agree(host, after, other)
  <2>1. other \notin moving /\ other \notin places
    BY <1>4, <1>5, <1>11
  <2>2. other \in kept <=> other \in DOMAIN host
    BY <1>11, <2>1 DEF kept
  <2> QED
    BY <1>8, <2>1, <2>2 DEF Agree
<1> QED
  BY <1>10, <1>11 DEF after

(* What a call finds, and an error, leave the tree.                        *)
LEMMA FailsAndSees ==
  ASSUME NEW host, IsTree(host)
  PROVE  /\ \A status : IsOutcome(Fails(host, status)) /\ Fails(host, status).tree = host
         /\ \A path \in DOMAIN host : IsOutcome(Sees(host, path)) /\ Sees(host, path).tree = host
         /\ \A path : IsOutcome(Look(host, path)) /\ Look(host, path).tree = host
         /\ \A path : IsOutcome(Readlink(host, path)) /\ Readlink(host, path).tree = host
<1>1. \A status : IsOutcome(Fails(host, status)) /\ Fails(host, status).tree = host
  BY NodeTypes DEF Fails, Outcome, IsOutcome
<1>2. \A path \in DOMAIN host : IsOutcome(Sees(host, path)) /\ Sees(host, path).tree = host
  BY DEF Sees, Outcome, IsOutcome, IsTree
<1>3. \A path : IsOutcome(Look(host, path)) /\ Look(host, path).tree = host
  BY <1>1, <1>2 DEF Look, Present
<1> QED
  BY <1>1, <1>2, <1>3 DEF Readlink

LEMMA WithKeeps ==
  ASSUME NEW host, IsTree(host), NEW path \in Path, NEW node \in Nodes
  PROVE  /\ IsOutcome(With(host, path, node))
         /\ \A other : other # path => Agree(host, With(host, path, node).tree, other)
BY PutKeeps, NodeTypes DEF With, Outcome, IsOutcome

LEMMA SelfAgrees == ASSUME NEW host PROVE \A other : Agree(host, host, other)
BY DEF Agree

(* The calls that change the inode at one path.                            *)
LEMMA OnePathKeeps ==
  ASSUME NEW host, IsTree(host), NEW path \in Path, NEW outcome,
         \/ \E node \in Nodes : outcome = Make(host, path, node)
         \/ outcome = Unlink(host, path) \/ outcome = Rmdir(host, path)
         \/ outcome = Truncate(host, path) \/ outcome = Change(host, path)
  PROVE  /\ IsOutcome(outcome)
         /\ \A other : other # path => Agree(host, outcome.tree, other)
<1> DEFINE Good(o) == IsOutcome(o) /\ \A other : other # path => Agree(host, o.tree, other)
<1>1. \A status : Good(Fails(host, status))
  BY FailsAndSees, SelfAgrees
<1>2. \A node \in Nodes : Good(With(host, path, node))
  BY WithKeeps
<1>3. Good(Without(host, path))
  BY WithoutKeeps, NodeTypes DEF IsOutcome
<1>4. path \in DOMAIN host => [host[path] EXCEPT !.value = 1] \in Nodes
  BY DEF IsTree, Nodes
<1> HIDE DEF Good
<1>5. \A node \in Nodes : Good(Make(host, path, node))
  BY <1>1, <1>2 DEF Make
<1>6. Good(Unlink(host, path)) /\ Good(Rmdir(host, path))
  BY <1>1, <1>3 DEF Unlink, Rmdir
<1>7. Good(Truncate(host, path))
  BY <1>1, <1>2, NodeTypes DEF Truncate
<1>8. Good(Change(host, path))
  BY <1>1, <1>2, <1>4 DEF Change, Present
<1>9. Good(outcome)
  BY <1>5, <1>6, <1>7, <1>8
<1> QED
  BY <1>9 DEF Good

LEMMA OpenKeeps ==
  ASSUME NEW host, IsTree(host), NEW path \in Path, NEW flags
  PROVE  /\ IsOutcome(Open(host, path, flags))
         /\ \A other : other # path /\ other # Followed(host, path)
              => Agree(host, Open(host, path, flags).tree, other)
<1> DEFINE end == IF flags \cap {"excl", "nofollow"} = {} THEN Followed(host, path) ELSE path
           made == Outcome(Put(host, end, File(0)), "ok", File(0))
           Good(o) == /\ IsOutcome(o)
                      /\ \A other : other # path /\ other # Followed(host, path)
                           => Agree(host, o.tree, other)
<1>1. end \in Path
  BY FollowedType
<1>2. end = path \/ end = Followed(host, path)
  OBVIOUS
<1>3. Open(host, path, flags) =
        IF Present(host, path) /\ "excl" \in flags THEN Fails(host, "EEXIST")
        ELSE IF IsA(host, end, "link") THEN Fails(host, "ELOOP")
        ELSE IF IsA(host, end, "dir") /\ "create" \in flags THEN Fails(host, "EISDIR")
        ELSE IF Present(host, end) THEN Sees(host, end)
        ELSE IF "create" \in flags /\ InDir(host, end) THEN made
        ELSE Fails(host, LookupError(host, end))
  BY DEF Open
<1> HIDE DEF end
<1>4. \A status : Good(Fails(host, status))
  BY FailsAndSees, SelfAgrees
<1>5. Present(host, end) => Good(Sees(host, end))
  BY FailsAndSees, SelfAgrees DEF Present
<1>6. Good(made)
  <2>1. made.tree = Put(host, end, File(0)) /\ made.seen = File(0)
    BY DEF Outcome
  <2>2. IsTree(Put(host, end, File(0))) /\ \A other : other # end => Agree(host, Put(host, end, File(0)), other)
    BY <1>1, PutKeeps, NodeTypes
  <2> QED
    BY <1>2, <2>1, <2>2, NodeTypes DEF IsOutcome
<1> HIDE DEF Good, made
<1>7. Good(Open(host, path, flags))
  BY <1>3, <1>4, <1>5, <1>6
<1> QED
  BY <1>7 DEF Good

LEMMA RenameKeeps ==
  ASSUME NEW host, IsTree(host), NEW old \in Path, NEW new \in Path
  PROVE  /\ IsOutcome(Rename(host, old, new))
         /\ \A other : other # old /\ other # new
              /\ ~IsStrictPrefix(old, other) /\ ~IsStrictPrefix(new, other)
                => Agree(host, Rename(host, old, new).tree, other)
<1> DEFINE Away(other) == /\ other # old /\ other # new
                          /\ ~IsStrictPrefix(old, other) /\ ~IsStrictPrefix(new, other)
           Good(o) == IsOutcome(o) /\ \A other : Away(other) => Agree(host, o.tree, other)
<1> HIDE DEF Away
<1>1. \A status : Good(Fails(host, status))
  BY FailsAndSees, SelfAgrees
<1>2. Good(Outcome(host, "ok", Nothing))
  BY SelfAgrees, NodeTypes DEF Outcome, IsOutcome
<1>3. old \in DOMAIN host => Good(Outcome(Moved(host, old, new), "ok", Nothing))
  <2>1. SUFFICES ASSUME old \in DOMAIN host PROVE Good(Outcome(Moved(host, old, new), "ok", Nothing))
    OBVIOUS
  <2>2. /\ Outcome(Moved(host, old, new), "ok", Nothing).tree = Moved(host, old, new)
        /\ Outcome(Moved(host, old, new), "ok", Nothing).seen = Nothing
    BY DEF Outcome
  <2>3. IsTree(Moved(host, old, new)) /\ \A other : Away(other) => Agree(host, Moved(host, old, new), other)
    BY <2>1, MovedKeeps DEF Away
  <2> QED
    BY <2>2, <2>3, NodeTypes DEF IsOutcome
<1> HIDE DEF Good
<1>4. Good(Rename(host, old, new))
  BY <1>1, <1>2, <1>3 DEF Rename, Present
<1> QED
  BY <1>4 DEF Good, Away

(* A call leaves everything but the inode at its path, or at the end of    *)
(* the link there; a rename also what is below its two paths.              *)
LEMMA PerformKeeps ==
  ASSUME NEW host, IsTree(host), NEW c \in Call, NEW path \in Path, NEW to \in Path
  PROVE  /\ IsOutcome(Perform(host, c, path, to))
         /\ \A other :
              /\ other # path /\ other # Followed(host, path)
              /\ c.op = "rename" => /\ other # to
                                    /\ ~IsStrictPrefix(path, other)
                                    /\ ~IsStrictPrefix(to, other)
              => Agree(host, Perform(host, c, path, to).tree, other)
<1> DEFINE end == IF "nofollow" \in c.flags THEN path ELSE Followed(host, path)
           Good(o) == /\ IsOutcome(o)
                      /\ \A other : other # path /\ other # Followed(host, path)
                           => Agree(host, o.tree, other)
<1>1. end \in Path /\ (end = path \/ end = Followed(host, path))
  BY FollowedType
<1>2. c.op \in Ops /\ c.target \in Targets
  BY DEF Call
<1>3. /\ c.op = "stat"     => Perform(host, c, path, to) = Look(host, end)
      /\ c.op = "readlink" => Perform(host, c, path, to) = Readlink(host, path)
      /\ c.op = "open"     => Perform(host, c, path, to) = Open(host, path, c.flags)
      /\ c.op = "mkdir"    => Perform(host, c, path, to) = Make(host, path, Dir)
      /\ c.op = "unlink"   => Perform(host, c, path, to) = Unlink(host, path)
      /\ c.op = "rmdir"    => Perform(host, c, path, to) = Rmdir(host, path)
      /\ c.op = "rename"   => Perform(host, c, path, to) = Rename(host, path, to)
      /\ c.op = "symlink"  => Perform(host, c, path, to) = Make(host, path, Link(c.target))
      /\ c.op = "truncate" => Perform(host, c, path, to) = Truncate(host, end)
      /\ c.op = "change"   => Perform(host, c, path, to) = Change(host, end)
  BY DEF Perform
<1> HIDE DEF end
<1>4. Good(Look(host, end)) /\ Good(Readlink(host, path))
  BY FailsAndSees, SelfAgrees
<1>5. Good(Open(host, path, c.flags))
  BY OpenKeeps
<1>6. /\ Good(Make(host, path, Dir)) /\ Good(Make(host, path, Link(c.target)))
      /\ Good(Unlink(host, path)) /\ Good(Rmdir(host, path))
  BY <1>2, OnePathKeeps, NodeTypes
<1>7. Good(Truncate(host, end)) /\ Good(Change(host, end))
  BY <1>1, OnePathKeeps
<1>8. CASE c.op = "rename"
  BY <1>3, <1>8, RenameKeeps
<1>9. CASE c.op # "rename"
  <2> HIDE DEF Good
  <2>1. Good(Perform(host, c, path, to))
    BY <1>2, <1>3, <1>4, <1>5, <1>6, <1>7, <1>9 DEF Ops
  <2> QED
    BY <1>9, <2>1 DEF Good
<1> QED
  BY <1>8, <1>9

-------------------------------------------------------------------------------
(***************************************************************************)
(* Types                                                                   *)
(***************************************************************************)

(* What IInv leaves open of TypeOK.                                        *)
TypeInv ==
  /\ IsTree(tree)
  /\ result \in [Tracees -> Replies] /\ reply \in Replies
  /\ served \in Calls \cup {NoCall}
  /\ performed \in [Tracees -> Nat] /\ interrupted \subseteq Tracees
  /\ calls \in 0 .. MaxCalls /\ interrupts \in 0 .. MaxInterrupts

LEMMA ErrorType ==
  /\ \A status \in Statuses : Error(status) \in Replies
  /\ NoReply \in Replies /\ Continue \in Replies
<1>1. \A status \in Statuses : Error(status) \in Replies
  BY NodeTypes DEF Error, Replies
<1> QED
  BY <1>1 DEF NoReply, Continue, Statuses

(* The host call of a handler, and of the kernel, answers a reply.         *)
LEMMA CallKeepsTree ==
  ASSUME TypeInv, NEW c \in Calls, NEW path \in Path, NEW to \in Path
  PROVE  /\ IsTree(Perform(tree, c, path, to).tree)
         /\ Reply(Perform(tree, c, path, to)) \in Replies
<1>1. c \in Call
  BY CallTypes
<1>2. IsOutcome(Perform(tree, c, path, to))
  BY <1>1, PerformKeeps DEF TypeInv
<1>3. Perform(tree, c, path, to).status \in Statuses
  BY <1>1, PerformStatus DEF PerformStatuses, Statuses
<1> QED
  BY <1>2, <1>3 DEF IsOutcome, Reply, Replies

(* The paths of a call, and the host paths the handlers make of them.      *)
LEMMA CallPaths ==
  ASSUME NEW c \in Calls
  PROVE  /\ c \in Call /\ c.path \in Path /\ c.to \in Path
         /\ ResolveProjected(View, c.path) \in Path /\ ResolveProjected(View, c.to) \in Path
<1>1. c \in Call
  BY CallTypes
<1>2. c.path \in Path /\ c.to \in Path
  BY <1>1 DEF Call
<1> QED
  BY <1>1, <1>2, ViewAssumption, ResolveType

LEMMA TraceeKeepsTypes ==
  ASSUME IInv, TypeInv, NEW t \in Tracees, Tracee(t) PROVE TypeInv'
<1> USE DEF TypeInv
<1>1. ASSUME NEW c \in Calls, Submit(t, c) PROVE TypeInv'
  <2>1. Error("ENOSYS") \in Replies
    BY ErrorType DEF Statuses
  <2>2. calls' \in 0 .. MaxCalls
    BY <1>1, BoundsAssumption DEF Submit
  <2>3. result' \in [Tracees -> Replies]
    BY <1>1, <2>1 DEF Submit
  <2> QED
    BY <1>1, <2>2, <2>3 DEF Submit, supVars
<1>2. CASE KernelPerforms(t)
  <2> DEFINE outcome == Perform(tree, call[t], call[t].path, call[t].to)
  <2>1. call[t] \in Calls
    BY <1>2 DEF KernelPerforms, IInv, TraceeInv
  <2>2. IsTree(outcome.tree) /\ Reply(outcome) \in Replies
    BY <2>1, CallPaths, CallKeepsTree
  <2>3. /\ tree' = outcome.tree /\ result' = [result EXCEPT ![t] = Reply(outcome)]
        /\ performed' = [performed EXCEPT ![t] = IF outcome.status = "ok" THEN @ + 1 ELSE @]
        /\ UNCHANGED <<served, reply, interrupted, calls, interrupts>>
    BY <1>2 DEF KernelPerforms, supVars
  <2> HIDE DEF outcome
  <2>4. performed' \in [Tracees -> Nat]
    BY <2>3
  <2> QED
    BY <2>2, <2>3, <2>4
<1>3. CASE Return(t)
  BY <1>3, ErrorType DEF Return, supVars, history
<1>4. CASE Interrupt(t)
  <2>1. Error("EINTR") \in Replies
    BY ErrorType DEF Statuses
  <2>2. interrupts' \in 0 .. MaxInterrupts
    BY <1>4, BoundsAssumption DEF Interrupt
  <2> QED
    BY <1>4, <2>1, <2>2 DEF Interrupt
<1>5. CASE Exit(t)
  BY <1>5, ErrorType DEF Exit, history
<1> QED
  BY <1>1, <1>2, <1>3, <1>4, <1>5 DEF Tracee

LEMMA SupervisorKeepsTypes ==
  ASSUME IInv, TypeInv, Supervisor \/ Stop \/ PeerOpens PROVE TypeInv'
<1> USE DEF TypeInv
<1>1. CASE Receive
  <2>1. served' \in Calls \cup {NoCall}
    BY <1>1, TailFacts DEF Receive, IInv, QueueInv, TraceeInv
  <2> QED
    BY <1>1, <2>1 DEF Receive, history
<1>2. CASE ServeGone \/ ServeElsewhere
  <2>1. served \in Calls
    BY <1>2 DEF ServeGone, ServeElsewhere, Serving, IInv, SupervisorInv
  <2>2. Route(served) # "perform" => Route(served) \in Statuses
    BY <2>1, CallTypes DEF Statuses
  <2>3. Error("ENOENT") \in Replies /\ (Route(served) # "perform" => Error(Route(served)) \in Replies)
    BY <2>2, ErrorType DEF Statuses
  <2>4. reply' \in Replies
    BY <1>2, <2>3 DEF ServeGone, ServeElsewhere, Decide
  <2> QED
    BY <1>2, <2>4 DEF ServeGone, ServeElsewhere, Serving, traceeVars
<1>3. CASE ServeOnSource
  <2> DEFINE outcome == OnSource(served)
  <2>1. served \in Calls
    BY <1>3 DEF ServeOnSource, Serving, IInv, SupervisorInv
  <2>2. IsTree(outcome.tree) /\ Reply(outcome) \in Replies
    BY <2>1, CallPaths, CallKeepsTree DEF OnSource
  <2>3. /\ tree' = outcome.tree /\ reply' = Reply(outcome) /\ caller \in Tracees
        /\ performed' = [performed EXCEPT
                           ![caller] = IF outcome.status = "ok" /\ live THEN @ + 1 ELSE @]
        /\ UNCHANGED <<result, served, interrupted, calls, interrupts>>
    BY <1>3 DEF ServeOnSource, Serving, traceeVars, IInv, SupervisorInv
  <2> HIDE DEF outcome
  <2>4. performed' \in [Tracees -> Nat]
    BY <2>3
  <2> QED
    BY <2>2, <2>3, <2>4
<1>4. CASE AddFd \/ Answer
  <2>1. Error("EMFILE") \in Replies /\ Error("ENOENT") \in Replies /\ NoReply \in Replies
    BY ErrorType DEF Statuses
  <2>2. result' \in [Tracees -> Replies] /\ reply' \in Replies
    BY <1>4, <2>1 DEF AddFd, Answer, Wakes, Decide
  <2> QED
    BY <1>4, <2>2 DEF AddFd, Answer, history
<1>5. CASE SupervisorEnds
  <2>1. Error("ENOSYS") \in Replies
    BY ErrorType DEF Statuses
  <2> QED
    BY <1>5, <2>1 DEF SupervisorEnds, history
<1>6. CASE Stop \/ PeerOpens
  BY <1>6 DEF Stop, PeerOpens, traceeVars, history
<1>7. CASE ReadPath
  BY <1>7 DEF ReadPath, Serving, traceeVars
<1> QED
  BY <1>1, <1>2, <1>3, <1>4, <1>5, <1>6, <1>7 DEF Supervisor, Serve

LEMMA StepTypes == IInv /\ TypeInv /\ [Next]_vars => TypeInv'
<1> SUFFICES ASSUME IInv, TypeInv, [Next]_vars PROVE TypeInv'
  OBVIOUS
<1>1. CASE UNCHANGED vars
  BY <1>1 DEF vars, traceeVars, supVars, history, TypeInv
<1>2. CASE Supervisor \/ Stop \/ PeerOpens
  BY <1>2, SupervisorKeepsTypes
<1>3. CASE \E t \in Tracees : Tracee(t)
  BY <1>3, TraceeKeepsTypes
<1>4. CASE Finished
  BY <1>1, <1>4 DEF Finished
<1> QED
  BY <1>1, <1>2, <1>3, <1>4 DEF Next

LEMMA TypesHold == Spec => [](IInv /\ TypeInv)
<1>1. Init => TypeInv
  BY TreesAssumption, BoundsAssumption, ErrorType DEF Init, TypeInv, IsTree
<1> QED
  BY <1>1, InitInv, StepInv, StepTypes, PTL DEF Spec

(* Types of the dispatcher; and a tracee waits exactly when it has one     *)
(* notification, which the kernel still queues or the supervisor has.      *)
THEOREM TypeCorrectness == Spec => []TypeOK
<1>1. IInv /\ TypeInv => TypeOK
  <2>1. SUFFICES ASSUME IInv, TypeInv PROVE TypeOK
    OBVIOUS
  <2>2. ASSUME NEW t \in Tracees
        PROVE  pc[t] = "waiting" <=> (t \in Range(queue)) # (live /\ caller = t)
    <3>1. /\ t \in Range(queue) => pc[t] = "waiting" /\ ~(live /\ caller = t)
          /\ pc[t] = "waiting" => t \in Range(queue) \/ (live /\ caller = t)
          /\ live /\ caller = t => pc[t] = "waiting"
      BY <2>1 DEF IInv, QueueInv, SupervisorInv
    <3> QED
      BY <3>1
  <2> QED
    BY <2>1, <2>2 DEF IInv, TypeInv, TraceeInv, QueueInv, SupervisorInv, IsTree, TypeOK
<1> QED
  BY <1>1, TypesHold, PTL

-------------------------------------------------------------------------------
(***************************************************************************)
(* What a destination hides                                                *)
(***************************************************************************)

(* A host path that a call may change is no hidden one.                    *)
LEMMA SourcesAreNotHidden ==
  ASSUME NEW path \in Path, Projects(View, path), NEW other, Hidden(other)
  PROVE  /\ other # ResolveProjected(View, path)
         /\ other \in Path => ~IsStrictPrefix(ResolveProjected(View, path), other)
<1> DEFINE host == ResolveProjected(View, path)
<1>1. PICK i : Selects(View, i, path)
  BY DEF Projects
<1>2. i \in DOMAIN View /\ View \in Seq(Projections)
  BY <1>1, ViewAssumption DEF Selects
<1>3. host \in Path /\ IsPrefix(View[i].source, host)
  BY <1>1, <1>2, ResolvesBelow
<1>4. ~IsPrefix(View[i].source, other) /\ View[i].source \in Path
  BY <1>2, ViewFacts DEF Hidden
<1> HIDE DEF host
<1>5. other # host
  BY <1>3, <1>4
<1>6. other \in Path /\ IsStrictPrefix(host, other) => IsPrefix(View[i].source, other)
  BY <1>3, <1>4, PrefixTransitive DEF IsStrictPrefix
<1> QED
  BY <1>4, <1>5, <1>6 DEF host

(* What a link ends at is linked to.                                       *)
LEMMA EndsAreLinkedTo ==
  ASSUME TypeInv, NEW path \in Path, NEW other, other # path, other = Followed(tree, path)
  PROVE  LinkedTo(other)
<1>1. path \in DOMAIN tree
  BY FollowedType DEF TypeInv
<1> QED
  BY <1>1 DEF LinkedTo

LEMMA AgreementKeeps ==
  ASSUME NEW path \in DOMAIN tree \cup DOMAIN tree', Agree(tree, tree', path)
  PROVE  Present(tree, path) /\ Present(tree', path) /\ tree'[path] = tree[path]
BY DEF Agree, Present

LEMMA HandlersLeaveHidden ==
  ASSUME IInv, TypeInv, ServeOnSource, NEW other \in Path, Hidden(other), ~LinkedTo(other)
  PROVE  Agree(tree, tree', other)
<1> DEFINE path == ResolveProjected(View, served.path)
           to   == ResolveProjected(View, served.to)
<1>1. served \in Calls /\ Route(served) = "perform"
  BY DEF ServeOnSource, Serving, IInv, SupervisorInv
<1>2. tree' = Perform(tree, served, path, to).tree
  BY DEF ServeOnSource, OnSource
<1>3. served \in Call /\ served.path \in Path /\ served.to \in Path /\ path \in Path /\ to \in Path
  BY <1>1, CallPaths
<1>4. Projects(View, served.path) /\ (served.op = "rename" => Projects(View, served.to))
  BY <1>1 DEF Route, RouteRename, SameProjection
<1>5. /\ other # path /\ ~IsStrictPrefix(path, other)
      /\ served.op = "rename" => other # to /\ ~IsStrictPrefix(to, other)
  BY <1>3, <1>4, SourcesAreNotHidden
<1> HIDE DEF path, to
<1>6. other # Followed(tree, path)
  BY <1>3, <1>5, EndsAreLinkedTo
<1> QED
  BY <1>2, <1>3, <1>5, <1>6, PerformKeeps DEF TypeInv

LEMMA KernelLeavesHidden ==
  ASSUME IInv, TypeInv, NEW t \in Tracees, KernelPerforms(t), NEW other \in Path,
         Hidden(other), ~LinkedTo(other), ~RenamedAbove(other)
  PROVE  Agree(tree, tree', other)
<1> DEFINE c == call[t]
<1>1. /\ pc[t] = "continued" /\ pc'[t] = "done" /\ c \in Calls /\ Route(c) = "continue"
      /\ tree' = Perform(tree, c, c.path, c.to).tree
  BY DEF KernelPerforms, IInv, TraceeInv
<1>2. c.op = "rename" => ~IsStrictPrefix(c.path, other) /\ ~IsStrictPrefix(c.to, other)
  BY <1>1 DEF RenamedAbove
<1> HIDE DEF c
<1>3. c \in Call /\ c.path \in Path /\ c.to \in Path
  BY <1>1, CallPaths
<1>4. ~Projects(View, c.path) /\ (c.op = "rename" => ~Projects(View, c.to))
  BY <1>1 DEF Route, RouteRename
<1>5. other # c.path /\ (c.op = "rename" => other # c.to)
  BY <1>4 DEF Hidden
<1>6. other # Followed(tree, c.path)
  BY <1>3, <1>5, EndsAreLinkedTo
<1> QED
  BY <1>1, <1>2, <1>3, <1>5, <1>6, PerformKeeps DEF TypeInv

(* For any view, calls, trees and tracees: no handler and no continued     *)
(* call changes what a destination hides, except through a link or by      *)
(* renaming a directory above it.                                          *)
THEOREM HiddenTreesStay == Spec => HiddenTreeIsLeftAlone
<1> DEFINE Left(path) == /\ Present(tree, path) /\ Present(tree', path)
                         /\ tree'[path] = tree[path]
           Kept == \A path \in DOMAIN tree \cup DOMAIN tree' : Hidden(path) =>
                     LinkedTo(path) \/ RenamedAbove(path) \/ Left(path)
<1>1. IInv /\ TypeInv /\ TypeInv' /\ [Next]_vars => [Kept]_vars
  <2>1. SUFFICES ASSUME IInv, TypeInv, TypeInv', [Next]_vars,
                        NEW path \in DOMAIN tree \cup DOMAIN tree',
                        Hidden(path), ~LinkedTo(path), ~RenamedAbove(path)
                 PROVE  Left(path)
    OBVIOUS
  <2>2. path \in Path
    BY <2>1 DEF TypeInv, IsTree
  <2>3. Agree(tree, tree', path)
    <3>1. CASE UNCHANGED tree
      BY <3>1 DEF Agree
    <3>2. CASE ServeOnSource
      BY <2>1, <2>2, <3>2, HandlersLeaveHidden
    <3>3. CASE \E t \in Tracees : KernelPerforms(t)
      BY <2>1, <2>2, <3>3, KernelLeavesHidden
    <3>4. UNCHANGED tree \/ ServeOnSource \/ \E t \in Tracees : KernelPerforms(t)
      BY <2>1 DEF vars, treeVars, Next, Supervisor, Receive, Serve, ServeGone, ServeElsewhere,
         ReadPath, AddFd, Answer, SupervisorEnds, Stop, PeerOpens, Tracee, Submit, Return, Interrupt, Exit,
         Finished
    <3> QED
      BY <3>1, <3>2, <3>3, <3>4
  <2> QED
    BY <2>1, <2>3, AgreementKeeps
<1>2. [Kept]_vars => [\A path \in DOMAIN tree \cup DOMAIN tree' : Hidden(path) =>
         \/ LinkedTo(path) \/ RenamedAbove(path)
         \/ /\ Present(tree, path) /\ Present(tree', path)
            /\ tree'[path] = tree[path]]_vars
  OBVIOUS
<1> QED
  BY <1>1, <1>2, TypesHold, PTL DEF Spec, HiddenTreeIsLeftAlone
=============================================================================
