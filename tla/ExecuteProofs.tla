---------------------------- MODULE ExecuteProofs ----------------------------
(***************************************************************************)
(* What a mapped exec runs, for any tasks, descriptors, paths and files    *)
(* (modules Execute; src/src/linux/execute.rs and rewrite_path).           *)
(*                                                                         *)
(* The two properties are proved of tasks that share their descriptors     *)
(* whenever they share their memory, as threads do and processes that were *)
(* forked.  A vfork child does not, and there they fail.  Nor do they say  *)
(* anything of a path that is written while the alias of an interrupted    *)
(* exec is on its way.                                                     *)
(***************************************************************************)
EXTENDS Execute, WellFoundedInduction, TLAPS

(* The layouts of threads and of forked processes.                         *)
MemoryComesWithFiles ==
  \A l \in Layouts : \A t, u \in Tasks : l.space[t] = l.space[u] => l.files[t] = l.files[u]

(* So it is for the tasks of the memory of t, which is undisturbed and in  *)
(* which no alias of an older exec is put over a newer path.               *)
Steady(t) ==
  /\ SpaceOf(t) \notin disturbed /\ SpaceOf(t) \notin stale
  /\ \A u \in Tasks : SpaceOf(u) = SpaceOf(t) => layout.files[u] = layout.files[t]

-------------------------------------------------------------------------------
(***************************************************************************)
(* The inductive invariant                                                 *)
(***************************************************************************)

(* What the path of a program leads to by now counts as its file.          *)
BackingInv == \A s \in Tasks : Backing(named[s]) \in backing[s]

(* A memory that the program has left alone holds the path it wrote, or    *)
(* names a descriptor of a file behind that path in the table of whoever   *)
(* reads it.                                                               *)
HoldsItsPath(t) == memory[SpaceOf(t)] = Text(named[SpaceOf(t)])
HoldsItsFile(t) ==
  \E n \in Numbers : /\ memory[SpaceOf(t)] = Alias(n)
                     /\ TableOf(t)[n] \in backing[SpaceOf(t)] \ {Absent}

(* What the kernel is to read is not the path that a destination hides.    *)
SpaceInv ==
  \A t \in Tasks : Steady(t) =>
    /\ HoldsItsPath(t) \/ HoldsItsFile(t)
    /\ pc[t] = "continued" => memory[SpaceOf(t)] \notin {Text(p) : p \in Projected}

(* The supervisor works on the path that its caller's program wrote, with  *)
(* a file behind it, as long as the caller waits; the descriptor that it   *)
(* has injected stays right for the memory that it will write in any case. *)
JobInv ==
  /\ live => sup # "poll" /\ pc[Caller] = "waiting"
  /\ sup \in {"injecting", "rewriting"} => job.inode \in Readable
  /\ sup \in {"opening", "injecting"} /\ live /\ Steady(Caller) =>
       /\ job.path \in Projected /\ job.path = named[SpaceOf(Caller)]
       /\ sup = "injecting" => job.inode \in backing[SpaceOf(Caller)]
  /\ sup = "rewriting" /\ Steady(Caller) =>
       TableOf(Caller)[job.number] \in backing[SpaceOf(Caller)] \ {Absent}

(* A task runs a file behind the path, and misses it only if it was gone.  *)
OutcomeInv ==
  \A t \in Tasks : Steady(t) =>
    /\ outcome[t].status = "ok" => outcome[t].inode \in backing[SpaceOf(t)]
    /\ outcome[t].status = "ENOENT" => Absent \in backing[SpaceOf(t)]

IInv == TypeOK /\ BackingInv /\ SpaceInv /\ JobInv /\ OutcomeInv

-------------------------------------------------------------------------------
(***************************************************************************)
(* Who shares what                                                         *)
(***************************************************************************)

(* The layout is the one the tasks began with.                             *)
LEMMA LayoutFacts ==
  ASSUME TypeOK
  PROVE  /\ layout \in Layouts
         /\ \A t \in Tasks : SpaceOf(t) \in Tasks /\ layout.files[t] \in Tasks
         /\ \A t \in Tasks : TableOf(t) \in [Numbers -> Files]
         /\ MemoryComesWithFiles =>
              \A t, u \in Tasks : SpaceOf(t) = SpaceOf(u) => TableOf(t) = TableOf(u)
<1>1. layout \in Layouts /\ layout \in [space : [Tasks -> Tasks], files : [Tasks -> Tasks]]
  BY LayoutsAssumption DEF TypeOK
<1>2. \A t \in Tasks : SpaceOf(t) \in Tasks /\ layout.files[t] \in Tasks
  BY <1>1 DEF SpaceOf
<1>3. \A t \in Tasks : TableOf(t) \in [Numbers -> Files]
  BY <1>2 DEF TypeOK, TableOf
<1> QED
  BY <1>1, <1>2, <1>3 DEF MemoryComesWithFiles, SpaceOf, TableOf

(* An alias is not the text of a path, and each names one thing.           *)
LEMMA TextFacts ==
  /\ \A p, q : Text(p) = Text(q) => p = q
  /\ \A n, m : Alias(n) = Alias(m) => n = m
  /\ \A p : \A n \in Numbers : Text(p) # Alias(n)
  /\ \A p : Text(p).path = p
  /\ \A n : Alias(n).number = n
  /\ \A p \in Paths : Text(p) \in Texts
  /\ \A n \in Numbers : Alias(n) \in Texts
<1>1. \A p : Text(p).path = p /\ Text(p).number = 0
  BY DEF Text
<1>2. \A n : Alias(n).number = n
  BY DEF Alias
<1>3. \A n \in Numbers : n # 0
  BY NumbersAssumption
<1>4. \A p : \A n \in Numbers : Text(p) # Alias(n)
  BY <1>1, <1>2, <1>3
<1>5. \A p, q : Text(p) = Text(q) => p = q
  BY <1>1
<1>6. \A n, m : Alias(n) = Alias(m) => n = m
  BY <1>2
<1> QED
  BY <1>1, <1>2, <1>4, <1>5, <1>6 DEF Texts

(* The kernel and the supervisor give out free numbers.                    *)
LEMMA LowestIsFree ==
  ASSUME NEW t \in Tasks, FreeNumbers(t) # {}
  PROVE  Lowest(t) \in Numbers /\ TableOf(t)[Lowest(t)] = Absent
<1> DEFINE F == FreeNumbers(t)
<1>1. F # {} /\ F \subseteq Nat
  BY NumbersAssumption DEF FreeNumbers
<1>2. PICK n \in F : \A m \in F : ~(<<m, n>> \in OpToRel(<, Nat))
  BY <1>1, WFMin, NatLessThanWellFounded
<1>3. \A m \in F : ~(m < n)
  BY <1>1, <1>2 DEF OpToRel
<1>4. \A m \in F : n <= m
  BY <1>1, <1>3
<1>5. Lowest(t) \in F
  BY <1>4 DEF Lowest
<1> QED
  BY <1>5 DEF FreeNumbers

(* Nothing has been asked and every path buffer holds a path.              *)
LEMMA InitIInv == Init => IInv
<1> SUFFICES ASSUME Init PROVE IInv
  OBVIOUS
<1>1. /\ layout \in [space : [Tasks -> Tasks], files : [Tasks -> Tasks]]
      /\ \A t \in Tasks : SpaceOf(t) \in Tasks
  BY LayoutsAssumption DEF Init, SpaceOf
<1>2. NoJob \in [task : Tasks, path : Paths, inode : Files, number : Numbers \cup {0}]
  BY TasksAssumption DEF NoJob, Files
<1>3. \A s \in Tasks : named[s] \in Paths /\ Backing(named[s]) \in Files
  BY InodesAssumption DEF Init, Backing, Files
<1>4. TypeOK
  <2>1. Pending \in [status : Statuses, inode : Files]
    BY DEF Pending, Statuses, Files
  <2>2. source \in [Paths -> Files] /\ memory \in [Tasks -> Texts]
    BY <1>3, InodesAssumption, TextFacts DEF Init, Files
  <2>3. backing \in [Tasks -> SUBSET Files]
    BY <1>3 DEF Init
  <2>4. table \in [Tasks -> [Numbers -> Files]]
    BY DEF Init, Files
  <2>5. pc \in [Tasks -> {"running", "waiting", "continued", "replaced"}]
        /\ outcome \in [Tasks -> [status : Statuses, inode : Files]]
    BY <2>1 DEF Init
  <2>6. job \in [task : Tasks, path : Paths, inode : Files, number : Numbers \cup {0}]
    BY <1>2 DEF Init
  <2>7. layout \in Layouts /\ nofollow \subseteq Tasks /\ sup = "poll" /\ live \in BOOLEAN
        /\ named \in [Tasks -> Paths] /\ disturbed \subseteq Tasks /\ stale \subseteq Tasks
    BY DEF Init
  <2>8. calls \in 0 .. MaxCalls /\ events \in 0 .. MaxEvents
    BY BoundsAssumption DEF Init
  <2> QED
    BY <2>2, <2>3, <2>4, <2>5, <2>6, <2>7, <2>8 DEF TypeOK
<1>5. BackingInv /\ JobInv
  BY DEF Init, BackingInv, JobInv
<1>6. SpaceInv
  BY <1>1 DEF Init, SpaceInv, HoldsItsPath
<1>7. OutcomeInv
  BY DEF Init, OutcomeInv, Pending
<1> QED
  BY <1>4, <1>5, <1>6, <1>7 DEF IInv

-------------------------------------------------------------------------------
(***************************************************************************)
(* The steps of the tasks                                                  *)
(***************************************************************************)

(* A task that calls execve waits with no outcome.                         *)
LEMMA ExecKeeps ==
  ASSUME IInv, NEW t \in Tasks, NEW flags, Exec(t, flags) PROVE IInv'
<1>1. /\ pc[t] = "running" /\ pc' = [pc EXCEPT ![t] = "waiting"]
      /\ outcome' = [outcome EXCEPT ![t] = Pending] /\ nofollow' \subseteq Tasks
      /\ calls' \in 0 .. MaxCalls
      /\ UNCHANGED <<source, layout, memory, table, sup, job, live,
                     named, backing, disturbed, stale, events>>
  BY BoundsAssumption DEF Exec, supVars, IInv, TypeOK
<1>2. TypeOK'
  BY <1>1 DEF IInv, TypeOK, Pending, Statuses, Files
<1>3. BackingInv'
  BY <1>1 DEF IInv, BackingInv, Backing
<1>4. SpaceInv'
  BY <1>1 DEF IInv, TypeOK, SpaceInv, HoldsItsPath, HoldsItsFile, Steady, SpaceOf, TableOf
<1>5. JobInv'
  BY <1>1 DEF IInv, TypeOK, JobInv, Steady, SpaceOf, TableOf, Caller
<1>6. OutcomeInv'
  BY <1>1 DEF IInv, TypeOK, OutcomeInv, Steady, SpaceOf, Pending
<1> QED
  BY <1>2, <1>3, <1>4, <1>5, <1>6 DEF IInv

(* A write names another path, and disturbs the calls that read the        *)
(* buffer.                                                                 *)
LEMMA WritePathKeeps ==
  ASSUME IInv, NEW t \in Tasks, NEW path \in Paths, WritePath(t, path) PROVE IInv'
<1> DEFINE space == SpaceOf(t)
<1>1. /\ pc[t] = "running" /\ events' \in 0 .. MaxEvents /\ space \in Tasks
      /\ memory' = [memory EXCEPT ![space] = Text(path)]
      /\ named' = [named EXCEPT ![space] = path]
      /\ backing' = [backing EXCEPT ![space] = {Backing(path)}]
      /\ outcome' = [u \in Tasks |-> IF SpaceOf(u) = space THEN Pending ELSE outcome[u]]
      /\ disturbed' = IF InCall(space) = {} THEN disturbed \ {space} ELSE disturbed \cup {space}
      /\ stale' = IF sup = "rewriting" /\ SpaceOf(Caller) = space
                  THEN stale \cup {space} ELSE stale \ {space}
      /\ UNCHANGED <<source, layout, table, pc, nofollow, sup, job, live, calls>>
  BY BoundsAssumption, LayoutFacts DEF WritePath, Event, supVars, IInv, TypeOK
<1> HIDE DEF space
<1>2. Backing(path) \in Files
  BY InodesAssumption DEF Backing, IInv, TypeOK, Files
<1>3. TypeOK'
  BY <1>1, <1>2, TextFacts DEF IInv, TypeOK, Pending, Statuses, Files
<1>4. BackingInv'
  BY <1>1 DEF IInv, TypeOK, BackingInv, Backing
<1>5. \A u \in Tasks : SpaceOf(u) # space /\ Steady(u)' => Steady(u)
  BY <1>1 DEF Steady, SpaceOf
<1>6. \A u \in Tasks : SpaceOf(u) = space /\ Steady(u)' =>
        pc[u] \notin {"waiting", "continued"}
  BY <1>1 DEF Steady, SpaceOf, InCall
<1>7. SpaceInv'
  <2>1. ASSUME NEW u \in Tasks, Steady(u)', SpaceOf(u) = space
        PROVE  HoldsItsPath(u)' /\ pc'[u] # "continued"
    BY <1>1, <1>6, <2>1 DEF HoldsItsPath, SpaceOf, IInv, TypeOK
  <2>2. ASSUME NEW u \in Tasks, Steady(u)', SpaceOf(u) # space
        PROVE  /\ HoldsItsPath(u)' \/ HoldsItsFile(u)'
               /\ pc'[u] = "continued" =>
                    memory'[SpaceOf(u)'] \notin {Text(p) : p \in Projected}
    <3>1. Steady(u) /\ SpaceOf(u)' = SpaceOf(u) /\ SpaceOf(u) \in Tasks
      BY <1>1, <1>5, <2>2, LayoutFacts DEF SpaceOf, IInv
    <3>2. /\ memory'[SpaceOf(u)] = memory[SpaceOf(u)] /\ named'[SpaceOf(u)] = named[SpaceOf(u)]
          /\ backing'[SpaceOf(u)] = backing[SpaceOf(u)] /\ TableOf(u)' = TableOf(u)
      BY <1>1, <2>2, <3>1 DEF IInv, TypeOK, TableOf
    <3> QED
      BY <1>1, <3>1, <3>2 DEF IInv, SpaceInv, HoldsItsPath, HoldsItsFile
  <2> QED
    BY <2>1, <2>2 DEF SpaceInv
<1>8. JobInv'
  <2>1. Caller' = Caller /\ Caller \in Tasks
    BY <1>1 DEF Caller, IInv, TypeOK
  <2>2. CASE SpaceOf(Caller) = space
    <3>1. ~(sup = "rewriting" /\ Steady(Caller)') /\ ~(live /\ Steady(Caller)')
      BY <1>1, <1>6, <2>1, <2>2 DEF IInv, JobInv, Steady, SpaceOf
    <3> QED
      BY <1>1, <2>1, <3>1 DEF IInv, JobInv, Caller
  <2>3. CASE SpaceOf(Caller) # space
    <3>1. Steady(Caller)' => Steady(Caller)
      BY <1>5, <2>1, <2>3
    <3>2. /\ SpaceOf(Caller)' = SpaceOf(Caller) /\ SpaceOf(Caller) \in Tasks
          /\ TableOf(Caller)' = TableOf(Caller)
      BY <1>1, <2>1, LayoutFacts DEF SpaceOf, TableOf, IInv
    <3>3. /\ named'[SpaceOf(Caller)] = named[SpaceOf(Caller)]
          /\ backing'[SpaceOf(Caller)] = backing[SpaceOf(Caller)]
      BY <1>1, <2>3, <3>2 DEF IInv, TypeOK
    <3> QED
      BY <1>1, <2>1, <3>1, <3>2, <3>3 DEF IInv, JobInv
  <2> QED
    BY <2>2, <2>3
<1>9. OutcomeInv'
  <2>1. ASSUME NEW u \in Tasks, Steady(u)', outcome'[u].status \in {"ok", "ENOENT"}
        PROVE  /\ outcome'[u] = outcome[u] /\ Steady(u)
               /\ SpaceOf(u)' = SpaceOf(u) /\ backing'[SpaceOf(u)] = backing[SpaceOf(u)]
    <3>1. SpaceOf(u) # space /\ outcome'[u] = outcome[u]
      BY <1>1, <2>1 DEF Pending
    <3> QED
      BY <1>1, <1>5, <2>1, <3>1, LayoutFacts DEF SpaceOf, IInv, TypeOK
  <2> QED
    BY <2>1 DEF IInv, OutcomeInv
<1> QED
  BY <1>3, <1>4, <1>7, <1>8, <1>9 DEF IInv

(* A descriptor at a free number takes nothing from anybody.               *)
LEMMA PutsAtFreeNumber ==
  ASSUME IInv, NEW t \in Tasks, FreeNumbers(t) # {}, NEW inode \in Inodes,
         Puts(t, Lowest(t), inode), UNCHANGED <<layout, memory, named, backing, disturbed, stale>>
  PROVE  /\ table' \in [Tasks -> [Numbers -> Files]]
         /\ TableOf(t)'[Lowest(t)] = inode
         /\ \A u \in Tasks : \A n \in Numbers :
              TableOf(u)[n] # Absent => TableOf(u)'[n] = TableOf(u)[n]
         /\ \A u \in Tasks :
              /\ HoldsItsPath(u) => HoldsItsPath(u)'
              /\ HoldsItsFile(u) => HoldsItsFile(u)'
<1>1. Lowest(t) \in Numbers /\ TableOf(t)[Lowest(t)] = Absent /\ inode \in Files
  BY LowestIsFree DEF Files
<1>2. layout.files[t] \in Tasks
  BY LayoutFacts DEF IInv
<1>3. /\ table' \in [Tasks -> [Numbers -> Files]]
      /\ \A f \in Tasks : \A n \in Numbers :
           table'[f][n] = IF f = layout.files[t] /\ n = Lowest(t) THEN inode ELSE table[f][n]
  BY <1>1, <1>2 DEF Puts, IInv, TypeOK
<1>4. \A u \in Tasks : TableOf(u)' = table'[layout.files[u]] /\ layout.files[u] \in Tasks
  BY LayoutFacts DEF TableOf, IInv
<1>5. \A u \in Tasks : \A n \in Numbers :
        TableOf(u)[n] # Absent => TableOf(u)'[n] = TableOf(u)[n]
  BY <1>1, <1>3, <1>4 DEF TableOf
<1>6. \A u \in Tasks :
        /\ HoldsItsPath(u) => HoldsItsPath(u)'
        /\ HoldsItsFile(u) => HoldsItsFile(u)'
  BY <1>5 DEF HoldsItsPath, HoldsItsFile, SpaceOf
<1> QED
  BY <1>1, <1>2, <1>3, <1>4, <1>5, <1>6

(* An open takes the lowest free number of a shared table.                 *)
LEMMA OpenFileKeeps ==
  ASSUME IInv, NEW t \in Tasks, NEW inode \in Inodes, OpenFile(t, inode) PROVE IInv'
<1>1. /\ FreeNumbers(t) # {} /\ Puts(t, Lowest(t), inode) /\ events' \in 0 .. MaxEvents
      /\ UNCHANGED <<source, layout, memory, pc, nofollow, outcome, sup, job, live,
                     named, backing, disturbed, stale, calls>>
  BY BoundsAssumption DEF OpenFile, Event, supVars, IInv, TypeOK
<1>2. /\ table' \in [Tasks -> [Numbers -> Files]]
      /\ \A u \in Tasks : \A n \in Numbers :
           TableOf(u)[n] # Absent => TableOf(u)'[n] = TableOf(u)[n]
      /\ \A u \in Tasks :
           /\ HoldsItsPath(u) => HoldsItsPath(u)'
           /\ HoldsItsFile(u) => HoldsItsFile(u)'
  BY <1>1, PutsAtFreeNumber
<1>3. TypeOK'
  BY <1>1, <1>2 DEF IInv, TypeOK
<1>4. BackingInv'
  BY <1>1 DEF IInv, BackingInv, Backing
<1>5. SpaceInv'
  BY <1>1, <1>2 DEF IInv, SpaceInv, Steady, SpaceOf
<1>6. JobInv'
  <2>1. Caller' = Caller /\ Caller \in Tasks /\ (sup = "rewriting" => job.number \in Numbers)
    BY <1>1 DEF Caller, IInv, TypeOK
  <2> QED
    BY <1>1, <1>2, <2>1 DEF IInv, JobInv, Steady, SpaceOf
<1>7. OutcomeInv'
  BY <1>1 DEF IInv, OutcomeInv, Steady, SpaceOf
<1> QED
  BY <1>3, <1>4, <1>5, <1>6, <1>7 DEF IInv

(* A close disturbs every call whose descriptor it may have removed.       *)
LEMMA CloseFileKeeps ==
  ASSUME IInv, NEW t \in Tasks, NEW number \in Numbers, CloseFile(t, number) PROVE IInv'
<1> DEFINE sharers == {v \in Tasks : layout.files[v] = layout.files[t]}
<1>1. /\ Puts(t, number, Absent) /\ events' \in 0 .. MaxEvents
      /\ disturbed' = disturbed \cup {SpaceOf(u) : u \in sharers}
      /\ UNCHANGED <<source, layout, memory, pc, nofollow, outcome, sup, job, live,
                     named, backing, stale, calls>>
  BY BoundsAssumption DEF CloseFile, Event, supVars, IInv, TypeOK
<1>2. layout.files[t] \in Tasks /\ Absent \in Files
  BY LayoutFacts DEF IInv, Files
<1>3. /\ table' \in [Tasks -> [Numbers -> Files]]
      /\ \A f \in Tasks : f # layout.files[t] => table'[f] = table[f]
  BY <1>1, <1>2 DEF Puts, IInv, TypeOK
<1>4. \A u \in Tasks : Steady(u)' =>
        Steady(u) /\ SpaceOf(u)' = SpaceOf(u) /\ TableOf(u)' = TableOf(u)
  BY <1>1, <1>3, LayoutFacts DEF Steady, SpaceOf, TableOf, IInv
<1>5. TypeOK'
  BY <1>1, <1>3, LayoutFacts DEF IInv, TypeOK
<1>6. BackingInv'
  BY <1>1 DEF IInv, BackingInv, Backing
<1>7. SpaceInv'
  BY <1>1, <1>4 DEF IInv, SpaceInv, HoldsItsPath, HoldsItsFile
<1>8. JobInv'
  <2>1. Caller' = Caller /\ Caller \in Tasks
    BY <1>1 DEF Caller, IInv, TypeOK
  <2> QED
    BY <1>1, <1>4, <2>1 DEF IInv, JobInv
<1>9. OutcomeInv'
  BY <1>1, <1>4 DEF IInv, OutcomeInv
<1> QED
  BY <1>5, <1>6, <1>7, <1>8, <1>9 DEF IInv

(* What replaces a source counts as the file of those that named it.       *)
LEMMA ReplaceSourceKeeps ==
  ASSUME IInv, NEW path \in Projected, NEW inode \in Inodes, ReplaceSource(path, inode)
  PROVE  IInv'
<1>1. /\ path \in Paths /\ events' \in 0 .. MaxEvents
      /\ source' = [source EXCEPT ![path] = inode]
      /\ backing' = [s \in Tasks |-> IF named[s] = path THEN backing[s] \cup {inode}
                                     ELSE backing[s]]
      /\ UNCHANGED <<layout, memory, table, pc, nofollow, outcome, sup, job, live,
                     named, disturbed, stale, calls>>
  BY BoundsAssumption, PathsAssumption
  DEF ReplaceSource, Event, taskVars, supVars, IInv, TypeOK
<1>2. \A s \in Tasks : backing[s] \subseteq backing'[s]
  BY <1>1
<1>3. TypeOK'
  BY <1>1 DEF IInv, TypeOK, Files
<1>4. BackingInv'
  BY <1>1 DEF IInv, TypeOK, BackingInv, Backing
<1>5. \A u \in Tasks : /\ SpaceOf(u) \in Tasks /\ SpaceOf(u)' = SpaceOf(u)
                       /\ TableOf(u)' = TableOf(u) /\ Steady(u)' = Steady(u)
  BY <1>1, LayoutFacts DEF SpaceOf, TableOf, Steady, IInv
<1>6. SpaceInv'
  BY <1>1, <1>2, <1>5 DEF IInv, SpaceInv, HoldsItsPath, HoldsItsFile
<1>7. JobInv'
  <2>1. Caller' = Caller /\ Caller \in Tasks
    BY <1>1 DEF Caller, IInv, TypeOK
  <2> QED
    BY <1>1, <1>2, <1>5, <2>1 DEF IInv, JobInv
<1>8. OutcomeInv'
  BY <1>1, <1>2, <1>5 DEF IInv, OutcomeInv
<1> QED
  BY <1>3, <1>4, <1>6, <1>7, <1>8 DEF IInv

(* The kernel runs the file behind the path: through the descriptor that   *)
(* the memory names, or because no destination hides it.                   *)
LEMMA KernelExecsKeeps ==
  ASSUME IInv, NEW t \in Tasks, KernelExecs(t) PROVE IInv'
<1> DEFINE text  == memory[SpaceOf(t)]
           inode == IF text \in {Alias(n) : n \in Numbers} THEN TableOf(t)[text.number]
                    ELSE IF text.path \in Paths THEN Pod[text.path] ELSE Absent
<1>1. /\ pc[t] = "continued"
      /\ UNCHANGED <<source, layout, memory, table, nofollow, sup, job,
                     named, backing, disturbed, stale, calls, events>>
  BY DEF KernelExecs, history
<1>2. PICK status \in Statuses :
        /\ outcome' = [outcome EXCEPT ![t] = [status |-> status, inode |-> inode]]
        /\ status = "ENOENT" <=> inode = Absent
  <2>1. CASE inode \in Runnable /\ Comes(t, "ok", inode)
    BY <2>1, InodesAssumption DEF Comes, Statuses
  <2>2. CASE inode \notin Runnable /\ inode = Absent /\ Comes(t, "ENOENT", inode)
    BY <2>2 DEF Comes, Statuses
  <2>3. CASE inode \notin Runnable /\ inode # Absent /\ Comes(t, "ENOEXEC", inode)
    BY <2>3 DEF Comes, Statuses
  <2> QED
    BY <2>1, <2>2, <2>3 DEF KernelExecs
<1>3. /\ pc' \in [Tasks -> {"running", "waiting", "continued", "replaced"}]
      /\ \A u \in Tasks : pc'[u] \in {pc[u], "replaced"} \/ (u = t /\ pc'[u] = "running")
      /\ live' \in BOOLEAN /\ (live' => live /\ pc'[Caller] = pc[Caller])
  <2>1. pc \in [Tasks -> {"running", "waiting", "continued", "replaced"}] /\ live \in BOOLEAN
    BY DEF IInv, TypeOK
  <2>2. Caller \in Tasks /\ (live => Caller # t)
    BY <1>1 DEF IInv, TypeOK, JobInv, Caller
  <2>3. PICK Process \in SUBSET Tasks :
          \/ /\ pc' = [u \in Tasks |-> IF u \in Process THEN "replaced" ELSE pc[u]]
             /\ live' = (live /\ Caller \notin Process)
          \/ pc' = [pc EXCEPT ![t] = "running"] /\ live' = live
    <3> DEFINE P == {u \in Tasks : SpaceOf(u) = SpaceOf(t) /\ layout.files[u] = layout.files[t]}
    <3>1. P \in SUBSET Tasks
      OBVIOUS
    <3>2. CASE /\ pc' = [u \in Tasks |-> IF u \in P THEN "replaced" ELSE pc[u]]
               /\ live' = (live /\ Caller \notin P)
      BY <3>1, <3>2
    <3>3. CASE pc' = [pc EXCEPT ![t] = "running"] /\ live' = live
      BY <3>1, <3>3
    <3> QED
      BY <3>2, <3>3 DEF KernelExecs
  <2>4. CASE /\ pc' = [u \in Tasks |-> IF u \in Process THEN "replaced" ELSE pc[u]]
             /\ live' = (live /\ Caller \notin Process)
    BY <2>1, <2>2, <2>4
  <2>5. CASE pc' = [pc EXCEPT ![t] = "running"] /\ live' = live
    BY <2>1, <2>2, <2>5
  <2> QED
    BY <2>3, <2>4, <2>5
<1>4. inode \in Files
  <2>1. ASSUME text \in {Alias(n) : n \in Numbers} PROVE TableOf(t)[text.number] \in Files
    BY <2>1, TextFacts, LayoutFacts DEF IInv
  <2>2. ASSUME text.path \in Paths PROVE Pod[text.path] \in Files
    BY <2>2, InodesAssumption DEF Files
  <2> QED
    BY <2>1, <2>2 DEF Files
<1>5. Steady(t) => inode \in backing[SpaceOf(t)]
  <2> SUFFICES ASSUME Steady(t) PROVE inode \in backing[SpaceOf(t)]
    OBVIOUS
  <2>1. SpaceOf(t) \in Tasks /\ named[SpaceOf(t)] \in Paths
    BY LayoutFacts DEF IInv, TypeOK
  <2>2. CASE HoldsItsPath(t)
    <3>1. text = Text(named[SpaceOf(t)]) /\ named[SpaceOf(t)] \notin Projected
      BY <1>1, <2>2 DEF HoldsItsPath, IInv, SpaceInv
    <3>2. inode = Pod[named[SpaceOf(t)]]
      BY <2>1, <3>1, TextFacts
    <3> QED
      BY <2>1, <3>1, <3>2 DEF IInv, BackingInv, Backing
  <2>3. CASE HoldsItsFile(t)
    <3>1. PICK n \in Numbers : text = Alias(n) /\ TableOf(t)[n] \in backing[SpaceOf(t)]
      BY <2>3 DEF HoldsItsFile
    <3> QED
      BY <3>1, TextFacts
  <2> QED
    BY <2>2, <2>3 DEF IInv, SpaceInv
<1> HIDE DEF text, inode
<1>6. TypeOK'
  BY <1>1, <1>2, <1>3, <1>4 DEF IInv, TypeOK
<1>7. BackingInv'
  BY <1>1 DEF IInv, BackingInv, Backing
<1>8. SpaceInv'
  BY <1>1, <1>3 DEF IInv, SpaceInv, HoldsItsPath, HoldsItsFile, Steady, SpaceOf, TableOf
<1>9. JobInv'
  <2>1. Caller' = Caller /\ Caller \in Tasks
    BY <1>1 DEF Caller, IInv, TypeOK
  <2> QED
    BY <1>1, <1>3, <2>1 DEF IInv, JobInv, Steady, SpaceOf, TableOf
<1>10. OutcomeInv'
  <2>1. \A u \in Tasks : /\ SpaceOf(u)' = SpaceOf(u)
                         /\ Steady(u)' <=> Steady(u)
                         /\ backing'[SpaceOf(u)] = backing[SpaceOf(u)]
    BY <1>1 DEF SpaceOf, Steady
  <2>2. outcome'[t] = [status |-> status, inode |-> inode]
    BY <1>2 DEF IInv, TypeOK
  <2>3. \A u \in Tasks : u # t => outcome'[u] = outcome[u]
    BY <1>2 DEF IInv, TypeOK
  <2>4. ASSUME NEW u \in Tasks, Steady(u)
        PROVE  /\ outcome'[u].status = "ok" => outcome'[u].inode \in backing[SpaceOf(u)]
               /\ outcome'[u].status = "ENOENT" => Absent \in backing[SpaceOf(u)]
    <3>1. CASE u = t
      BY <1>2, <1>5, <2>2, <2>4, <3>1
    <3>2. CASE u # t
      BY <2>3, <2>4, <3>2 DEF IInv, OutcomeInv
    <3> QED
      BY <3>1, <3>2
  <2> QED
    BY <2>1, <2>4 DEF OutcomeInv
<1> QED
  BY <1>6, <1>7, <1>8, <1>9, <1>10 DEF IInv

(* The kernel takes the notification back.                                 *)
LEMMA InterruptKeeps ==
  ASSUME IInv, NEW t \in Tasks, Interrupt(t) PROVE IInv'
<1>1. /\ pc[t] = "waiting" /\ events' \in 0 .. MaxEvents /\ live' = (live /\ Caller # t)
      /\ UNCHANGED <<source, layout, memory, table, nofollow, sup, job,
                     named, backing, disturbed, stale, calls>>
  BY BoundsAssumption DEF Interrupt, Event, IInv, TypeOK
<1>2. /\ pc' \in [Tasks -> {"running", "waiting", "continued", "replaced"}]
      /\ \A u \in Tasks : pc'[u] = pc[u] \/ (u = t /\ pc'[u] = "running")
  BY DEF Interrupt, IInv, TypeOK
<1>3. /\ outcome' \in [Tasks -> [status : Statuses, inode : Files]]
      /\ \A u \in Tasks : outcome'[u] = outcome[u] \/ outcome'[u].status = "EINTR"
  <2>1. [status |-> "EINTR", inode |-> Absent] \in [status : Statuses, inode : Files]
    BY DEF Statuses, Files
  <2>2. outcome' \in {outcome, [outcome EXCEPT ![t] = [status |-> "EINTR", inode |-> Absent]]}
    BY DEF Interrupt, Comes
  <2>3. outcome \in [Tasks -> [status : Statuses, inode : Files]]
    BY DEF IInv, TypeOK
  <2> DEFINE R == [status : Statuses, inode : Files]
             e == [status |-> "EINTR", inode |-> Absent]
  <2>4. e \in R /\ e.status = "EINTR" /\ outcome \in [Tasks -> R]
        /\ outcome' \in {outcome, [outcome EXCEPT ![t] = e]}
    BY <2>1, <2>2, <2>3
  <2> HIDE DEF R, e
  <2>5. outcome' \in [Tasks -> R]
        /\ \A u \in Tasks : outcome'[u] = outcome[u] \/ outcome'[u].status = "EINTR"
    BY <2>4
  <2> QED
    BY <2>5 DEF R
<1>4. TypeOK'
  BY <1>1, <1>2, <1>3 DEF IInv, TypeOK
<1>5. BackingInv'
  BY <1>1 DEF IInv, BackingInv, Backing
<1>6. SpaceInv'
  BY <1>1, <1>2 DEF IInv, SpaceInv, HoldsItsPath, HoldsItsFile, Steady, SpaceOf, TableOf
<1>7. JobInv'
  <2>1. Caller' = Caller /\ Caller \in Tasks
    BY <1>1 DEF Caller, IInv, TypeOK
  <2> QED
    BY <1>1, <1>2, <2>1 DEF IInv, JobInv, Steady, SpaceOf, TableOf
<1>8. OutcomeInv'
  BY <1>1, <1>3 DEF IInv, OutcomeInv, Steady, SpaceOf
<1> QED
  BY <1>4, <1>5, <1>6, <1>7, <1>8 DEF IInv

-------------------------------------------------------------------------------
(***************************************************************************)
(* The steps of the supervisor                                             *)
(***************************************************************************)

(* An answer lets the caller run on.  It says that there is no file only   *)
(* if one was missing.                                                     *)
LEMMA RefusesKeeps ==
  ASSUME IInv, NEW t \in Tasks, NEW status \in Statuses \ {"ok"}, NEW there \in BOOLEAN,
         Refuses(t, there, status),
         status = "ENOENT" /\ Steady(t) /\ there => Absent \in backing[SpaceOf(t)],
         UNCHANGED <<source, layout, memory, table, nofollow, job, history>>
  PROVE  IInv'
<1>1. UNCHANGED <<source, layout, memory, table, nofollow, job, named, backing, disturbed, stale,
                  calls, events>>
  BY DEF history
<1>2. /\ sup' = "poll" /\ live' = FALSE
      /\ pc' \in [Tasks -> {"running", "waiting", "continued", "replaced"}]
      /\ \A u \in Tasks : pc'[u] = pc[u] \/ pc'[u] = "running"
  <2>1. sup' = "poll" /\ live' = FALSE /\ (pc' = [pc EXCEPT ![t] = "running"] \/ pc' = pc)
    BY DEF Refuses
  <2> QED
    BY <2>1 DEF IInv, TypeOK
<1>3. \/ UNCHANGED outcome
      \/ /\ there
         /\ outcome' = [outcome EXCEPT ![t] = [status |-> status, inode |-> Absent]]
  <2>1. CASE there
    BY <2>1 DEF Refuses, Comes
  <2>2. CASE ~there
    BY <2>2 DEF Refuses
  <2> QED
    BY <2>1, <2>2
<1>4. TypeOK'
  <2>1. [status |-> status, inode |-> Absent] \in [status : Statuses, inode : Files]
    BY DEF Files
  <2> DEFINE R == [status : Statuses, inode : Files]
  <2>2. outcome' \in [Tasks -> R]
    <3>1. outcome \in [Tasks -> R] /\ [status |-> status, inode |-> Absent] \in R
      BY <2>1 DEF IInv, TypeOK
    <3> HIDE DEF R
    <3> QED
      BY <1>3, <3>1
  <2> QED
    BY <1>1, <1>2, <2>2 DEF IInv, TypeOK
<1>5. BackingInv' /\ JobInv'
  BY <1>1, <1>2 DEF IInv, BackingInv, Backing, JobInv
<1>6. SpaceInv'
  BY <1>1, <1>2 DEF IInv, SpaceInv, HoldsItsPath, HoldsItsFile, Steady, SpaceOf, TableOf
<1>7. OutcomeInv'
  <2>1. \A u \in Tasks : /\ SpaceOf(u)' = SpaceOf(u)
                         /\ Steady(u)' <=> Steady(u)
                         /\ backing'[SpaceOf(u)] = backing[SpaceOf(u)]
    BY <1>1 DEF SpaceOf, Steady
  <2>2. ASSUME NEW u \in Tasks, Steady(u)
        PROVE  /\ outcome'[u].status = "ok" => outcome'[u].inode \in backing[SpaceOf(u)]
               /\ outcome'[u].status = "ENOENT" => Absent \in backing[SpaceOf(u)]
    <3>1. CASE outcome'[u] = outcome[u]
      BY <2>2, <3>1 DEF IInv, OutcomeInv
    <3>2. CASE u = t /\ there /\ outcome'[u] = [status |-> status, inode |-> Absent]
      BY <2>2, <3>2
    <3> QED
      BY <1>3, <3>1, <3>2 DEF IInv, TypeOK
  <2> QED
    BY <2>1, <2>2 DEF OutcomeInv
<1> QED
  BY <1>4, <1>5, <1>6, <1>7 DEF IInv

(* What is continued is not below a destination; what is worked on is the  *)
(* path that the program wrote.                                            *)
LEMMA ReceiveKeeps ==
  ASSUME IInv, NEW t \in Tasks, Receive(t) PROVE IInv'
<1> DEFINE text == memory[SpaceOf(t)]
<1>1. /\ sup = "poll" /\ pc[t] = "waiting"
      /\ UNCHANGED <<source, layout, memory, table, nofollow, named, backing, disturbed, stale,
                     calls, events>>
  BY DEF Receive, history
<1>2. BackingInv'
  BY <1>1 DEF IInv, BackingInv, Backing
<1>3. CASE text \notin {Text(p) : p \in Projected} /\ Continues(t, TRUE) /\ UNCHANGED job
  <2>1. /\ sup' = "poll" /\ live' = FALSE /\ pc' = [pc EXCEPT ![t] = "continued"]
        /\ UNCHANGED <<outcome, job>>
    BY <1>3 DEF Continues
  <2>2. TypeOK'
    BY <1>1, <2>1 DEF IInv, TypeOK
  <2>3. SpaceInv'
    BY <1>1, <1>3, <2>1
    DEF IInv, TypeOK, SpaceInv, HoldsItsPath, HoldsItsFile, Steady, SpaceOf, TableOf
  <2>4. JobInv' /\ OutcomeInv'
    BY <1>1, <2>1 DEF IInv, JobInv, OutcomeInv, Steady, SpaceOf
  <2> QED
    BY <1>2, <2>2, <2>3, <2>4 DEF IInv
<1>4. CASE Refuses(t, TRUE, "ENOTSUP") /\ UNCHANGED job
  BY <1>1, <1>4, RefusesKeeps DEF Statuses, history
<1>5. CASE /\ text \in {Text(p) : p \in Projected}
           /\ sup' = "opening" /\ live' = TRUE
           /\ job' = [NoJob EXCEPT !.task = t, !.path = text.path]
           /\ UNCHANGED <<pc, outcome>>
  <2>1. PICK p \in Projected : text = Text(p)
    BY <1>5
  <2>2. /\ sup' = "opening" /\ live' = TRUE /\ p \in Paths /\ UNCHANGED <<pc, outcome>>
        /\ job' = [task |-> t, path |-> p, inode |-> Absent, number |-> 0]
    BY <1>5, <2>1, TextFacts, PathsAssumption DEF NoJob
  <2>3. TypeOK'
    BY <1>1, <2>2 DEF IInv, TypeOK, Files
  <2>4. SpaceInv' /\ OutcomeInv'
    BY <1>1, <2>2 DEF IInv, SpaceInv, HoldsItsPath, HoldsItsFile, OutcomeInv,
                      Steady, SpaceOf, TableOf
  <2>5. Steady(t) => p = named[SpaceOf(t)]
    BY <2>1, TextFacts, PathsAssumption DEF IInv, SpaceInv, HoldsItsPath, HoldsItsFile
  <2>6. JobInv'
    BY <1>1, <2>2, <2>5 DEF JobInv, Caller, Steady, SpaceOf
  <2> QED
    BY <1>2, <2>3, <2>4, <2>6 DEF IInv
<1> QED
  BY <1>3, <1>4, <1>5 DEF Receive

(* The supervisor opens the file the path of its copy names, or answers    *)
(* the error.                                                              *)
LEMMA OpenExecutableKeeps ==
  ASSUME IInv, OpenExecutable PROVE IInv'
<1> DEFINE inode == source[job.path]
<1>1. /\ sup = "opening" /\ Caller \in Tasks /\ job.path \in Paths /\ inode \in Files
      /\ UNCHANGED <<source, layout, memory, table, nofollow, history>>
  BY DEF OpenExecutable, Caller, IInv, TypeOK
<1>2. live /\ Steady(Caller) => inode \in backing[SpaceOf(Caller)]
  <2>1. SpaceOf(Caller) \in Tasks
    BY <1>1, LayoutFacts DEF IInv
  <2>2. live /\ Steady(Caller) =>
          job.path \in Projected /\ job.path = named[SpaceOf(Caller)]
    BY <1>1 DEF IInv, JobInv
  <2> QED
    BY <2>1, <2>2 DEF IInv, BackingInv, Backing
<1> HIDE DEF inode
<1>3. CASE /\ inode \in Readable /\ Goes("injecting") /\ job' = [job EXCEPT !.inode = inode]
           /\ UNCHANGED <<pc, outcome>>
  <2>1. /\ sup' = "injecting"
        /\ UNCHANGED <<live, pc, outcome, named, backing, disturbed, stale, calls, events>>
        /\ job'.task = job.task /\ job'.path = job.path /\ job'.inode = inode
        /\ job' \in [task : Tasks, path : Paths, inode : Files, number : Numbers \cup {0}]
    BY <1>1, <1>3 DEF Goes, history, IInv, TypeOK
  <2>2. TypeOK'
    BY <1>1, <2>1 DEF IInv, TypeOK
  <2>3. BackingInv'
    BY <1>1, <2>1 DEF IInv, BackingInv, Backing
  <2>4. SpaceInv' /\ OutcomeInv'
    BY <1>1, <2>1 DEF IInv, SpaceInv, HoldsItsPath, HoldsItsFile, OutcomeInv,
                      Steady, SpaceOf, TableOf
  <2>5. JobInv'
    BY <1>1, <1>2, <1>3, <2>1 DEF IInv, JobInv, Caller, Steady, SpaceOf
  <2> QED
    BY <2>2, <2>3, <2>4, <2>5 DEF IInv
<1>4. CASE /\ UNCHANGED job /\ Refuses(Caller, live, IF inode = Absent THEN "ENOENT" ELSE "EACCES")
  <2>1. live \in BOOLEAN
    BY DEF IInv, TypeOK
  <2>2. CASE inode = Absent
    BY <1>1, <1>2, <1>4, <2>1, <2>2, RefusesKeeps DEF Statuses
  <2>3. CASE inode # Absent
    BY <1>1, <1>4, <2>1, <2>3, RefusesKeeps DEF Statuses
  <2> QED
    BY <2>2, <2>3
<1> QED
  BY <1>3, <1>4 DEF OpenExecutable, inode

(* The opened file enters the table of the calling task, at a free number. *)
LEMMA AddFdKeeps ==
  ASSUME IInv, AddFd PROVE IInv'
<1>1. /\ sup = "injecting" /\ Caller \in Tasks /\ job.inode \in Readable /\ job.inode \in Inodes
      /\ live \in BOOLEAN /\ UNCHANGED <<source, layout, memory, nofollow, history>>
  BY InodesAssumption DEF AddFd, Caller, IInv, TypeOK, JobInv
<1>2. CASE /\ live /\ FreeNumbers(Caller) # {} /\ Goes("rewriting")
           /\ Puts(Caller, Lowest(Caller), job.inode)
           /\ job' = [job EXCEPT !.number = Lowest(Caller)] /\ UNCHANGED <<pc, outcome>>
  <2>1. /\ table' \in [Tasks -> [Numbers -> Files]]
        /\ TableOf(Caller)'[Lowest(Caller)] = job.inode
        /\ \A u \in Tasks : /\ HoldsItsPath(u) => HoldsItsPath(u)'
                            /\ HoldsItsFile(u) => HoldsItsFile(u)'
    <3>1. Caller' = Caller
      BY <1>2 DEF Caller, IInv, TypeOK
    <3> QED
      BY <1>1, <1>2, <3>1, PutsAtFreeNumber DEF history, TableOf
  <2>2. Lowest(Caller) \in Numbers
    BY <1>1, <1>2, LowestIsFree
  <2>3. /\ sup' = "rewriting"
        /\ UNCHANGED <<live, pc, outcome, named, backing, disturbed, stale, calls, events>>
        /\ job'.task = job.task /\ job'.path = job.path /\ job'.inode = job.inode
        /\ job'.number = Lowest(Caller)
        /\ job' \in [task : Tasks, path : Paths, inode : Files, number : Numbers \cup {0}]
    BY <1>1, <1>2, <2>2 DEF Goes, history, IInv, TypeOK
  <2>4. TypeOK'
    BY <1>1, <2>1, <2>2, <2>3 DEF IInv, TypeOK
  <2>5. BackingInv' /\ OutcomeInv'
    BY <1>1, <2>3 DEF IInv, BackingInv, Backing, OutcomeInv, Steady, SpaceOf
  <2>6. SpaceInv'
    BY <1>1, <2>1, <2>3 DEF IInv, SpaceInv, Steady, SpaceOf
  <2>7. JobInv'
    <3>1. Caller' = Caller /\ job.inode # Absent
      BY <1>1, <2>3, InodesAssumption DEF Caller
    <3>2. Steady(Caller) => /\ job.path \in Projected /\ job.path = named[SpaceOf(Caller)]
                                 /\ job.inode \in backing[SpaceOf(Caller)]
      BY <1>1, <1>2 DEF IInv, JobInv
    <3> QED
      BY <1>1, <1>2, <2>1, <2>3, <3>1, <3>2 DEF IInv, JobInv, Steady, SpaceOf
  <2> QED
    BY <2>4, <2>5, <2>6, <2>7 DEF IInv
<1>3. CASE Refuses(Caller, live, "EMFILE") /\ UNCHANGED <<table, job>>
  BY <1>1, <1>3, RefusesKeeps DEF Statuses
<1> QED
  BY <1>2, <1>3 DEF AddFd

(* The alias that replaces the path is read in the caller's table, and in  *)
(* that of every task of its memory - the same one, if they are steady.     *)
LEMMA RewritePathKeeps ==
  ASSUME IInv, RewritePath PROVE IInv'
<1>1. /\ sup = "rewriting" /\ Caller \in Tasks /\ job.number \in Numbers
      /\ SpaceOf(Caller) \in Tasks /\ live \in BOOLEAN
      /\ UNCHANGED <<source, layout, table, nofollow, job, history>>
  BY LayoutFacts DEF RewritePath, Caller, IInv, TypeOK
<1>2. CASE /\ pc[Caller] # "replaced" /\ Continues(Caller, live)
           /\ memory' = [memory EXCEPT ![SpaceOf(Caller)] = Alias(job.number)]
  <2>1. /\ sup' = "poll" /\ live' = FALSE
        /\ pc' = IF live THEN [pc EXCEPT ![Caller] = "continued"] ELSE pc
        /\ UNCHANGED <<outcome, job, named, backing, disturbed, stale, calls, events>>
    BY <1>1, <1>2 DEF Continues, history
  <2>2. TypeOK'
    BY <1>1, <1>2, <2>1, TextFacts DEF IInv, TypeOK
  <2>3. BackingInv' /\ OutcomeInv' /\ JobInv'
    BY <1>1, <2>1 DEF IInv, BackingInv, Backing, OutcomeInv, Steady, SpaceOf, JobInv
  <2>4. \A u \in Tasks : /\ SpaceOf(u)' = SpaceOf(u) /\ SpaceOf(u) \in Tasks
                         /\ TableOf(u)' = TableOf(u)
                         /\ Steady(u)' <=> Steady(u)
                         /\ named'[SpaceOf(u)] = named[SpaceOf(u)]
                         /\ backing'[SpaceOf(u)] = backing[SpaceOf(u)]
    BY <1>1, <2>1, LayoutFacts DEF SpaceOf, TableOf, Steady, IInv
  <2>5. ASSUME NEW u \in Tasks, Steady(u), SpaceOf(u) = SpaceOf(Caller)
        PROVE  /\ HoldsItsFile(u)'
               /\ memory'[SpaceOf(u)'] \notin {Text(p) : p \in Projected}
    <3>1. TableOf(u) = TableOf(Caller) /\ Steady(Caller)
      BY <1>1, <2>5 DEF Steady, TableOf
    <3>2. TableOf(u)[job.number] \in backing[SpaceOf(u)] \ {Absent}
      BY <1>1, <1>2, <2>5, <3>1 DEF IInv, JobInv
    <3>3. memory'[SpaceOf(u)'] = Alias(job.number)
      BY <1>1, <1>2, <2>4, <2>5 DEF IInv, TypeOK
    <3> QED
      BY <1>1, <2>4, <3>2, <3>3, TextFacts DEF HoldsItsFile
  <2>6. ASSUME NEW u \in Tasks, Steady(u), SpaceOf(u) # SpaceOf(Caller)
        PROVE  /\ HoldsItsPath(u)' \/ HoldsItsFile(u)'
               /\ pc'[u] = "continued" =>
                    memory'[SpaceOf(u)'] \notin {Text(p) : p \in Projected}
    <3>1. memory'[SpaceOf(u)'] = memory[SpaceOf(u)] /\ pc'[u] = pc[u]
      BY <1>2, <2>1, <2>4, <2>6 DEF IInv, TypeOK
    <3> QED
      BY <2>4, <2>6, <3>1 DEF IInv, SpaceInv, HoldsItsPath, HoldsItsFile
  <2>7. SpaceInv'
    BY <2>4, <2>5, <2>6 DEF SpaceInv
  <2> QED
    BY <2>2, <2>3, <2>7 DEF IInv
<1>3. CASE Refuses(Caller, live, "ENAMETOOLONG") /\ UNCHANGED memory
  BY <1>1, <1>3, RefusesKeeps DEF Statuses
<1>4. CASE Refuses(Caller, live, "EFAULT") /\ UNCHANGED memory
  BY <1>1, <1>4, RefusesKeeps DEF Statuses
<1>5. CASE pc[Caller] = "replaced" /\ Continues(Caller, live) /\ UNCHANGED memory
  <2>1. /\ sup' = "poll" /\ live' = FALSE
        /\ UNCHANGED <<pc, outcome, named, backing, disturbed, stale, calls, events>>
    BY <1>1, <1>5 DEF Continues, history, IInv, JobInv
  <2>2. TypeOK' /\ BackingInv'
    BY <1>1, <1>5, <2>1 DEF IInv, TypeOK, BackingInv, Backing
  <2>3. SpaceInv' /\ JobInv' /\ OutcomeInv'
    BY <1>1, <1>5, <2>1 DEF IInv, SpaceInv, HoldsItsPath, HoldsItsFile, JobInv, OutcomeInv,
                            Steady, SpaceOf, TableOf
  <2> QED
    BY <2>2, <2>3 DEF IInv
<1> QED
  BY <1>2, <1>3, <1>4, <1>5 DEF RewritePath, Rewrites

-------------------------------------------------------------------------------
(* Every step keeps the invariant.                                         *)
LEMMA StepIInv == IInv /\ [Next]_vars => IInv'
<1> SUFFICES ASSUME IInv, [Next]_vars PROVE IInv'
  OBVIOUS
<1>1. CASE UNCHANGED vars
  BY <1>1 DEF vars, taskVars, supVars, history, IInv, TypeOK, BackingInv, Backing, SpaceInv,
              HoldsItsPath, HoldsItsFile, JobInv, Caller, OutcomeInv, Steady, SpaceOf, TableOf
<1>2. ASSUME NEW t \in Tasks, Task(t) PROVE IInv'
  BY <1>2, ExecKeeps, WritePathKeeps, OpenFileKeeps, CloseFileKeeps, KernelExecsKeeps,
     InterruptKeeps DEF Task
<1>3. CASE Supervisor
  BY <1>3, ReceiveKeeps, OpenExecutableKeeps, AddFdKeeps, RewritePathKeeps DEF Supervisor
<1>4. ASSUME NEW p \in Projected, NEW i \in Inodes, ReplaceSource(p, i) PROVE IInv'
  BY <1>4, ReplaceSourceKeeps
<1> QED
  BY <1>1, <1>2, <1>3, <1>4 DEF Next, Rest

(* Every state of a supervised program is of these kinds.                  *)
THEOREM Inductive == Spec => []IInv
<1>1. Init => IInv
  BY InitIInv
<1>2. IInv /\ [Next]_vars => IInv'
  BY StepIInv
<1> QED
  BY <1>1, <1>2, PTL DEF Spec

(* A supervisor that rewrites a path has a descriptor, and a file that it  *)
(* could open, for it.                                                     *)
THEOREM TypeCorrectness == Spec => []TypeOK
<1>1. IInv => TypeOK
  BY DEF IInv
<1> QED
  BY <1>1, Inductive, PTL

(* Steady tasks run the files behind their paths, whatever the others are. *)
THEOREM SteadyOutcomes == Spec => []OutcomeInv
<1>1. IInv => OutcomeInv
  BY DEF IInv
<1> QED
  BY <1>1, Inductive, PTL

(* When memory comes with files, a call that nobody disturbed and no alias *)
(* of an older one overtook is steady, and so runs its file.               *)
LEMMA AllAreSteady ==
  ASSUME MemoryComesWithFiles, IInv
  PROVE  ExecRunsWhatItNamed /\ ExecFindsItsFile
<1>1. \A t \in Tasks : Undisturbed(t) /\ SpaceOf(t) \notin stale => Steady(t)
  BY LayoutFacts DEF IInv, MemoryComesWithFiles, Undisturbed, Steady, SpaceOf
<1> QED
  BY <1>1 DEF IInv, OutcomeInv, ExecRunsWhatItNamed, ExecFindsItsFile

(* What an exec of a mapped path runs is the file behind the path that the *)
(* program wrote (rewrite_path, remote.rs; handle, execute.rs), whatever   *)
(* other threads, other processes and writers of the sources do meanwhile. *)
THEOREM RunsWhatItNamed ==
  ASSUME MemoryComesWithFiles PROVE Spec => []ExecRunsWhatItNamed
<1>1. IInv => ExecRunsWhatItNamed
  BY AllAreSteady
<1> QED
  BY <1>1, Inductive, PTL

(* An exec finds no file only if there was none at its source.             *)
THEOREM FindsItsFile ==
  ASSUME MemoryComesWithFiles PROVE Spec => []ExecFindsItsFile
<1>1. IInv => ExecFindsItsFile
  BY AllAreSteady
<1> QED
  BY <1>1, Inductive, PTL
=============================================================================
