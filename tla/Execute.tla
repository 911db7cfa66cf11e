------------------------------ MODULE Execute ------------------------------
(***************************************************************************)
(* execve and execveat of a mapped path: src/src/linux/execute.rs and      *)
(* rewrite_path of src/src/linux/remote.rs.                                *)
(*                                                                         *)
(* The supervisor opens the source's file, puts a descriptor of it into    *)
(* the caller, writes /dev/fd/<n> over the path in the caller's memory and *)
(* lets the kernel go on, which reads the path anew.  Memory and           *)
(* descriptor tables may be shared by tasks: both by the threads of a      *)
(* process, memory alone by a parent and its vfork children.  A signal     *)
(* handler may run while a call waits: the kernel then takes the           *)
(* notification back, and the supervisor learns of it from add_fd or       *)
(* respond, not from the memory that it writes in between.                 *)
(***************************************************************************)
EXTENDS Integers, FiniteSets

CONSTANTS
  Tasks,
  Layouts,     \* [space, files]: whose memory and whose table a task uses
  Numbers,     \* descriptor numbers
  Paths,       \* guest paths of executables
  Projected,   \* those below a destination
  Long,        \* those that /dev/fd/<n> fits over
  Inodes,      \* executables
  Readable, Runnable,  \* those that can be opened, and that the kernel runs
  Sources,     \* what the paths' sources may hold
  Pod,         \* what the kernel finds at a path
  Absent,      \* no file
  MaxCalls,    \* bound: execs
  MaxEvents    \* bound: other calls, signal handlers, and replaced sources

ASSUME TasksAssumption == Tasks # {} /\ Paths # {}
ASSUME LayoutsAssumption == Layouts \subseteq [space : [Tasks -> Tasks], files : [Tasks -> Tasks]]
ASSUME NumbersAssumption == Numbers \subseteq Nat \ {0}
ASSUME PathsAssumption == Projected \subseteq Paths /\ Long \subseteq Paths
ASSUME InodesAssumption ==
  /\ Readable \subseteq Inodes /\ Runnable \subseteq Inodes /\ Absent \notin Inodes
  /\ Sources \subseteq [Paths -> Inodes \cup {Absent}]
  /\ Pod \in [Paths -> Inodes \cup {Absent}]
ASSUME BoundsAssumption == MaxCalls \in Nat /\ MaxEvents \in Nat

VARIABLES
  source,     \* the files that back the projected paths
  (* the tasks and the kernel                                              *)
  layout,     \* who shares what
  memory,     \* of each space: the path the program is to execute
  table,      \* of each table: number to inode, Absent for a free one
  pc,         \* "running", "waiting", "continued" or "replaced"
  nofollow,   \* tasks whose execveat has AT_SYMLINK_NOFOLLOW
  outcome,    \* what a task's last exec came to
  (* the supervisor                                                        *)
  sup,        \* "poll", "opening", "injecting" or "rewriting"
  job,        \* [task, path, inode, number]: what it works on
  live,       \* the notification of that is still there
  (* history                                                               *)
  named,      \* of each space: the path the program wrote there
  backing,    \* the files that path has led to since
  disturbed,  \* spaces whose path or descriptor the program took away
  stale,      \* those whose path it wrote before an older exec's alias
  calls, events

taskVars == <<layout, memory, table, pc, nofollow, outcome>>
supVars == <<sup, job, live>>
history == <<named, backing, disturbed, stale, calls, events>>
vars == <<source, taskVars, supVars, history>>

Text(path)    == [path |-> path, number |-> 0]
Alias(number) == [path |-> "/dev/fd", number |-> number]   \* executable_alias
Texts == {Text(p) : p \in Paths} \cup {Alias(n) : n \in Numbers}

Files == Inodes \cup {Absent}
SpaceOf(t) == layout.space[t]
TableOf(t) == table[layout.files[t]]
NoJob == [task |-> CHOOSE t \in Tasks : TRUE, path |-> CHOOSE p \in Paths : TRUE,
          inode |-> Absent, number |-> 0]

Pending == [status |-> "none", inode |-> Absent]
Statuses == {"none", "ok", "ENOENT", "EACCES", "ENOEXEC", "ENOTSUP", "EMFILE",
             "ENAMETOOLONG", "EFAULT", "EINTR"}

TypeOK ==
  /\ source \in [Paths -> Files] /\ layout \in Layouts
  /\ memory \in [Tasks -> Texts]
  /\ table \in [Tasks -> [Numbers -> Files]]
  /\ pc \in [Tasks -> {"running", "waiting", "continued", "replaced"}]
  /\ nofollow \subseteq Tasks
  /\ outcome \in [Tasks -> [status : Statuses, inode : Files]]
  /\ sup \in {"poll", "opening", "injecting", "rewriting"}
  /\ job \in [task : Tasks, path : Paths, inode : Files, number : Numbers \cup {0}]
  /\ live \in BOOLEAN
  /\ sup = "rewriting" => job.number \in Numbers /\ job.inode \in Readable
  /\ named \in [Tasks -> Paths] /\ backing \in [Tasks -> SUBSET Files]
  /\ disturbed \subseteq Tasks /\ stale \subseteq Tasks
  /\ calls \in 0 .. MaxCalls /\ events \in 0 .. MaxEvents

Backing(path) == IF path \in Projected THEN source[path] ELSE Pod[path]

Init ==
  /\ source \in Sources /\ layout \in Layouts
  /\ named \in [Tasks -> Paths]
  /\ memory = [s \in Tasks |-> Text(named[s])]
  /\ backing = [s \in Tasks |-> {Backing(named[s])}]
  /\ table = [t \in Tasks |-> [n \in Numbers |-> Absent]]
  /\ pc = [t \in Tasks |-> "running"] /\ nofollow = {}
  /\ outcome = [t \in Tasks |-> Pending]
  /\ sup = "poll" /\ job = NoJob /\ live = FALSE
  /\ disturbed = {} /\ stale = {} /\ calls = 0 /\ events = 0

-------------------------------------------------------------------------------
(***************************************************************************)
(* The tasks                                                               *)
(***************************************************************************)

Exec(t, flags) ==
  /\ pc[t] = "running" /\ calls < MaxCalls /\ calls' = calls + 1
  /\ pc' = [pc EXCEPT ![t] = "waiting"]
  /\ nofollow' = IF "nofollow" \in flags THEN nofollow \cup {t} ELSE nofollow \ {t}
  /\ outcome' = [outcome EXCEPT ![t] = Pending]
  /\ UNCHANGED <<source, layout, memory, table, supVars,
                 named, backing, disturbed, stale, events>>

Caller == job.task

Event == events < MaxEvents /\ events' = events + 1 /\ UNCHANGED calls

InCall(space) == {t \in Tasks : SpaceOf(t) = space /\ pc[t] \in {"waiting", "continued"}}

(* The program writes a path where it had another one; what came of the    *)
(* earlier one no longer counts, except that the supervisor may be about   *)
(* to put the alias of an exec over it.                                    *)
WritePath(t, path) ==
  LET space == SpaceOf(t) IN
  /\ pc[t] = "running" /\ Event
  /\ memory' = [memory EXCEPT ![space] = Text(path)]
  /\ named' = [named EXCEPT ![space] = path]
  /\ backing' = [backing EXCEPT ![space] = {Backing(path)}]
  /\ outcome' = [u \in Tasks |-> IF SpaceOf(u) = space THEN Pending ELSE outcome[u]]
  /\ disturbed' = IF InCall(space) = {} THEN disturbed \ {space} ELSE disturbed \cup {space}
  /\ stale' = IF sup = "rewriting" /\ SpaceOf(Caller) = space
              THEN stale \cup {space} ELSE stale \ {space}
  /\ UNCHANGED <<source, layout, table, pc, nofollow, supVars>>

FreeNumbers(t) == {n \in Numbers : TableOf(t)[n] = Absent}
Lowest(t) == CHOOSE n \in FreeNumbers(t) : \A m \in FreeNumbers(t) : n <= m
Puts(t, number, inode) == table' = [table EXCEPT ![layout.files[t]][number] = inode]

OpenFile(t, inode) ==
  /\ pc[t] = "running" /\ Event /\ FreeNumbers(t) # {}
  /\ Puts(t, Lowest(t), inode)
  /\ UNCHANGED <<source, layout, memory, pc, nofollow, outcome, supVars,
                 named, backing, disturbed, stale>>

(* It closes a descriptor, perhaps one that it did not open.               *)
CloseFile(t, number) ==
  /\ pc[t] = "running" /\ Event /\ TableOf(t)[number] # Absent
  /\ Puts(t, number, Absent)
  /\ disturbed' = disturbed \cup {SpaceOf(u) : u \in {v \in Tasks : layout.files[v] = layout.files[t]}}
  /\ UNCHANGED <<source, layout, memory, pc, nofollow, outcome, supVars,
                 named, backing, stale>>

(* An external writer puts another file in the place of a source.          *)
ReplaceSource(path, inode) ==
  /\ path \in Projected /\ Event /\ source' = [source EXCEPT ![path] = inode]
  /\ backing' = [s \in Tasks |-> IF named[s] = path THEN backing[s] \cup {inode} ELSE backing[s]]
  /\ UNCHANGED <<taskVars, supVars, named, disturbed, stale>>

Comes(t, status, inode) ==
  outcome' = [outcome EXCEPT ![t] = [status |-> status, inode |-> inode]]

(* A signal handler runs: the exec starts again, or fails with EINTR.      *)
Interrupt(t) ==
  /\ pc[t] = "waiting" /\ Event /\ live' = (live /\ Caller # t)
  /\ \/ UNCHANGED <<pc, outcome>>
     \/ pc' = [pc EXCEPT ![t] = "running"] /\ Comes(t, "EINTR", Absent)
  /\ UNCHANGED <<source, layout, memory, table, nofollow, sup, job,
                 named, backing, disturbed, stale>>

(* The kernel reads the path and runs what it leads to in place of all     *)
(* threads of the process; the injected descriptor closes with it.         *)
KernelExecs(t) ==
  LET text  == memory[SpaceOf(t)]
      inode == IF text \in {Alias(n) : n \in Numbers} THEN TableOf(t)[text.number]
               ELSE IF text.path \in Paths THEN Pod[text.path] ELSE Absent
      Process == {u \in Tasks : SpaceOf(u) = SpaceOf(t) /\ layout.files[u] = layout.files[t]}
  IN
  /\ pc[t] = "continued"
  /\ \/ /\ inode \in Runnable /\ Comes(t, "ok", inode)
        /\ pc' = [u \in Tasks |-> IF u \in Process THEN "replaced" ELSE pc[u]]
        /\ live' = (live /\ Caller \notin Process)
     \/ /\ inode \notin Runnable
        /\ Comes(t, IF inode = Absent THEN "ENOENT" ELSE "ENOEXEC", inode)
        /\ pc' = [pc EXCEPT ![t] = "running"] /\ UNCHANGED live
  /\ UNCHANGED <<source, layout, memory, table, nofollow, sup, job, history>>

-------------------------------------------------------------------------------
(***************************************************************************)
(* The supervisor                                                          *)
(***************************************************************************)

Goes(to) == sup' = to /\ UNCHANGED live

(* respond; one whose notification is gone takes no answer.                *)
Continues(t, there) ==
  /\ sup' = "poll" /\ live' = FALSE /\ UNCHANGED outcome
  /\ pc' = IF there THEN [pc EXCEPT ![t] = "continued"] ELSE pc

Refuses(t, there, status) ==
  /\ sup' = "poll" /\ live' = FALSE
  /\ IF there THEN pc' = [pc EXCEPT ![t] = "running"] /\ Comes(t, status, Absent)
     ELSE UNCHANGED <<pc, outcome>>

(* receive, read_path, resolve_path and projects: an alias is below /dev,  *)
(* and the kernel's.  (A caller that is interrupted before its path is     *)
(* read is served up to add_fd, which fails.)                              *)
Receive(t) ==
  LET text == memory[SpaceOf(t)] IN
  /\ sup = "poll" /\ pc[t] = "waiting"
  /\ \/ /\ text \notin {Text(p) : p \in Projected}
        /\ Continues(t, TRUE) /\ UNCHANGED job
     \/ /\ text \in {Text(p) : p \in Projected} /\ t \in nofollow
        /\ Refuses(t, TRUE, "ENOTSUP") /\ UNCHANGED job
     \/ /\ text \in {Text(p) : p \in Projected} /\ t \notin nofollow
        /\ sup' = "opening" /\ live' = TRUE
        /\ job' = [NoJob EXCEPT !.task = t, !.path = text.path]
        /\ UNCHANGED <<pc, outcome>>
  /\ UNCHANGED <<source, layout, memory, table, nofollow, history>>

(* open_executable.                                                        *)
OpenExecutable ==
  LET inode == source[job.path] IN
  /\ sup = "opening"
  /\ \/ inode \in Readable /\ Goes("injecting") /\ job' = [job EXCEPT !.inode = inode]
        /\ UNCHANGED <<pc, outcome>>
     \/ inode \notin Readable /\ UNCHANGED job
        /\ Refuses(Caller, live, IF inode = Absent THEN "ENOENT" ELSE "EACCES")
  /\ UNCHANGED <<source, layout, memory, table, nofollow, history>>

(* Fault: the descriptor number is used whether there is one or not.       *)
AddFdUnchecked ==
  /\ sup = "injecting" /\ Goes("rewriting")
  /\ \/ /\ FreeNumbers(Caller) # {}
        /\ Puts(Caller, Lowest(Caller), job.inode)
        /\ job' = [job EXCEPT !.number = Lowest(Caller)]
     \/ FreeNumbers(Caller) = {} /\ job' = [job EXCEPT !.number = 0] /\ UNCHANGED table
  /\ UNCHANGED <<source, layout, memory, pc, outcome, nofollow, history>>

(* Fault: the alias names the supervisor's descriptor, not the caller's.   *)
AddFdOwnNumber ==
  /\ sup = "injecting"
  /\ \/ /\ live /\ FreeNumbers(Caller) # {} /\ Goes("rewriting")
        /\ Puts(Caller, Lowest(Caller), job.inode)
        /\ \E n \in Numbers : job' = [job EXCEPT !.number = n]
        /\ UNCHANGED <<pc, outcome>>
     \/ /\ ~live \/ FreeNumbers(Caller) = {}
        /\ Refuses(Caller, live, "EMFILE") /\ UNCHANGED <<table, job>>
  /\ UNCHANGED <<source, layout, memory, nofollow, history>>

(* add_fd without ADDFD_FLAG_SEND: the caller still waits.                 *)
AddFd ==
  /\ sup = "injecting"
  /\ \/ /\ live /\ FreeNumbers(Caller) # {} /\ Goes("rewriting")
        /\ Puts(Caller, Lowest(Caller), job.inode)
        /\ job' = [job EXCEPT !.number = Lowest(Caller)]
        /\ UNCHANGED <<pc, outcome>>
     \/ /\ ~live \/ FreeNumbers(Caller) = {}
        /\ Refuses(Caller, live, "EMFILE") /\ UNCHANGED <<table, job>>
  /\ UNCHANGED <<source, layout, memory, nofollow, history>>

(* The memory of a task that runs another program is another one.          *)
Rewrites ==
  memory' = IF pc[Caller] = "replaced" THEN memory
            ELSE [memory EXCEPT ![SpaceOf(Caller)] = Alias(job.number)]

(* Fault: a path that cannot be rewritten is continued as it is.           *)
RewritePathOrContinue ==
  /\ sup = "rewriting" /\ Continues(Caller, live)
  /\ (job.path \in Long /\ Rewrites) \/ UNCHANGED memory
  /\ UNCHANGED <<source, layout, table, nofollow, job, history>>

(* rewrite_path and respond_continue, whether the caller still waits or    *)
(* not.  The descriptor stays when the path is too short or the memory     *)
(* cannot be written.                                                      *)
RewritePath ==
  /\ sup = "rewriting"
  /\ \/ job.path \in Long /\ Rewrites /\ Continues(Caller, live)
     \/ job.path \notin Long /\ Refuses(Caller, live, "ENAMETOOLONG") /\ UNCHANGED memory
     \/ job.path \in Long /\ Refuses(Caller, live, "EFAULT") /\ UNCHANGED memory
  /\ UNCHANGED <<source, layout, table, nofollow, job, history>>

Supervisor == (\E t \in Tasks : Receive(t)) \/ OpenExecutable \/ AddFd \/ RewritePath

Task(t) ==
  \/ \E flags \in SUBSET {"nofollow"} : Exec(t, flags)
  \/ \E p \in Paths : WritePath(t, p)
  \/ \E i \in Inodes : OpenFile(t, i)
  \/ \E n \in Numbers : CloseFile(t, n)
  \/ KernelExecs(t) \/ Interrupt(t)

(* Nobody has to do anything more.                                         *)
Rest ==
  /\ sup = "poll" /\ \A t \in Tasks : pc[t] \in {"running", "replaced"}
  /\ UNCHANGED vars

Next ==
  \/ Supervisor \/ Rest
  \/ \E t \in Tasks : Task(t)
  \/ \E p \in Projected, i \in Inodes : ReplaceSource(p, i)

Spec == Init /\ [][Next]_vars

-------------------------------------------------------------------------------
Undisturbed(t) == SpaceOf(t) \notin disturbed

(* What runs is the file behind the path that the program wrote, never the *)
(* one that the destination hides - also for a thread that executes a path *)
(* that an earlier, failed exec has rewritten.  It does not hold of a path *)
(* that is written while the supervisor is about to rewrite the one of an  *)
(* interrupted exec.                                                       *)
ExecRunsWhatItNamed ==
  \A t \in Tasks : outcome[t].status = "ok" /\ Undisturbed(t) /\ SpaceOf(t) \notin stale
    => outcome[t].inode \in backing[SpaceOf(t)]

(* "executing readable ELF binaries through mapped absolute paths"         *)
(* (README.md:90): an exec finds no file only if there was none.  It does  *)
(* not hold there either, nor where memory is shared and descriptors are   *)
(* not.                                                                    *)
ExecFindsItsFile ==
  \A t \in Tasks : outcome[t].status = "ENOENT" /\ Undisturbed(t) /\ SpaceOf(t) \notin stale
    => Absent \in backing[SpaceOf(t)]

(* The same line of a program that goes on after a signal: the path it     *)
(* writes next, while nothing of it is in a call, is the one that runs.    *)
NextExecRunsWhatItNamed ==
  \A t \in Tasks : outcome[t].status = "ok" /\ Undisturbed(t)
    => outcome[t].inode \in backing[SpaceOf(t)]
=============================================================================
