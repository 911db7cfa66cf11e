-------------------------------- MODULE GuestCwd --------------------------------
(***************************************************************************)
(* The working directories and directory descriptors of a command that     *)
(* runs in a bind view: src/src/linux/dispatch.rs (handle_open,            *)
(* handle_chdir, handle_getcwd, handle_getdents) and                       *)
(* src/src/linux/remote.rs (resolve_path, virtual_cwd,                     *)
(* directory_fd_matches).                                                  *)
(*                                                                         *)
(* A destination cannot be entered in the tracee's mount view, so the      *)
(* supervisor keeps the guest's idea of a cwd in virtual_cwds, and the     *)
(* guest names of directory descriptors in directories, while the kernel   *)
(* keeps its own.  Only some calls are intercepted: fork, exit, close and  *)
(* dup are not.  The module sets both against a third account, what the    *)
(* process would have if the binds were real mounts.                       *)
(*                                                                         *)
(* The view is open, the directory tree does not change, there are no      *)
(* symbolic links; one notification and the syscall it lets through are    *)
(* one step.  Threads of a process share its key and its cwd.              *)
(***************************************************************************)
EXTENDS ViewPaths, FiniteSets

CONSTANTS
  Procs,      \* process ids, positive; ids are used again
  Command,    \* the process the command was started in
  Fds,        \* descriptor numbers
  View,       \* the projections of an opened view, as searched
  HostDirs,   \* directories of the host
  CallerCwd,  \* where pathshim was started
  StartCwds,  \* guest working directories main.rs may settle on
  Args,       \* path arguments, see Arg
  MaxCalls    \* bound: the calls of one behaviour

Arg == [absolute : BOOLEAN, path : Written]

(* What module BindView shows of an opened view, and what ChooseCwd of the *)
(* directory the command starts in.                                        *)
ASSUME GuestAssumption ==
  /\ Procs \subseteq Nat \ {0} /\ Command \in Procs /\ Fds \subseteq Nat
  /\ View \in Seq(Projections)
  /\ \A i, j \in DOMAIN View : i < j => Len(View[i].destination) >= Len(View[j].destination)
  /\ \A i, j \in DOMAIN View : i # j => View[i].destination # View[j].destination
  /\ HostDirs \subseteq Path /\ CallerCwd \in HostDirs
  /\ StartCwds \subseteq Path
  /\ \A guest \in StartCwds : ResolveProjected(View, guest) \in HostDirs
  /\ Args \subseteq Arg /\ MaxCalls \in Nat

VARIABLES
  (* the kernel                                                            *)
  alive,         \* processes that run
  parent,        \* PPid of each, 0 for a process outside the command
  kernelCwd,     \* the host directory each process is in
  fds,           \* open directories: [Procs -> (Fds, partly) -> host]
  (* the supervisor                                                        *)
  virtual_cwds,  \* State::virtual_cwds, from process keys to guest paths
  directories,   \* State::directories, from (process key, fd) to guest paths
  (* what real bind mounts would make of the same calls                    *)
  mountCwd,      \* the cwd each process would see
  mountFds,      \* the name each open directory would have
  followed,      \* processes whose every change of cwd since their last
                 \*   absolute one is of a kind the supervisor can follow
  calls          \* how many calls there have been

kernelVars == <<alive, parent, kernelCwd, fds>>
supervisorVars == <<virtual_cwds, directories>>
mountVars == <<mountCwd, mountFds, followed>>
vars == <<kernelVars, supervisorVars, mountVars, calls>>

(* Keys and descriptors are the known ones, every path is normalized.      *)
TypeOK ==
  /\ alive \subseteq Procs
  /\ parent \in [Procs -> Procs \cup {0}]
  /\ kernelCwd \in [Procs -> HostDirs]
  /\ DOMAIN fds = Procs /\ DOMAIN mountFds = Procs
  /\ \A p \in Procs :
       /\ DOMAIN fds[p] \subseteq Fds /\ DOMAIN mountFds[p] = DOMAIN fds[p]
       /\ \A fd \in DOMAIN fds[p] : fds[p][fd] \in HostDirs /\ mountFds[p][fd] \in Path
  /\ DOMAIN virtual_cwds \subseteq Procs
  /\ \A p \in DOMAIN virtual_cwds : virtual_cwds[p] \in Path
  /\ DOMAIN directories \subseteq Procs \X Fds
  /\ \A key \in DOMAIN directories : directories[key] \in Path
  /\ mountCwd \in [Procs -> Path]
  /\ followed \subseteq Procs
  /\ calls \in 0 .. MaxCalls

(* An emulated directory is one the kernel cannot enter under its name.    *)
Emulated(guest) == ResolveProjected(View, guest) # guest

IsDir(host) == host \in HostDirs
IsGuestDir(guest) == IsDir(ResolveProjected(View, guest))

(* State::new was empty; since then Command::exec has changed to the guest *)
(* cwd, by an intercepted chdir, and executed the command.                 *)
Init ==
  \E start \in StartCwds :
    /\ alive = {Command}
    /\ parent = [p \in Procs |-> 0]
    /\ kernelCwd = [p \in Procs |-> IF p = Command /\ ~Emulated(start) THEN start ELSE CallerCwd]
    /\ fds = [p \in Procs |-> <<>>] /\ mountFds = [p \in Procs |-> <<>>]
    /\ virtual_cwds = [p \in {Command} |-> start]
    /\ directories = <<>>
    /\ mountCwd = [p \in Procs |-> start]
    /\ followed = {Command}
    /\ calls = 0

-------------------------------------------------------------------------------
(***************************************************************************)
(* remote.rs                                                               *)
(***************************************************************************)

(* Fault: what was written is joined and kept.                             *)
SpelledAsWritten(base, arg) == IF arg.absolute THEN arg.path ELSE base \o arg.path

(* The path an argument spells when it is relative to a directory.         *)
Spelled(base, arg) == Normalize(IF arg.absolute THEN arg.path ELSE base \o arg.path)

(* virtual_cwd looks at a process and at most 15 of its ancestors for the  *)
(* nearest one with an entry; 0 stands for none.                           *)
Holder(p) ==
  LET climb[n \in 0 .. 15] ==
        [q \in Procs \cup {0} |->
           IF q \in DOMAIN virtual_cwds THEN q
           ELSE IF n = 0 \/ q = 0 THEN 0
           ELSE climb[n - 1][parent[q]]]
  IN climb[15][p]

HasVirtualCwd(p) == Holder(p) # 0
VirtualCwd(p) == virtual_cwds[Holder(p)]

(* The kernel's cwd under its guest name.                                  *)
process_cwd(p) == VirtualForHost(View, kernelCwd[p])

(* Where relative paths start: resolve_path with AT_FDCWD.                 *)
CwdBase(p) == IF HasVirtualCwd(p) THEN VirtualCwd(p) ELSE process_cwd(p)

(* Fault: the entry is trusted without a look at the live descriptor.      *)
AnyDirectoryMatches(p, fd) == <<p, fd>> \in DOMAIN directories

(* directory_fd_matches: the entry still describes the live descriptor.    *)
DirectoryFdMatches(p, fd) ==
  /\ <<p, fd>> \in DOMAIN directories
  /\ fd \in DOMAIN fds[p]
  /\ ResolveProjected(View, directories[<<p, fd>>]) = fds[p][fd]

(* Where descriptor-relative paths start.                                  *)
FdBase(p, fd) ==
  IF DirectoryFdMatches(p, fd) THEN directories[<<p, fd>>] ELSE VirtualForHost(View, fds[p][fd])

(* getcwd, and the own /proc/<pid>/cwd link.                               *)
SeenCwd(p) == IF HasVirtualCwd(p) THEN VirtualCwd(p) ELSE kernelCwd[p]

(* The host path a call with a path argument ends at: the supervisor acts  *)
(* below a source, or lets the kernel resolve the argument from its own    *)
(* starting point.                                                         *)
Landing(base, kernelBase, arg) ==
  IF Projects(View, Spelled(base, arg))
  THEN ResolveProjected(View, Spelled(base, arg))
  ELSE Spelled(kernelBase, arg)

-------------------------------------------------------------------------------
(***************************************************************************)
(* The calls                                                               *)
(***************************************************************************)

LowestFree(p, fd) ==
  /\ fd \in Fds \ DOMAIN fds[p]
  /\ \A other \in Fds \ DOMAIN fds[p] : fd <= other

(* HashMap::insert and remove.                                             *)
Put(f, key, value) == [k \in DOMAIN f \cup {key} |-> IF k = key THEN value ELSE f[k]]
WithoutKey(f, key) == [k \in DOMAIN f \ {key} |-> f[k]]

(* handle_open of a directory.  An entry that was left by an earlier use   *)
(* of the number is overwritten only when the path is projected.           *)
OpenDirectory(p, fd, arg) ==
  LET guest == Spelled(CwdBase(p), arg)
      host  == Landing(CwdBase(p), kernelCwd[p], arg)
  IN
  /\ p \in alive /\ LowestFree(p, fd) /\ IsDir(host)
  /\ fds' = [fds EXCEPT ![p] = Put(@, fd, host)]
  /\ mountFds' = [mountFds EXCEPT ![p] = Put(@, fd, Spelled(mountCwd[p], arg))]
  /\ directories' = IF Projects(View, guest)
                    THEN Put(directories, <<p, fd>>, guest)
                    ELSE directories
  /\ UNCHANGED <<alive, parent, kernelCwd, virtual_cwds, mountCwd, followed>>

(* close(2) is not intercepted.                                            *)
Close(p, fd) ==
  /\ p \in alive /\ fd \in DOMAIN fds[p]
  /\ fds' = [fds EXCEPT ![p] = WithoutKey(@, fd)]
  /\ mountFds' = [mountFds EXCEPT ![p] = WithoutKey(@, fd)]
  /\ UNCHANGED <<alive, parent, kernelCwd, supervisorVars, mountCwd, followed>>

(* handle_getdents forgets an entry it finds stale.  The listing itself    *)
(* does not concern the cwd.                                               *)
ReadDirectory(p, fd) ==
  /\ p \in alive /\ fd \in DOMAIN fds[p]
  /\ <<p, fd>> \in DOMAIN directories /\ ~DirectoryFdMatches(p, fd)
  /\ directories' = WithoutKey(directories, <<p, fd>>)
  /\ UNCHANGED <<kernelVars, virtual_cwds, mountVars>>

(* Fault: only the first cwd of a process is kept.                         *)
RememberOnce(p, guest) == virtual_cwds' = virtual_cwds @@ (p :> guest)

Remember(p, guest) == virtual_cwds' = Put(virtual_cwds, p, guest)

(* Fault: the supervisor answers and the kernel stays where it is.         *)
KernelChdirAnswered(p, host) == UNCHANGED kernelCwd

(* The continued syscall.                                                  *)
KernelChdir(p, host) == kernelCwd' = [kernelCwd EXCEPT ![p] = IF IsDir(host) THEN host ELSE @]

Follow(p, does) == followed' = IF does THEN followed \cup {p} ELSE followed \ {p}

(* What chdir does under real mounts.                                      *)
MountChdir(p, guest) ==
  mountCwd' = [mountCwd EXCEPT ![p] = IF IsGuestDir(guest) THEN guest ELSE @]

(* handle_chdir for chdir.  A path outside every destination is remembered *)
(* before the kernel has tried it.                                         *)
Chdir(p, arg) ==
  LET guest    == Spelled(CwdBase(p), arg)
      host     == ResolveProjected(View, guest)
      kernel   == Spelled(kernelCwd[p], arg)
      InStep   == arg.absolute \/ (p \in followed /\ (Emulated(guest) \/ ~Emulated(CwdBase(p))))
  IN
  /\ p \in alive
  /\ \/ /\ ~Projects(View, guest)
        /\ Remember(p, guest) /\ KernelChdir(p, kernel)
        /\ Follow(p, InStep /\ IsDir(kernel))
     \/ /\ Projects(View, guest) /\ IsDir(host)
        /\ Remember(p, guest)
        /\ IF host = guest THEN KernelChdir(p, kernel) ELSE UNCHANGED kernelCwd
        /\ Follow(p, InStep)
     \/ /\ Projects(View, guest) /\ ~IsDir(host)
        /\ UNCHANGED <<virtual_cwds, kernelCwd, followed>>
  /\ MountChdir(p, Spelled(mountCwd[p], arg))
  /\ UNCHANGED <<alive, parent, fds, directories, mountFds>>

(* handle_chdir for fchdir: a descriptor with a live entry is emulated     *)
(* like its path, any other is left to the kernel alone.                   *)
Fchdir(p, fd) ==
  LET guest == directories[<<p, fd>>] IN
  /\ p \in alive /\ fd \in DOMAIN fds[p]
  /\ \/ /\ DirectoryFdMatches(p, fd)
        /\ Remember(p, guest)
        /\ IF Emulated(guest) THEN UNCHANGED kernelCwd ELSE KernelChdir(p, fds[p][fd])
        /\ Follow(p, guest = mountFds[p][fd])
        /\ UNCHANGED directories
     \/ /\ ~DirectoryFdMatches(p, fd)
        /\ KernelChdir(p, fds[p][fd])
        /\ Follow(p, FALSE)
        /\ directories' = WithoutKey(directories, <<p, fd>>)
        /\ UNCHANGED virtual_cwds
  /\ MountChdir(p, mountFds[p][fd])
  /\ UNCHANGED <<alive, parent, fds, mountFds>>

(* fork(2) is not intercepted.  The child may have the id of a process     *)
(* that is gone.                                                           *)
Fork(p, child) ==
  /\ p \in alive /\ child \in Procs \ alive
  /\ alive' = alive \cup {child}
  /\ parent' = [parent EXCEPT ![child] = p]
  /\ kernelCwd' = [kernelCwd EXCEPT ![child] = kernelCwd[p]]
  /\ fds' = [fds EXCEPT ![child] = fds[p]]
  /\ mountFds' = [mountFds EXCEPT ![child] = mountFds[p]]
  /\ mountCwd' = [mountCwd EXCEPT ![child] = mountCwd[p]]
  /\ followed' = followed \ {child}
  /\ UNCHANGED supervisorVars

(* A descendant ends; its children pass to a process outside the command.  *)
(* When the command ends, so does the supervisor.                          *)
Exit(p) ==
  /\ p \in alive \ {Command}
  /\ alive' = alive \ {p}
  /\ parent' = [q \in Procs |-> IF q = p \/ parent[q] = p THEN 0 ELSE parent[q]]
  /\ fds' = [fds EXCEPT ![p] = <<>>] /\ mountFds' = [mountFds EXCEPT ![p] = <<>>]
  /\ followed' = followed \ {p}
  /\ UNCHANGED <<kernelCwd, supervisorVars, mountCwd>>

Call(p) ==
  \/ \E fd \in Fds, arg \in Args : OpenDirectory(p, fd, arg)
  \/ \E fd \in Fds : Close(p, fd) \/ ReadDirectory(p, fd) \/ Fchdir(p, fd)
  \/ \E arg \in Args : Chdir(p, arg)
  \/ \E child \in Procs : Fork(p, child)
  \/ Exit(p)

BoundReached == calls = MaxCalls /\ UNCHANGED vars

Next ==
  \/ /\ calls < MaxCalls /\ calls' = calls + 1
     /\ \E p \in Procs : Call(p)
  \/ BoundReached

Spec == Init /\ [][Next]_vars

-------------------------------------------------------------------------------
(***************************************************************************)
(* What the guest can rely on                                              *)
(***************************************************************************)

Descends(arg) == ~arg.absolute /\ DotDot \notin Range(arg.path)

(* A process that has changed its cwd itself, by calls the supervisor can  *)
(* follow, sees the cwd that real mounts would give it - whatever other    *)
(* processes do, in whatever order descriptors and process ids are reused. *)
FollowedCwdIsGuestCwd == \A p \in followed : SeenCwd(p) = mountCwd[p]

(* Its relative paths reach the host file they would reach under real      *)
(* mounts, unless they climb out of an emulated directory to a path that   *)
(* no destination covers.                                                  *)
FollowedRelativePathsLand ==
  \A p \in followed : \A arg \in Args :
    (Projects(View, Spelled(CwdBase(p), arg)) \/ ~Emulated(CwdBase(p)))
      => Landing(CwdBase(p), kernelCwd[p], arg)
           = ResolveProjected(View, Spelled(mountCwd[p], arg))

(* A guest path leads to the directory: no destination hides the one that  *)
(* virtual_for_host gives it.                                              *)
HasGuestName(host) == ResolveProjected(View, VirtualForHost(View, host)) = host

(* The path a descriptor stands for leads to that very directory, and a    *)
(* path below the descriptor to the file below the directory or to what is *)
(* bound there - in every process that holds the descriptor: inherited,    *)
(* closed and reopened, or left behind by a process of the same id.        *)
FdRelativePathsLand ==
  \A p \in alive : \A fd \in DOMAIN fds[p] : \A arg \in Args :
    LET host  == fds[p][fd]
        base  == FdBase(p, fd)
        lands == Landing(base, host, arg)
    IN Descends(arg) /\ HasGuestName(host) =>
         /\ ResolveProjected(View, base) = host
         /\ \/ lands = host \o Normalize(arg.path)
            \/ \E i \in DOMAIN View :
                 /\ IsStrictPrefix(base, View[i].destination)
                 /\ Selects(View, i, Spelled(base, arg))
                 /\ lands = ResolveBelow(View[i], Spelled(base, arg))

(* A single process sees the cwd its chdir and fchdir calls have set.      *)
SeenCwdIsGuestCwd == SeenCwd(Command) = mountCwd[Command]

(* A path outside every destination keeps its meaning, however it is       *)
(* spelled.                                                                *)
OutsidePathsKeepTheirMeaning ==
  \A arg \in Args :
    LET guest == Spelled(mountCwd[Command], arg) IN
    ~Projects(View, guest) => Landing(CwdBase(Command), kernelCwd[Command], arg) = guest
===============================================================================
