---------------------------- MODULE GuestCwdProofs ----------------------------
(***************************************************************************)
(* What a process sees of its own cwd is what real mounts would show, for  *)
(* any opened view, any processes, descriptors and calls, whatever ids and *)
(* numbers are used again, as long as it changes its cwd by calls that the *)
(* supervisor can follow.                                                  *)
(***************************************************************************)
EXTENDS GuestCwd, ViewPathsProofs

(* A followed process has an entry of its own, left by its latest change   *)
(* of cwd.  The entry is the cwd under mounts, and the kernel is in the    *)
(* same directory unless the entry is emulated: a relative path starts at  *)
(* one place for the supervisor and for a continued call.                  *)
FollowInv ==
  \A p \in followed :
    /\ p \in alive /\ p \in DOMAIN virtual_cwds
    /\ virtual_cwds[p] = mountCwd[p]
    /\ ~Emulated(virtual_cwds[p]) => kernelCwd[p] = virtual_cwds[p]

IInv == TypeOK /\ FollowInv

-------------------------------------------------------------------------------
(* virtual_cwd's loop with n ancestors left to look at, from any process.  *)
Climb(climb, n) ==
  climb = [k \in 0 .. n |->
            [q \in Procs \cup {0} |->
               IF q \in DOMAIN virtual_cwds THEN q
               ELSE IF k = 0 \/ q = 0 THEN 0
               ELSE climb[k - 1][parent[q]]]]

(* There is such a loop for every number of ancestors.                     *)
LEMMA ClimbExists ==
  ASSUME NEW n \in Nat
  PROVE  \E climb : Climb(climb, n)
<1> DEFINE S == {k \in Nat : \E climb : Climb(climb, k)}
<1>1. 0 \in S
  <2> DEFINE climb == [k \in 0 .. 0 |->
                         [q \in Procs \cup {0} |-> IF q \in DOMAIN virtual_cwds THEN q ELSE 0]]
  <2>1. Climb(climb, 0)
    BY DEF Climb
  <2> QED
    BY <2>1
<1>2. ASSUME NEW k \in Nat, k \in S PROVE k + 1 \in S
  <2>1. PICK climb : Climb(climb, k)
    BY <1>2
  <2> DEFINE Level(below, m) ==
               [q \in Procs \cup {0} |->
                  IF q \in DOMAIN virtual_cwds THEN q
                  ELSE IF m = 0 \/ q = 0 THEN 0
                  ELSE below[m - 1][parent[q]]]
             more == [m \in 0 .. k + 1 |-> IF m = k + 1 THEN Level(climb, k + 1) ELSE climb[m]]
  <2>2. climb = [m \in 0 .. k |-> Level(climb, m)]
    BY <2>1 DEF Climb
  <2>3. \A m \in 0 .. k + 1 : more[m] = Level(more, m)
    <3> SUFFICES ASSUME NEW m \in 0 .. k + 1 PROVE more[m] = Level(more, m)
      OBVIOUS
    <3>1. m # 0 => more[m - 1] = climb[m - 1]
      OBVIOUS
    <3>2. more[m] = Level(climb, m)
      <4> HIDE DEF Level
      <4>1. m \in 0 .. k => climb[m] = Level(climb, m)
        BY <2>2
      <4> QED
        BY <4>1
    <3> HIDE DEF more
    <3> QED
      BY <3>1, <3>2
  <2>4. more = [m \in 0 .. k + 1 |-> Level(more, m)]
    <3>1. more = [m \in 0 .. k + 1 |-> more[m]]
      OBVIOUS
    <3> HIDE DEF more, Level
    <3> QED
      BY <2>3, <3>1
  <2>5. Climb(more, k + 1)
    <3> HIDE DEF more
    <3> QED
      BY <2>4 DEF Climb
  <2> QED
    BY <2>5
<1>3. Nat \subseteq S
  <2> HIDE DEF S
  <2> QED
    BY <1>1, <1>2, InductionOnSet
<1> QED
  BY <1>3

(* virtual_cwd finds a process's own entry first, and otherwise another's  *)
(* or none.                                                                *)
LEMMA HolderIs ==
  ASSUME NEW p \in Procs, parent \in [Procs -> Procs \cup {0}]
  PROVE  /\ Holder(p) \in DOMAIN virtual_cwds \cup {0}
         /\ p \in DOMAIN virtual_cwds => Holder(p) = p
<1> DEFINE climb == CHOOSE climb : Climb(climb, 15)
<1>1. Climb(climb, 15)
  BY ClimbExists
<1>2. Holder(p) = climb[15][p]
  BY DEF Holder, Climb
<1> HIDE DEF climb
<1>3. \A k \in 0 .. 15 : \A q \in Procs \cup {0} :
        climb[k][q] = IF q \in DOMAIN virtual_cwds THEN q
                      ELSE IF k = 0 \/ q = 0 THEN 0
                      ELSE climb[k - 1][parent[q]]
  BY <1>1 DEF Climb
<1> DEFINE S == {k \in Nat : k <= 15 =>
                   \A q \in Procs \cup {0} : climb[k][q] \in DOMAIN virtual_cwds \cup {0}}
<1>4. 0 \in S
  BY <1>3
<1>5. ASSUME NEW k \in Nat, k \in S PROVE k + 1 \in S
  <2>1. SUFFICES ASSUME k + 1 <= 15, NEW q \in Procs \cup {0}
                 PROVE  climb[k + 1][q] \in DOMAIN virtual_cwds \cup {0}
    OBVIOUS
  <2>2. /\ k + 1 \in 0 .. 15 /\ (k + 1) - 1 = k /\ k + 1 # 0 /\ k <= 15
    BY <2>1
  <2>3. climb[k + 1][q] = IF q \in DOMAIN virtual_cwds THEN q
                          ELSE IF q = 0 THEN 0 ELSE climb[k][parent[q]]
    <3>1. climb[k + 1][q] = IF q \in DOMAIN virtual_cwds THEN q
                            ELSE IF k + 1 = 0 \/ q = 0 THEN 0
                            ELSE climb[(k + 1) - 1][parent[q]]
      BY <1>3, <2>2
    <3> QED
      BY <2>2, <3>1
  <2>4. q # 0 => climb[k][parent[q]] \in DOMAIN virtual_cwds \cup {0}
    BY <1>5, <2>2
  <2> QED
    BY <2>3, <2>4
<1>6. Nat \subseteq S
  <2> HIDE DEF S
  <2> QED
    BY <1>4, <1>5, InductionOnSet
<1>7. climb[15][p] \in DOMAIN virtual_cwds \cup {0}
  BY <1>6
<1>8. p \in DOMAIN virtual_cwds => climb[15][p] = p
  BY <1>3
<1> QED
  BY <1>2, <1>7, <1>8

-------------------------------------------------------------------------------
(* What an argument spells, and where it leads, are normalized paths.      *)
LEMMA SpelledType ==
  ASSUME NEW base \in Path, NEW arg \in Args
  PROVE  Spelled(base, arg) \in Path
<1>1. arg.path \in Written
  BY GuestAssumption DEF Arg
<1>2. base \in Written
  BY SeqMonotonic DEF Path, Written
<1>3. base \o arg.path \in Written
  BY <1>1, <1>2, ConcatProperties DEF Written
<1> QED
  BY <1>1, <1>3, NormalizeType DEF Spelled

(* The view is a sequence of projections, as BindAssumption says it.       *)
LEMMA ViewType == View \in Seq(Projections)
BY GuestAssumption

(* Where relative paths start is a guest path, and for a process with an   *)
(* entry of its own it is that entry.                                      *)
LEMMA CwdBaseIs ==
  ASSUME TypeOK, NEW p \in Procs
  PROVE  /\ CwdBase(p) \in Path
         /\ p \in DOMAIN virtual_cwds => /\ CwdBase(p) = virtual_cwds[p]
                                         /\ SeenCwd(p) = virtual_cwds[p]
<1>1. /\ Holder(p) \in DOMAIN virtual_cwds \cup {0}
      /\ p \in DOMAIN virtual_cwds => Holder(p) = p
  BY HolderIs DEF TypeOK
<1>2. p # 0
  BY GuestAssumption
<1>3. process_cwd(p) \in Path
  <2>1. kernelCwd[p] \in Path
    BY GuestAssumption DEF TypeOK
  <2> QED
    BY <2>1, ViewType, VirtualForHostType DEF process_cwd
<1>4. HasVirtualCwd(p) => VirtualCwd(p) \in Path
  BY <1>1 DEF TypeOK, HasVirtualCwd, VirtualCwd
<1>5. p \in DOMAIN virtual_cwds => HasVirtualCwd(p) /\ VirtualCwd(p) = virtual_cwds[p]
  BY <1>1, <1>2 DEF HasVirtualCwd, VirtualCwd
<1> QED
  BY <1>3, <1>4, <1>5 DEF CwdBase, SeenCwd

(* The parts of the type invariant that an action changes together.        *)
ProcessesOK ==
  /\ alive \subseteq Procs /\ parent \in [Procs -> Procs \cup {0}]
  /\ followed \subseteq Procs
CwdsOK ==
  /\ kernelCwd \in [Procs -> HostDirs] /\ mountCwd \in [Procs -> Path]
  /\ DOMAIN virtual_cwds \subseteq Procs
  /\ \A p \in DOMAIN virtual_cwds : virtual_cwds[p] \in Path
FdsOK ==
  /\ DOMAIN fds = Procs /\ DOMAIN mountFds = Procs
  /\ \A p \in Procs :
       /\ DOMAIN fds[p] \subseteq Fds /\ DOMAIN mountFds[p] = DOMAIN fds[p]
       /\ \A fd \in DOMAIN fds[p] : fds[p][fd] \in HostDirs /\ mountFds[p][fd] \in Path
EntriesOK ==
  /\ DOMAIN directories \subseteq Procs \X Fds
  /\ \A key \in DOMAIN directories : directories[key] \in Path

(* The invariant without the bound on calls, which every call counts.      *)
StateInv == ProcessesOK /\ CwdsOK /\ FdsOK /\ EntriesOK /\ FollowInv

(* The invariant in the parts the proofs of the calls preserve.            *)
LEMMA InvParts == IInv <=> StateInv /\ calls \in 0 .. MaxCalls
BY DEF IInv, TypeOK, StateInv, ProcessesOK, CwdsOK, FdsOK, EntriesOK

(* The command alone, in the directory Command::exec has changed to.       *)
LEMMA InitIInv == Init => IInv
<1> SUFFICES ASSUME Init PROVE IInv
  OBVIOUS
<1>1. PICK start \in StartCwds :
        /\ alive = {Command}
        /\ parent = [p \in Procs |-> 0]
        /\ kernelCwd = [p \in Procs |-> IF p = Command /\ ~Emulated(start) THEN start ELSE CallerCwd]
        /\ fds = [p \in Procs |-> <<>>] /\ mountFds = [p \in Procs |-> <<>>]
        /\ virtual_cwds = [p \in {Command} |-> start]
        /\ directories = <<>>
        /\ mountCwd = [p \in Procs |-> start]
        /\ followed = {Command}
        /\ calls = 0
  BY DEF Init
<1>2. /\ start \in Path /\ ResolveProjected(View, start) \in HostDirs
      /\ Command \in Procs /\ CallerCwd \in HostDirs /\ MaxCalls \in Nat
  BY GuestAssumption
<1>3. ~Emulated(start) => start \in HostDirs
  BY <1>2 DEF Emulated
<1>4. DOMAIN <<>> = {}
  OBVIOUS
<1>5. ProcessesOK
  BY <1>1, <1>2 DEF ProcessesOK
<1>6. CwdsOK
  BY <1>1, <1>2, <1>3 DEF CwdsOK
<1>7. FdsOK
  BY <1>1, <1>4 DEF FdsOK
<1>8. EntriesOK
  BY <1>1, <1>4 DEF EntriesOK
<1>9. FollowInv
  BY <1>1, <1>2 DEF FollowInv
<1> QED
  BY <1>1, <1>2, <1>5, <1>6, <1>7, <1>8, <1>9, InvParts DEF StateInv

-------------------------------------------------------------------------------
(* A new descriptor and perhaps its entry; nobody's cwd changes.           *)
LEMMA OpenDirectoryInv ==
  ASSUME IInv, NEW p \in Procs, NEW fd \in Fds, NEW arg \in Args, OpenDirectory(p, fd, arg)
  PROVE  StateInv'
<1> DEFINE guest == Spelled(CwdBase(p), arg)
           host  == Landing(CwdBase(p), kernelCwd[p], arg)
           name  == Spelled(mountCwd[p], arg)
<1>1. StateInv /\ TypeOK
  BY InvParts DEF IInv
<1>2. /\ IsDir(host)
      /\ fds' = [fds EXCEPT ![p] = Put(fds[p], fd, host)]
      /\ mountFds' = [mountFds EXCEPT ![p] = Put(mountFds[p], fd, name)]
      /\ \/ directories' = Put(directories, <<p, fd>>, guest)
         \/ directories' = directories
      /\ UNCHANGED <<alive, parent, kernelCwd, virtual_cwds, mountCwd, followed>>
  BY DEF OpenDirectory
<1>3. guest \in Path /\ name \in Path /\ host \in HostDirs
  BY <1>1, <1>2, CwdBaseIs, SpelledType DEF StateInv, CwdsOK, IsDir
<1> HIDE DEF guest, name, host
<1>4. ProcessesOK'
  BY <1>1, <1>2 DEF StateInv, ProcessesOK
<1>5. CwdsOK'
  BY <1>1, <1>2 DEF StateInv, CwdsOK
<1>6. FdsOK'
  <2>1. SUFFICES ASSUME NEW q \in Procs
                 PROVE  /\ DOMAIN fds'[q] \subseteq Fds /\ DOMAIN mountFds'[q] = DOMAIN fds'[q]
                        /\ \A n \in DOMAIN fds'[q] : fds'[q][n] \in HostDirs /\ mountFds'[q][n] \in Path
    BY <1>1, <1>2 DEF StateInv, FdsOK
  <2>2. CASE q # p
    <3>1. fds'[q] = fds[q] /\ mountFds'[q] = mountFds[q]
      BY <1>1, <1>2, <2>2 DEF StateInv, FdsOK
    <3> QED
      BY <1>1, <3>1 DEF StateInv, FdsOK
  <2>3. CASE q = p
    <3>1. fds'[q] = Put(fds[p], fd, host) /\ mountFds'[q] = Put(mountFds[p], fd, name)
      BY <1>1, <1>2, <2>3 DEF StateInv, FdsOK
    <3> QED
      BY <1>1, <1>3, <3>1 DEF StateInv, FdsOK, Put
  <2> QED
    BY <2>2, <2>3
<1>7. EntriesOK'
  <2>1. DOMAIN directories' \subseteq Procs \X Fds
    BY <1>1, <1>2 DEF StateInv, EntriesOK, Put
  <2>2. \A key \in DOMAIN directories' : directories'[key] \in Path
    BY <1>1, <1>2, <1>3 DEF StateInv, EntriesOK, Put
  <2> QED
    BY <2>1, <2>2 DEF EntriesOK
<1>8. FollowInv'
  BY <1>1, <1>2 DEF StateInv, FollowInv
<1> QED
  BY <1>4, <1>5, <1>6, <1>7, <1>8 DEF StateInv

(* A descriptor less, its entry left behind.                               *)
LEMMA CloseInv ==
  ASSUME IInv, NEW p \in Procs, NEW fd \in Fds, Close(p, fd)
  PROVE  StateInv'
<1>1. StateInv
  BY InvParts
<1>2. /\ fd \in DOMAIN fds[p]
      /\ fds' = [fds EXCEPT ![p] = WithoutKey(fds[p], fd)]
      /\ mountFds' = [mountFds EXCEPT ![p] = WithoutKey(mountFds[p], fd)]
      /\ UNCHANGED <<alive, parent, kernelCwd, virtual_cwds, directories, mountCwd, followed>>
  BY DEF Close, supervisorVars
<1>3. ProcessesOK' /\ CwdsOK' /\ EntriesOK'
  BY <1>1, <1>2 DEF StateInv, ProcessesOK, CwdsOK, EntriesOK
<1>4. FdsOK'
  <2>1. SUFFICES ASSUME NEW q \in Procs
                 PROVE  /\ DOMAIN fds'[q] \subseteq Fds /\ DOMAIN mountFds'[q] = DOMAIN fds'[q]
                        /\ \A n \in DOMAIN fds'[q] : fds'[q][n] \in HostDirs /\ mountFds'[q][n] \in Path
    BY <1>1, <1>2 DEF StateInv, FdsOK
  <2>2. CASE q # p
    <3>1. fds'[q] = fds[q] /\ mountFds'[q] = mountFds[q]
      BY <1>1, <1>2, <2>2 DEF StateInv, FdsOK
    <3> QED
      BY <1>1, <3>1 DEF StateInv, FdsOK
  <2>3. CASE q = p
    <3>1. fds'[q] = WithoutKey(fds[p], fd) /\ mountFds'[q] = WithoutKey(mountFds[p], fd)
      BY <1>1, <1>2, <2>3 DEF StateInv, FdsOK
    <3> QED
      BY <1>1, <3>1 DEF StateInv, FdsOK, WithoutKey
  <2> QED
    BY <2>2, <2>3
<1>5. FollowInv'
  BY <1>1, <1>2 DEF StateInv, FollowInv
<1> QED
  BY <1>3, <1>4, <1>5 DEF StateInv

(* An entry less.                                                          *)
LEMMA ForgetEntry ==
  ASSUME EntriesOK, NEW key, directories' = WithoutKey(directories, key)
  PROVE  EntriesOK'
BY DEF EntriesOK, WithoutKey

(* A listing of a descriptor that no longer matches its entry drops it.    *)
LEMMA ReadDirectoryInv ==
  ASSUME IInv, NEW p \in Procs, NEW fd \in Fds, ReadDirectory(p, fd)
  PROVE  StateInv'
<1>1. StateInv
  BY InvParts
<1>2. /\ directories' = WithoutKey(directories, <<p, fd>>)
      /\ UNCHANGED <<alive, parent, kernelCwd, fds, virtual_cwds, mountCwd, mountFds, followed>>
  BY DEF ReadDirectory, kernelVars, mountVars
<1>3. ProcessesOK' /\ CwdsOK' /\ FdsOK'
  BY <1>1, <1>2 DEF StateInv, ProcessesOK, CwdsOK, FdsOK
<1>4. EntriesOK'
  BY <1>1, <1>2, ForgetEntry DEF StateInv
<1>5. FollowInv'
  BY <1>1, <1>2 DEF StateInv, FollowInv
<1> QED
  BY <1>3, <1>4, <1>5 DEF StateInv

-------------------------------------------------------------------------------
(* What a change of one process's cwd has to leave: another process keeps  *)
(* what it had, and this one, if it is followed, has its entry, its cwd    *)
(* under mounts and, unless it is emulated, its kernel cwd in step.        *)
LEMMA CwdChange ==
  ASSUME StateInv, NEW p \in Procs, p \in alive,
         NEW v, NEW k, NEW m \in Path,
         v \in Path, k \in HostDirs,
         virtual_cwds' = Put(virtual_cwds, p, v),
         kernelCwd' = [kernelCwd EXCEPT ![p] = k],
         mountCwd' = [mountCwd EXCEPT ![p] = m],
         followed' \subseteq followed \cup {p},
         p \in followed' => v = m /\ (~Emulated(v) => k = v),
         UNCHANGED alive
  PROVE  CwdsOK' /\ FollowInv'
<1>1. CwdsOK'
  <2>1. kernelCwd' \in [Procs -> HostDirs] /\ mountCwd' \in [Procs -> Path]
    BY DEF StateInv, CwdsOK
  <2>2. DOMAIN virtual_cwds' \subseteq Procs
    BY DEF StateInv, CwdsOK, Put
  <2>3. \A q \in DOMAIN virtual_cwds' : virtual_cwds'[q] \in Path
    BY DEF StateInv, CwdsOK, Put
  <2> QED
    BY <2>1, <2>2, <2>3 DEF CwdsOK
<1>2. FollowInv'
  <2>1. SUFFICES ASSUME NEW q \in followed'
                 PROVE  /\ q \in alive /\ q \in DOMAIN virtual_cwds'
                        /\ virtual_cwds'[q] = mountCwd'[q]
                        /\ ~Emulated(virtual_cwds'[q]) => kernelCwd'[q] = virtual_cwds'[q]
    BY DEF FollowInv, Emulated
  <2>2. CASE q = p
    <3>1. virtual_cwds'[q] = v /\ q \in DOMAIN virtual_cwds'
      BY <2>2 DEF Put
    <3>2. kernelCwd'[q] = k /\ mountCwd'[q] = m
      BY <2>2 DEF StateInv, CwdsOK
    <3> QED
      BY <2>1, <2>2, <3>1, <3>2
  <2>3. CASE q # p
    <3>1. q \in followed /\ q \in Procs
      BY <2>1, <2>3 DEF StateInv, ProcessesOK
    <3>2. /\ q \in alive /\ q \in DOMAIN virtual_cwds
          /\ virtual_cwds[q] = mountCwd[q]
          /\ ~Emulated(virtual_cwds[q]) => kernelCwd[q] = virtual_cwds[q]
      BY <3>1 DEF StateInv, FollowInv
    <3>3. virtual_cwds'[q] = virtual_cwds[q] /\ q \in DOMAIN virtual_cwds'
      BY <2>3, <3>2 DEF Put
    <3>4. kernelCwd'[q] = kernelCwd[q] /\ mountCwd'[q] = mountCwd[q]
      BY <2>3, <3>1 DEF StateInv, CwdsOK
    <3> QED
      BY <3>2, <3>3, <3>4
  <2> QED
    BY <2>2, <2>3
<1> QED
  BY <1>1, <1>2

(* While the entry is not emulated the kernel starts relative paths where  *)
(* the supervisor does; where it is, only an absolute path or one that     *)
(* stays emulated keeps the two in step.                                   *)
LEMMA ChdirInv ==
  ASSUME IInv, NEW p \in Procs, NEW arg \in Args, Chdir(p, arg)
  PROVE  StateInv'
<1> DEFINE base   == CwdBase(p)
           guest  == Spelled(base, arg)
           host   == ResolveProjected(View, guest)
           kernel == Spelled(kernelCwd[p], arg)
           mount  == Spelled(mountCwd[p], arg)
           InStep == arg.absolute \/ (p \in followed /\ (Emulated(guest) \/ ~Emulated(base)))
           k == IF IsDir(kernel) THEN kernel ELSE kernelCwd[p]
           m == IF IsGuestDir(mount) THEN mount ELSE mountCwd[p]
<1>1. StateInv /\ TypeOK
  BY InvParts DEF IInv
<1>2. /\ p \in alive
      /\ mountCwd' = [mountCwd EXCEPT ![p] = m]
      /\ UNCHANGED <<alive, parent, fds, directories, mountFds>>
  BY DEF Chdir, MountChdir
<1>3. /\ kernelCwd \in [Procs -> HostDirs] /\ mountCwd \in [Procs -> Path]
      /\ kernelCwd[p] \in HostDirs /\ kernelCwd[p] \in Path /\ mountCwd[p] \in Path
  BY <1>1, GuestAssumption DEF StateInv, CwdsOK
<1>4. guest \in Path /\ mount \in Path /\ m \in Path /\ k \in HostDirs
  BY <1>1, <1>3, CwdBaseIs, SpelledType DEF IsDir
<1>5. /\ arg.absolute => guest = mount /\ guest = kernel
      /\ p \in followed => /\ base = mountCwd[p] /\ guest = mount
                           /\ ~Emulated(base) => kernelCwd[p] = base /\ guest = kernel
  <2>1. arg.absolute => guest = mount /\ guest = kernel
    BY DEF Spelled
  <2>2. p \in followed => /\ base = mountCwd[p]
                          /\ ~Emulated(base) => kernelCwd[p] = base
    BY <1>1, CwdBaseIs DEF StateInv, FollowInv
  <2> QED
    BY <2>1, <2>2
<1>6. /\ ~Projects(View, guest) => host = guest /\ ~Emulated(guest)
      /\ host = guest <=> ~Emulated(guest)
  BY DEF ResolveProjected, Emulated
<1>7. InStep => guest = mount /\ (~Emulated(guest) => guest = kernel)
  BY <1>5
<1>8. FdsOK' /\ EntriesOK'
  BY <1>1, <1>2 DEF StateInv, FdsOK, EntriesOK
<1>9. IsGuestDir(guest) <=> IsDir(host)
  BY DEF IsGuestDir
<1>10. CASE /\ ~Projects(View, guest)
            /\ Remember(p, guest) /\ KernelChdir(p, kernel)
            /\ Follow(p, InStep /\ IsDir(kernel))
  <2>1. virtual_cwds' = Put(virtual_cwds, p, guest) /\ kernelCwd' = [kernelCwd EXCEPT ![p] = k]
    BY <1>10 DEF Remember, KernelChdir
  <2>2. followed' \subseteq followed \cup {p} /\ (p \in followed' => InStep /\ IsDir(kernel))
    BY <1>10 DEF Follow
  <2>3. p \in followed' => guest = m /\ (~Emulated(guest) => k = guest)
    <3>1. ASSUME p \in followed' PROVE guest = m /\ k = guest
      <4>1. guest = mount /\ guest = kernel /\ IsDir(kernel) /\ host = guest
        BY <1>6, <1>7, <1>10, <2>2, <3>1
      <4>2. IsGuestDir(mount)
        BY <1>9, <4>1
      <4> QED
        BY <4>1, <4>2
    <3> QED
      BY <3>1
  <2> HIDE DEF k, m, guest
  <2>4. CwdsOK' /\ FollowInv'
    BY <1>1, <1>2, <1>4, <2>1, <2>2, <2>3, CwdChange
  <2>5. ProcessesOK'
    BY <1>1, <1>2, <2>2 DEF StateInv, ProcessesOK
  <2> QED
    BY <1>8, <2>4, <2>5 DEF StateInv
<1>11. CASE /\ Projects(View, guest) /\ IsDir(host)
            /\ Remember(p, guest)
            /\ IF host = guest THEN KernelChdir(p, kernel) ELSE UNCHANGED kernelCwd
            /\ Follow(p, InStep)
  <2> DEFINE l == IF host = guest THEN k ELSE kernelCwd[p]
  <2>1. virtual_cwds' = Put(virtual_cwds, p, guest) /\ kernelCwd' = [kernelCwd EXCEPT ![p] = l]
    BY <1>3, <1>11 DEF Remember, KernelChdir
  <2>2. followed' \subseteq followed \cup {p} /\ (p \in followed' => InStep)
    BY <1>11 DEF Follow
  <2>3. l \in HostDirs
    BY <1>3, <1>4
  <2>4. ASSUME p \in followed' PROVE guest = m /\ (~Emulated(guest) => l = guest)
    <3>1. guest = mount /\ (~Emulated(guest) => guest = kernel)
      BY <1>7, <2>2, <2>4
    <3>2. IsGuestDir(mount)
      BY <1>9, <1>11, <3>1
    <3>3. ~Emulated(guest) => IsDir(kernel)
      BY <1>6, <1>11, <3>1
    <3> QED
      BY <1>6, <3>1, <3>2, <3>3
  <2> HIDE DEF l, m, guest
  <2>5. CwdsOK' /\ FollowInv'
    BY <1>1, <1>2, <1>4, <2>1, <2>2, <2>3, <2>4, CwdChange
  <2>6. ProcessesOK'
    BY <1>1, <1>2, <2>2 DEF StateInv, ProcessesOK
  <2> QED
    BY <1>8, <2>5, <2>6 DEF StateInv
<1>12. CASE /\ Projects(View, guest) /\ ~IsDir(host)
            /\ UNCHANGED <<virtual_cwds, kernelCwd, followed>>
  <2>1. p \in followed => m = mountCwd[p]
    BY <1>5, <1>9, <1>12
  <2> HIDE DEF m
  <2>2. CwdsOK'
    BY <1>1, <1>2, <1>4, <1>12 DEF StateInv, CwdsOK
  <2>3. \A q \in followed : mountCwd'[q] = mountCwd[q]
    BY <1>1, <1>2, <1>3, <2>1 DEF StateInv, ProcessesOK
  <2>4. FollowInv'
    BY <1>1, <1>2, <1>12, <2>3 DEF StateInv, FollowInv, Emulated
  <2>5. ProcessesOK'
    BY <1>1, <1>2, <1>12 DEF StateInv, ProcessesOK
  <2> QED
    BY <1>8, <2>2, <2>4, <2>5 DEF StateInv
<1> QED
  BY <1>10, <1>11, <1>12 DEF Chdir

(* A live entry names the directory the descriptor is open on; without one *)
(* the process is not followed any longer.                                 *)
LEMMA FchdirInv ==
  ASSUME IInv, NEW p \in Procs, NEW fd \in Fds, Fchdir(p, fd)
  PROVE  StateInv'
<1> DEFINE guest == directories[<<p, fd>>]
           host  == fds[p][fd]
           name  == mountFds[p][fd]
           m == IF IsGuestDir(name) THEN name ELSE mountCwd[p]
<1>1. StateInv
  BY InvParts
<1>2. /\ p \in alive /\ fd \in DOMAIN fds[p]
      /\ mountCwd' = [mountCwd EXCEPT ![p] = m]
      /\ UNCHANGED <<alive, parent, fds, mountFds>>
  BY DEF Fchdir, MountChdir
<1>3. /\ kernelCwd \in [Procs -> HostDirs] /\ mountCwd \in [Procs -> Path]
      /\ kernelCwd[p] \in HostDirs /\ mountCwd[p] \in Path
      /\ host \in HostDirs /\ name \in Path /\ m \in Path
  BY <1>1, <1>2 DEF StateInv, CwdsOK, FdsOK
<1>4. FdsOK'
  BY <1>1, <1>2 DEF StateInv, FdsOK
<1>5. CASE /\ DirectoryFdMatches(p, fd)
           /\ Remember(p, guest)
           /\ IF Emulated(guest) THEN UNCHANGED kernelCwd ELSE KernelChdir(p, host)
           /\ Follow(p, guest = name)
           /\ UNCHANGED directories
  <2> DEFINE k == IF Emulated(guest) THEN kernelCwd[p] ELSE host
  <2>1. guest \in Path /\ ResolveProjected(View, guest) = host
    BY <1>1, <1>5 DEF DirectoryFdMatches, StateInv, EntriesOK
  <2>2. IsGuestDir(guest) /\ IsDir(host) /\ k \in HostDirs
    BY <1>3, <2>1 DEF IsGuestDir, IsDir
  <2>3. virtual_cwds' = Put(virtual_cwds, p, guest) /\ kernelCwd' = [kernelCwd EXCEPT ![p] = k]
    BY <1>3, <1>5, <2>2 DEF Remember, KernelChdir
  <2>4. followed' \subseteq followed \cup {p} /\ (p \in followed' => guest = name)
    BY <1>5 DEF Follow
  <2>5. p \in followed' => guest = m /\ (~Emulated(guest) => k = guest)
    BY <2>1, <2>2, <2>4 DEF Emulated
  <2> HIDE DEF k, m, guest
  <2>6. CwdsOK' /\ FollowInv'
    BY <1>1, <1>2, <1>3, <2>1, <2>2, <2>3, <2>4, <2>5, CwdChange
  <2>7. ProcessesOK' /\ EntriesOK'
    BY <1>1, <1>2, <1>5, <2>4 DEF StateInv, ProcessesOK, EntriesOK
  <2> QED
    BY <1>4, <2>6, <2>7 DEF StateInv
<1>6. CASE /\ ~DirectoryFdMatches(p, fd)
           /\ KernelChdir(p, host)
           /\ Follow(p, FALSE)
           /\ directories' = WithoutKey(directories, <<p, fd>>)
           /\ UNCHANGED virtual_cwds
  <2>1. kernelCwd' = [kernelCwd EXCEPT ![p] = host]
    BY <1>3, <1>6 DEF KernelChdir, IsDir
  <2>2. followed' = followed \ {p}
    BY <1>6 DEF Follow
  <2> HIDE DEF m
  <2>3. CwdsOK'
    BY <1>1, <1>2, <1>3, <1>6, <2>1 DEF StateInv, CwdsOK
  <2>4. \A q \in followed' : /\ q \in followed
                             /\ kernelCwd'[q] = kernelCwd[q] /\ mountCwd'[q] = mountCwd[q]
    BY <1>1, <1>2, <1>3, <2>1, <2>2 DEF StateInv, ProcessesOK
  <2>5. FollowInv'
    BY <1>1, <1>2, <1>6, <2>4 DEF StateInv, FollowInv, Emulated
  <2>6. ProcessesOK'
    BY <1>1, <1>2, <2>2 DEF StateInv, ProcessesOK
  <2>7. EntriesOK'
    BY <1>1, <1>6, ForgetEntry DEF StateInv
  <2> QED
    BY <1>4, <2>3, <2>5, <2>6, <2>7 DEF StateInv
<1> QED
  BY <1>5, <1>6 DEF Fchdir

-------------------------------------------------------------------------------
(* A child is not followed before it has changed its cwd itself, so that   *)
(* what an earlier process of its id left behind does not count.           *)
LEMMA ForkInv ==
  ASSUME IInv, NEW p \in Procs, NEW child \in Procs, Fork(p, child)
  PROVE  StateInv'
<1>1. StateInv
  BY InvParts
<1>2. /\ p \in alive /\ child \notin alive
      /\ alive' = alive \cup {child}
      /\ parent' = [parent EXCEPT ![child] = p]
      /\ kernelCwd' = [kernelCwd EXCEPT ![child] = kernelCwd[p]]
      /\ fds' = [fds EXCEPT ![child] = fds[p]]
      /\ mountFds' = [mountFds EXCEPT ![child] = mountFds[p]]
      /\ mountCwd' = [mountCwd EXCEPT ![child] = mountCwd[p]]
      /\ followed' = followed \ {child}
      /\ UNCHANGED <<virtual_cwds, directories>>
  BY DEF Fork, supervisorVars
<1>3. ProcessesOK'
  BY <1>1, <1>2 DEF StateInv, ProcessesOK
<1>4. CwdsOK'
  BY <1>1, <1>2 DEF StateInv, CwdsOK
<1>5. FdsOK'
  <2>1. \A q \in Procs : /\ fds'[q] = IF q = child THEN fds[p] ELSE fds[q]
                         /\ mountFds'[q] = IF q = child THEN mountFds[p] ELSE mountFds[q]
    BY <1>1, <1>2 DEF StateInv, FdsOK
  <2>2. DOMAIN fds' = Procs /\ DOMAIN mountFds' = Procs
    BY <1>1, <1>2 DEF StateInv, FdsOK
  <2> QED
    BY <1>1, <2>1, <2>2 DEF StateInv, FdsOK
<1>6. EntriesOK'
  BY <1>1, <1>2 DEF StateInv, EntriesOK
<1>7. \A q \in followed' : /\ q \in followed /\ q \in alive'
                           /\ kernelCwd'[q] = kernelCwd[q] /\ mountCwd'[q] = mountCwd[q]
  BY <1>1, <1>2 DEF StateInv, ProcessesOK, CwdsOK, FollowInv
<1>8. FollowInv'
  BY <1>1, <1>2, <1>7 DEF StateInv, FollowInv, Emulated
<1> QED
  BY <1>3, <1>4, <1>5, <1>6, <1>8 DEF StateInv

(* What ends is not followed; its entries stay.                            *)
LEMMA ExitInv ==
  ASSUME IInv, NEW p \in Procs, Exit(p)
  PROVE  StateInv'
<1>1. StateInv
  BY InvParts
<1>2. /\ alive' = alive \ {p}
      /\ parent' = [q \in Procs |-> IF q = p \/ parent[q] = p THEN 0 ELSE parent[q]]
      /\ fds' = [fds EXCEPT ![p] = <<>>] /\ mountFds' = [mountFds EXCEPT ![p] = <<>>]
      /\ followed' = followed \ {p}
      /\ UNCHANGED <<kernelCwd, virtual_cwds, directories, mountCwd>>
  BY DEF Exit, supervisorVars
<1>3. ProcessesOK'
  BY <1>1, <1>2 DEF StateInv, ProcessesOK
<1>4. CwdsOK' /\ EntriesOK'
  BY <1>1, <1>2 DEF StateInv, CwdsOK, EntriesOK
<1>5. FdsOK'
  <2>1. \A q \in Procs : /\ fds'[q] = IF q = p THEN <<>> ELSE fds[q]
                         /\ mountFds'[q] = IF q = p THEN <<>> ELSE mountFds[q]
    BY <1>1, <1>2 DEF StateInv, FdsOK
  <2>2. DOMAIN fds' = Procs /\ DOMAIN mountFds' = Procs /\ DOMAIN <<>> = {}
    BY <1>1, <1>2 DEF StateInv, FdsOK
  <2> QED
    BY <1>1, <2>1, <2>2 DEF StateInv, FdsOK
<1>6. FollowInv'
  BY <1>1, <1>2 DEF StateInv, FollowInv, Emulated
<1> QED
  BY <1>3, <1>4, <1>5, <1>6 DEF StateInv

(* Every step keeps the invariant.                                         *)
LEMMA NextIInv == IInv /\ [Next]_vars => IInv'
<1>1. SUFFICES ASSUME IInv, [Next]_vars PROVE IInv'
  OBVIOUS
<1>2. CASE UNCHANGED vars
  <2>1. UNCHANGED <<alive, parent, kernelCwd, fds, virtual_cwds, directories,
                    mountCwd, mountFds, followed, calls>>
    BY <1>2 DEF vars, kernelVars, supervisorVars, mountVars
  <2>2. TypeOK'
    BY <1>1, <2>1 DEF IInv, TypeOK
  <2>3. FollowInv'
    BY <1>1, <2>1 DEF IInv, FollowInv, Emulated
  <2> QED
    BY <2>2, <2>3 DEF IInv
<1>3. ASSUME calls < MaxCalls, calls' = calls + 1, NEW p \in Procs, Call(p) PROVE IInv'
  <2>1. calls' \in 0 .. MaxCalls
    BY <1>1, <1>3, GuestAssumption DEF IInv, TypeOK
  <2>2. StateInv'
    BY <1>1, <1>3, OpenDirectoryInv, CloseInv, ReadDirectoryInv, ChdirInv, FchdirInv,
       ForkInv, ExitInv DEF Call
  <2>3. TypeOK'
    BY <2>1, <2>2 DEF StateInv, TypeOK, ProcessesOK, CwdsOK, FdsOK, EntriesOK
  <2>4. FollowInv'
    BY <2>2 DEF StateInv
  <2> QED
    BY <2>3, <2>4 DEF IInv
<1>4. CASE BoundReached
  BY <1>2, <1>4 DEF BoundReached
<1> QED
  BY <1>1, <1>2, <1>3, <1>4 DEF Next

(* Whatever calls are made by whatever processes, the invariant holds.     *)
THEOREM Inductive == Spec => []IInv
BY InitIInv, NextIInv, PTL DEF Spec

-------------------------------------------------------------------------------
(* Every cwd, descriptor and entry is a normalized path, every host path   *)
(* in them a directory.                                                    *)
THEOREM TypeCorrectness == Spec => []TypeOK
<1>1. IInv => TypeOK
  BY DEF IInv
<1> QED
  BY <1>1, Inductive, PTL

(* getcwd of a followed process answers what real mounts would answer.     *)
THEOREM FollowedCwd == Spec => []FollowedCwdIsGuestCwd
<1>1. IInv => FollowedCwdIsGuestCwd
  <2>1. SUFFICES ASSUME IInv, NEW p \in followed PROVE SeenCwd(p) = mountCwd[p]
    BY DEF FollowedCwdIsGuestCwd
  <2>2. p \in Procs /\ TypeOK /\ p \in DOMAIN virtual_cwds /\ virtual_cwds[p] = mountCwd[p]
    BY <2>1 DEF IInv, TypeOK, FollowInv
  <2> QED
    BY <2>2, CwdBaseIs
<1> QED
  BY <1>1, Inductive, PTL

(* Its relative paths reach the file they would reach under real mounts,   *)
(* by the supervisor's hand or the kernel's, unless they climb out of an   *)
(* emulated directory to where no destination is.                          *)
THEOREM FollowedPaths == Spec => []FollowedRelativePathsLand
<1>1. IInv => FollowedRelativePathsLand
  <2>1. SUFFICES ASSUME IInv, NEW p \in followed, NEW arg \in Args,
                        Projects(View, Spelled(CwdBase(p), arg)) \/ ~Emulated(CwdBase(p))
                 PROVE  Landing(CwdBase(p), kernelCwd[p], arg)
                          = ResolveProjected(View, Spelled(mountCwd[p], arg))
    BY DEF FollowedRelativePathsLand
  <2>2. /\ p \in Procs /\ TypeOK /\ p \in DOMAIN virtual_cwds
        /\ virtual_cwds[p] = mountCwd[p]
        /\ ~Emulated(virtual_cwds[p]) => kernelCwd[p] = virtual_cwds[p]
    BY <2>1 DEF IInv, TypeOK, FollowInv
  <2>3. CwdBase(p) = mountCwd[p] /\ (~Emulated(CwdBase(p)) => kernelCwd[p] = CwdBase(p))
    BY <2>2, CwdBaseIs
  <2>4. CASE Projects(View, Spelled(CwdBase(p), arg))
    BY <2>3, <2>4 DEF Landing
  <2>5. CASE ~Projects(View, Spelled(CwdBase(p), arg))
    BY <2>1, <2>3, <2>5 DEF Landing, ResolveProjected
  <2> QED
    BY <2>4, <2>5
<1> QED
  BY <1>1, Inductive, PTL

-------------------------------------------------------------------------------
(* A path that descends from a directory is the directory's followed by    *)
(* what is written, without its dots.                                      *)
LEMMA SpelledBelow ==
  ASSUME NEW base \in Path, NEW arg \in Args, Descends(arg)
  PROVE  /\ Normalize(arg.path) \in Path
         /\ Spelled(base, arg) = base \o Normalize(arg.path)
<1>1. arg.path \in Written /\ ~arg.absolute /\ DotDot \notin Range(arg.path)
  BY GuestAssumption DEF Arg, Descends
<1> QED
  BY <1>1, NormalizeType, NormalizeBelow DEF Spelled

(* The projection that backs a path below a directory either starts below  *)
(* the directory or backs the directory, too, and then the path leads      *)
(* below the directory's host path.                                        *)
LEMMA BackedTogether ==
  ASSUME NEW guest \in Path, NEW names \in Path,
         NEW i, Selects(View, i, guest \o names)
  PROVE  \/ IsStrictPrefix(guest, View[i].destination)
         \/ ResolveBelow(View[i], guest \o names) = ResolveProjected(View, guest) \o names
<1> DEFINE path == guest \o names
           dest == View[i].destination
           rest == SubSeq(guest, Len(dest) + 1, Len(guest))
<1>1. /\ path \in Path /\ IsPrefix(guest, path)
      /\ i \in DOMAIN View /\ dest \in Path /\ View[i].source \in Path /\ IsPrefix(dest, path)
  <2>1. path \in Path /\ IsPrefix(guest, path)
    BY PrefixOfConcat
  <2>2. i \in DOMAIN View /\ IsPrefix(dest, path)
    BY DEF Selects, Covers
  <2>3. View[i] \in Projections
    BY <2>2, ViewType
  <2> QED
    BY <2>1, <2>2, <2>3 DEF Projections
<1>2. CASE IsPrefix(guest, dest) /\ guest # dest
  BY <1>2 DEF IsStrictPrefix
<1>3. CASE IsPrefix(dest, guest)
  <2>1. rest \in Path /\ guest = dest \o rest
    BY <1>1, <1>3, PrefixSplits
  <2>2. Selects(View, i, guest)
    <3>1. ~IsReserved(guest)
      <4>1. SUFFICES ASSUME guest # Root PROVE path # Root /\ Head(path) = Head(guest)
        BY DEF IsReserved, Selects
      <4> QED
        BY <4>1 DEF Path, Root
    <3>2. ASSUME NEW earlier \in DOMAIN View, earlier < i PROVE ~Covers(View[earlier], guest)
      <4>1. View[earlier] \in Projections
        BY <3>2, ViewType
      <4>2. ~IsPrefix(View[earlier].destination, path)
        BY <3>2 DEF Selects, Covers
      <4>3. View[earlier].destination \in Path
        BY <4>1 DEF Projections
      <4> HIDE DEF path
      <4> QED
        BY <1>1, <4>2, <4>3, PrefixTransitive DEF Covers
    <3> QED
      BY <1>1, <1>3, <3>1, <3>2 DEF Selects, Covers
  <2>3. ResolveProjected(View, guest) = View[i].source \o rest
    BY <2>2, GuestAssumption, ResolvesBelow DEF ResolveBelow
  <2>4. SubSeq(path, Len(dest) + 1, Len(path)) = rest \o names
    <3>1. rest \o names \in Path /\ path = dest \o (rest \o names)
      <4>1. dest \in Seq(Names) /\ rest \in Seq(Names) /\ names \in Seq(Names)
        BY <1>1, <2>1 DEF Path
      <4> HIDE DEF dest, rest
      <4> QED
        BY <2>1, <4>1, ConcatAssociative DEF Path
    <3> HIDE DEF dest, rest, path
    <3> QED
      BY <1>1, <3>1, PrefixOfConcat
  <2>5. View[i].source \o (rest \o names) = (View[i].source \o rest) \o names
    <3>1. View[i].source \in Seq(Names) /\ rest \in Seq(Names) /\ names \in Seq(Names)
      BY <1>1, <2>1 DEF Path
    <3> DEFINE source == View[i].source
    <3> HIDE DEF rest, source
    <3>2. source \in Seq(Names)
      BY <3>1 DEF source
    <3>3. \A a, b, c \in Seq(Names) : a \o (b \o c) = (a \o b) \o c
      BY ConcatAssociative
    <3>4. source \o (rest \o names) = (source \o rest) \o names
      BY <3>1, <3>2, <3>3, Zenon
    <3> QED
      BY <3>4 DEF source
  <2> QED
    BY <2>3, <2>4, <2>5 DEF ResolveBelow
<1> QED
  <2>1. IsPrefix(guest, dest) \/ IsPrefix(dest, guest)
    BY <1>1, PrefixesCompare
  <2> QED
    BY <1>2, <1>3, <2>1

(* Paths relative to a descriptor stay below the directory that is open,   *)
(* in every process that holds it, unless they reach a destination.        *)
THEOREM FdPaths == Spec => []FdRelativePathsLand
<1>1. IInv => FdRelativePathsLand
  <2>1. SUFFICES ASSUME IInv, NEW p \in alive, NEW fd \in DOMAIN fds[p], NEW arg \in Args,
                        Descends(arg), HasGuestName(fds[p][fd])
                 PROVE  LET host  == fds[p][fd]
                            base  == FdBase(p, fd)
                            lands == Landing(base, host, arg)
                        IN /\ ResolveProjected(View, base) = host
                           /\ \/ lands = host \o Normalize(arg.path)
                              \/ \E i \in DOMAIN View :
                                   /\ IsStrictPrefix(base, View[i].destination)
                                   /\ Selects(View, i, Spelled(base, arg))
                                   /\ lands = ResolveBelow(View[i], Spelled(base, arg))
    BY DEF FdRelativePathsLand
  <2> DEFINE host  == fds[p][fd]
             base  == FdBase(p, fd)
             lands == Landing(base, host, arg)
             names == Normalize(arg.path)
  <2>2. TypeOK /\ p \in Procs
    BY <2>1 DEF IInv, TypeOK
  <2>3. host \in Path
    BY <2>2, GuestAssumption DEF TypeOK
  <2>4. base \in Path /\ ResolveProjected(View, base) = host
    <3>1. CASE DirectoryFdMatches(p, fd)
      BY <2>2, <3>1 DEF FdBase, DirectoryFdMatches, TypeOK
    <3>2. CASE ~DirectoryFdMatches(p, fd)
      BY <2>1, <2>3, <3>2, ViewType, VirtualForHostType DEF FdBase, HasGuestName
    <3> QED
      BY <3>1, <3>2
  <2> HIDE DEF base, host
  <2>5. /\ names \in Path /\ Spelled(base, arg) = base \o names
        /\ Spelled(host, arg) = host \o names
    BY <2>1, <2>3, <2>4, SpelledBelow
  <2>6. CASE ~Projects(View, Spelled(base, arg))
    BY <2>4, <2>5, <2>6 DEF Landing, base, host
  <2>7. CASE Projects(View, Spelled(base, arg))
    <3>1. PICK i : i \in DOMAIN View /\ Selects(View, i, base \o names)
      BY <2>5, <2>7 DEF Projects
    <3>2. base \o names \in Path
      BY <2>4, <2>5, PrefixOfConcat
    <3>3. lands = ResolveBelow(View[i], base \o names)
      BY <2>5, <2>7, <3>1, <3>2, ViewType, ResolvesBelow DEF Landing
    <3>4. \/ IsStrictPrefix(base, View[i].destination)
          \/ ResolveBelow(View[i], base \o names) = host \o names
      BY <2>4, <2>5, <3>1, BackedTogether
    <3> QED
      BY <2>4, <2>5, <3>1, <3>3, <3>4 DEF base, host
  <2> QED
    BY <2>6, <2>7
<1> QED
  BY <1>1, Inductive, PTL
===============================================================================
