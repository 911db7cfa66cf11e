# pathshim in TLA+

pathshim runs a command in a view of the file system in which `--bind SOURCE:DEST`
replaces `DEST` by `SOURCE`, without mount privileges: a seccomp filter turns the
command's path syscalls into notifications, and a supervisor thread answers them.
This directory models that program, checks the models with TLC and proves the main
results with TLAPS. Paths below (`main.rs`, `bind.rs`, `linux/...`) are those of
`src/src/`.

## 1. Inventory

| Component | State it keeps | Operations | Talks to |
|---|---|---|---|
| Startup and process lifecycle (`main.rs`, `linux/mod.rs`) | mode, child pid, `CHILD_PROCESS`, installed handlers, stop flag, two socket ends, the listener | `main`, `probe`, `run`, `child_main`, `supervise`, `SignalForwarding`, `stop_attempt`, `exit_with_status` | child by socket, fork, kill, waitpid; supervisor by flag and join; caller by signals and exit status |
| Bind view (`bind.rs`) | the sorted projections | `open`, `reopen`, `resolve_directory`, `create_directory_all`, path mapping in both directions, the file operations | called by main and by every handler |
| Guest cwd and directory descriptors (`linux/dispatch.rs`, `linux/remote.rs`) | `virtual_cwds`, `directories` | `handle_chdir`, `handle_getcwd`, `handle_open`, `resolve_path`, `virtual_cwd`, `directory_fd_matches` | the tracees' syscalls, `/proc/<pid>`, the kernel's own cwd |
| Path operations of the dispatcher (`linux/dispatch.rs`, loop in `linux/mod.rs`) | the notification in hand | open, stat, access, mkdir, unlink, rename, readlink, symlink, truncate, chmod, chown, utimensat | bind view, host file system, the kernel's queue of notifications |
| Directory streams (`handle_getdents`) | entries and cursor of each entry of `directories` | list on open, page out, drop when stale | tracee memory |
| Mapped execution (`linux/execute.rs`) | none; changes the tracee (descriptor, path string) | `execve`, `execveat` | tracee memory, ADDFD |
| Tracee memory (`linux/remote.rs`) | none | bounded reads and writes, `/proc/<pid>/mem` fallback | kernel |
| Seccomp filter (`linux/seccomp.rs`, `linux/sysno.rs`) | none | install, receive, respond, add_fd | kernel |
| Command line (`cli.rs`) | none | `parse` | main |

What is hard, and what makes each part correct:

* **Startup.** Three threads of control in two processes, two one-byte messages that
  decide who starts the command, signals in every window, a timeout that races the
  answer, and a dozen failures that must all degrade to a plain start. Correct means:
  one start at most, one start at least unless something outside prevents it, in the
  mode that was chosen; nothing left behind by an abandoned attempt; no hang; signals
  reach the command and only the command; the command's end becomes pathshim's.
* **Bind view.** Overlapping destinations, shared and nested sources, `..`, refusals
  half way through, and a second opening that must give the same view. Correct means:
  the longest destination decides, a projected path is served by its source alone, the
  reverse mapping leads back.
* **Path operations.** One thread serves every thread of every descendant. A caller may
  die or be interrupted between notification, receipt, effect and answer; a descriptor
  may not fit; the command may end while its descendants still ask. Correct means: each
  call is one atomic call on the mounted file system, answered by what it did.
* **Directory streams.** The caller runs again before its listing is made, numbers are
  closed, duplicated and used again unseen. Correct means: every entry once.
* **Mapped execution.** The supervisor writes into memory that others may share. Correct
  means: what runs is what the path named.
* **Guest cwd.** Two cwds per process, the kernel's and the supervisor's; descriptor and
  process numbers that are used again; calls nobody reports. Correct means: what a real
  bind mount would show.

The hazards behind this, each at its line, are the list `hazards` in `PROJECT.json`.

## 2. Plan

Done, in this order (most important behaviour first):

1. `Startup`, with the abstract contract `Invocation` it implements; `StartupProofs`.
2. `ViewPaths` (the path algebra) and `BindView`, which extends it; `ViewPathsProofs` and
   `BindViewProofs`.
3. `GuestCwd`, which extends `ViewPaths` and takes from `BindView` that a view is sorted
   and has distinct destinations; `GuestCwdProofs`.
4. `HostTree` and `MountTable` (the host and what mounts would make of it),
   `MountedCalls` (the abstract specification of path calls) and `Dispatch`, which
   implements it; `DispatchProofs`.
5. `DirStream`: entries and cursor of an open directory; `DirStreamProofs`.
6. `Execute`: descriptor injection and the rewritten path; `ExecuteProofs`.
7. `Cli`: the parser, one argument at a time, against a grammar; `CliProofs`.
8. The composition: what `BindView` establishes is what the modules of the supervisor
   assume (`SupervisorAssumptions`).

Next: an invariant of `Startup` that carries its liveness properties as far as safety can
(what still has to happen at each position, `StartupDecides`); the abstract contract of a
directory stream, which `DirStream` then implements; a tree that changes under `GuestCwd`.

Everything to be proved about is written without `RECURSIVE` operators; recursion is a
fold or a recursive function.

## 3. Modules

### Invocation

The contract of one invocation in six variables: `mode` is chosen once; the command
starts once at most, in the chosen mode, in passthrough only when the forked process is
gone; pathshim ends as the command ended; a probe exits 0 only for a command that ran in
the view and exited 0. It says nothing of sockets, threads or listeners.

### Startup

`main`, `run` and `exec` of `main.rs`, and all of `linux/mod.rs`. One action is one
syscall or one atomic store another actor can observe.

| Code | Model |
|---|---|
| position in `linux::run`, `child_main`, `supervise` | `ppc`, `cpc`, `spc` |
| whether the final byte was written or `Unavailable` decided | `mode` |
| `Command::current_dir` and `PWD` | `cwd` |
| `SignalForwarding::previous` (how many), `CHILD_PROCESS` | `installed`, `CHILD_PROCESS` |
| the SEQPACKET pair; its ends closed | `toParent`, `toChild`; `ParentEndOpen`, `ChildEndOpen` |
| a seccomp notification of the child | `notif` |
| the listener; without one the kernel answers ENOSYS | `ListenerOpen`, `SyscallRefused` |
| `waitpid` status, and whether the pid is free | `forked`, `pid` |

The caller's choices are constants or initial values: which signals it ignores, whether
it ignores SIGCHLD, `run` or `probe`, a program that can be executed or not. Every call
that can fail has a failing alternative. `SignalPathshim` and `SignalChild` send any
signal, SIGKILL too, at any step. `starts`, `sent`, `captured` and `faults` are history.

### ViewPaths and BindView

A normalized path is the sequence of its names. `ViewPaths` has `normalize_virtual`,
`is_reserved`, `projection_index` (as the relation `Selects`), `resolve_projected`,
`same_projection` and `virtual_for_host`; `Walk` is one round of `normalize_virtual`'s loop. `BindView` is the life of a view: `OpenBind`
is one round of `open`'s loop with its refusals and its `create_dir_all`,
`SortProjections` its end, `ChooseCwd` the choice of the guest cwd in `main` with
`resolve_directory` and `create_directory_all`. The supervisor's `reopen` is an `open` of
what the first one found: `ReopenBind` is a round of it, with the same refusals
(`Refused`), `create_dir_all` and failures (`Takes`), and `SortReopened` its end. The host
is `HostDirs`, `HostFiles` and `links`, what `canonicalize` makes of a path; between the
rounds somebody may change a link (`Relink`, one of `LinkMaps`).

### GuestCwd

One action per call that matters to a cwd or a directory descriptor: `Chdir`, `Fchdir`,
`OpenDirectory`, `ReadDirectory` (only its dropping of a stale entry), and the calls the
filter does not see: `Close`, `Fork`, `Exit`. `virtual_cwds` and `directories` are the
supervisor's maps; `kernelCwd` and `fds` are the kernel's truth; `mountCwd` and
`mountFds` are what real bind mounts would make of the same calls. The properties
compare the three. `followed` marks the processes whose cwd history the supervisor can
follow: the last absolute chdir and all calls since then are of a kind that keeps the
two cwds in step. An untouched descendant is not among them: the README of the program
declares fork-time snapshots best effort. `FdRelativePathsLand` speaks of directories
that have a guest name (`HasGuestName`): one that a destination hides has none, and the
path `virtual_for_host` makes for it leads elsewhere.

### HostTree, MountTable, MountedCalls

`HostTree` is the kernel's side, external to the program: a tree of directories, files,
FIFOs and links, and what each path call does to it and answers. `MountTable` says what
a view stands for without the search of `bind.rs`: the destination with the most
components that covers a path decides, and a call has the effect it has on the paths so
denoted. The comment of `Effect` names where that differs from real mounts: `renameat2`
flags are refused, a source directory can be removed or renamed by way of its
destination, a directory above a destination can be renamed, and the absolute target of a
link is looked up on the host. `MountedCalls` is the promise to the command: a call is
asked, applied in one step with that effect, and returned. What is allowed beyond that is
an action with a name of its own: `Interrupt`, `Die` and `Stray` (a signal handler ran, or
the caller was killed, and what it asked for may still take effect, for nobody),
`OutOfFds`, `Over` and `AskLate` (the command is gone, and with it the supervisor).

### Dispatch

| Code | Model |
|---|---|
| a thread of the command or of a descendant | `pc`, `call`, `result` |
| notifications not yet received | `queue`, in the kernel's order |
| position in `supervise` and in a handler | `sup` |
| the stop flag, which `run` raises when the command has ended | `stop` |
| the notification in hand, and whether the kernel still knows it | `caller`, `live`, `served` |
| what the handler will answer | `reply` |
| the handlers' checks of `projects`, and their early returns | `Route`, `RouteRename`; `ServeElsewhere` |
| `state.view.mkdir` ..., `libc::open` ... on the resolved path | `OnSource` |

`Receive`, `ReadPath`, `ServeOnSource`, `AddFd`, `Answer` are the steps of the loop;
between any two of them a tracee may run, die (`Exit`) or be interrupted (`Interrupt`),
which withdraws its notification. The supervisor notices a death when it reads the
caller's memory (`ServeGone`), and a withdrawn notification when it answers. It asks for
neither before the host call, so that a caller killed or interrupted after `ReadPath` has
its call performed all the same. A continued call is the kernel's own step. `blocked` is the open of a FIFO.
`MountedStage`, `MountedAnswer` and `MountedStray` map a state to one of `MountedCalls`.

### DirStream

One process with threads, descriptor numbers and open files. `ServeOpen` hands out the
descriptor and lets the caller go; `List` makes the entry afterwards, so that the number
may already mean something else. `ServeRead` moves the cursor, `Answer` delivers,
`AnswerIsLost` does not. `Close`, `Dup2` and `Rewind` pass the filter. `got`, `ended` and
`spoiled` are history: what the readers of an open file were given, whether they saw the
end, and whether the stream was disturbed in a way the code does not handle.

### Execute

Tasks use a memory and a descriptor table each, which `layout` may make the same. The
supervisor's steps are `Receive`, `OpenExecutable`, `AddFd`, `RewritePath`; the kernel
reads the path once more in `KernelExecs`. A path in memory is one the program wrote or
an `Alias`. A signal handler may take a waiting exec back (`Interrupt`, after which the
notification is no longer `live`); `AddFd` and the answer then fail, but `RewritePath`
writes into the caller's memory in any case. `named` and `backing` remember what the
program meant, `stale` the memories whose path was written while the alias of an older
exec was on its way there.

### Cli

`Reads` is the loop of `parse_run` or of `parse_probe`: one `Step` per argument over the
loop's variables, and `RunEnds` or `ProbeEnds` what is returned after the last one. An
argument is the sequence of its symbols, so that `--bind=a:/` and the split at the first
colon are there, and all other text is a piece. The grammar knows nothing of the loop: it
generates lists of options with their meaning (`More`, `Lists`), and from these the
accepted command lines (`Language`).

## 4. Runs

| Run | Bounds | What it shows |
|---|---|---|
| `startup` (`MCStartup.cfg`) | 2 forwarded signals, one ignored by the caller; exit codes 0, 1, 3; 2 signals sent | the seven invariants of `Startup`, `Startup => Invocation`; no startup hangs, the child's end is noticed, orphans end, the command starts unless excused |
| `bindview` (`MCBindView.cfg`) | up to 3 binds out of 46, 10 cwds; a link that may change between the two opens, a file in the way, nested and climbing destinations | the mapping, the cwd and the reopened view; every command line of up to 4 of 16 arguments parses as the grammar says |
| `guestcwd` (`MCGuestCwd.cfg`) | 2 process ids, 1 descriptor number, 7 arguments, 6 calls; three binds, one nested in another, one over itself, and a host directory that no guest path leads to | followed cwds, their relative paths, descriptor-relative paths |
| `dispatch` (`MCDispatch.cfg`) | 2 tracees, 2 calls out of 13, 1 interrupt; one destination nested in another, a host tree above and at it, a FIFO, links | `Dispatch => MountedCalls`, answers tell effects, hidden trees stay, everybody is served |
| `dirstream` (`MCDirStream.cfg`) | 2 threads, 2 numbers, 2 directories; 2 opens, 3 reads, 2 other calls; buffers for none or two entries | every entry once, no other directory's names |
| `execute` (`MCExecute.cfg`) | 2 tasks as threads or as processes, 3 paths, 2 numbers; 2 execs, 2 other calls or signal handlers | what runs is what was named |
| `startup_signal` | 1 signal | **violated**: a signal caught during the probe is lost and passthrough starts the command |
| `startup_sigchld` | no signal | **violated**: with SIGCHLD ignored the exit code is replaced by 1 |
| `guestcwd_fchdir` | 1 process, 1 descriptor, directories that exist | **violated**: fchdir outside the binds is not seen |
| `guestcwd_climb` | 1 process | **violated**: `..` out of an emulated directory is resolved from an older cwd |
| `execute_interrupt` (`MCExecuteInterrupt.cfg`) | 2 processes, 2 execs, 2 other calls or signal handlers | **violated**: the alias of an exec that a signal ended is put over the path written after it, and the next exec runs the older file |
| `execute_vfork` | 2 tasks that share memory alone | **violated**: the alias written for one child leads the other nowhere |

Why the bounds are enough. Two signals distinguish a partly installed handler set from a
complete one, an ignored signal from one that kills, and allow one signal to the parent
and another to the child; more only repeat. The theorems below drop the bound. Three
binds give two nested destinations and a third of equal depth in either order; the
names suffice for a source inside another, a source reached by a link and a destination
that hides a reverse mapping. Two process ids and one descriptor number are the smallest
instance in which both are used again, and the shortest history in which a stale entry
meets a reused number (open, close, open another, use) takes four calls. Path depth is
bounded by the arguments.

In `dispatch`, two tracees suffice for a notification that is withdrawn while another is
queued, and for a descendant that outlives the command; two calls for one that meets the
other's effect; the calls cover every handler, both sides of a destination, a nested one,
and a rename within, across, outside and above of them. One interrupt lets a call be restarted
before, during and after its effect. In `dirstream`, the shortest story of a stale entry
(open, close, open another before the listing, read) takes two opens, one trick and one
read; three reads page a listing of two or three names to its end. In `execute`, a failed
exec and its retry take two, with one write or close between them; an exec that a signal
ends and the one of a path written afterwards take two, one handler and one write. Four arguments hold an
option with its value, the separator and a command.

Deadlock is checked in every run: `Finished`, `Done`, `BoundReached` and `Rest` name the
only states in which nothing has to happen any more.

The violated runs are disagreements of the code with its own documents; the list
`findings` of `PROJECT.json` quotes the lines.

### Fairness

`FairSpec` assumes weak fairness of the parent's steps, of the child's steps before it is
the command, and of the supervisor's steps: the kernel goes on scheduling runnable
threads. `poll` with its 100 ms and 5 s timeouts always returns, so these steps are
enabled whenever the code can go on. There is no fairness for the command's own calls
or its end, for signals, or for the supervisor's failure: `CommandExits`, `Notify` of a
running command, `SignalPathshim`, `SignalChild` and `SupervisorFails` may never happen.

`FairSpec` of `Dispatch` assumes the same of the supervisor: its loop, its `poll` and its
host calls return; and of `Stop`: `run` waits for the command and raises the flag when it
has ended. The loop reads the flag in every round, so that the supervisor's end does not
depend on the descendants' calling less. There is none for the tracees, and none for
`PeerOpens`: the open of a FIFO may wait for ever, and the two liveness properties say so.
`Serves` is `Serve` without its effect, which TLC can test for being enabled without
computing it.

## 5. Proofs

Every theorem holds for all values of the constants that satisfy the named assumptions
of the module, which TLC evaluates on the instances above. Each `IInv` was checked by TLC
on the run of its module before it was proved.

**`StartupProofs`** proves for every number of signals, every set of ignored signals and
every `MaxSignals`: `TypeOK`, all six safety invariants, and that `Startup` implements
`Invocation`. Assumption: `StartupAssumption`. None of the invariants is inductive; `IInv`
relates the three positions. Its parts are: where in `linux::run` the parent can be for
each `mode`; which messages can be in flight at each pair of positions (this is what
lets a byte be read at most once); which `cpc` is possible before the start byte, between
the bytes and after the final one; how `installed` and `CHILD_PROCESS` follow `ppc`; when
the pid is free; and when the supervisor has been told to stop. `starts` is tied to `cpc`
and `mode`. There is one lemma per actor, with one step per action, and the refinement
has the same structure with each step mapped to one of `Invocation` or a stutter.

**`ViewPathsProofs`** is the path algebra the other proofs share: prefixes, the search of
`projection_index`, the deepest source of `virtual_for_host`, and `Normalize`. The library's
induction theorems cannot be used (they take an operator), so an induction is stated with
the set of numbers that satisfy its hypothesis: a number that is missing would have a
least one missing (`LeastNumber`, from the well-foundedness of the naturals). From it
follow that `Normalize` yields a normalized path, keeps one, and puts what is written
without `..` below the path it is joined to. Assumption: `NamesAssumption`.

**`BindViewProofs`** proves `TypeOK` and every other invariant of `BindView`, for all binds,
hosts and bounds, from `BindAssumption` (binds, cwds and the host are of their types; a
link may change, but a directory that `canonicalize` has once led to remains what it is).
`IInv` says of the view what `open` has done to it so far:
typed projections, destinations distinct, below the root and not reserved, sources
canonical and directories, the order once it is sorted; and that all that was made lies
on the way to a source. `FirstIsLongest` turns "first match" into "longest match".
`SameView` says that `reopen` is never refused and ends with the same view. Its invariant
is about the rounds: what is accepted so far is a prefix of the first view, because a
destination is its own normal form, is not reserved and meets no duplicate, and because a
source is a directory and canonical whatever links have become since (`Relink`); at the
end, sorting a sorted sequence is the identity. `NormalizeIsLexical` compares
`normalize_virtual`'s stack with a count after every component (`StackHolds`).
`SupervisorAssumptions` closes the gap to the modules of the supervisor: whatever the
binds and the cwd, the view it has reopened and the cwd the command starts in are as
`ViewAssumption` of `MountTable` and `GuestAssumption` of `GuestCwd` take them to be,
where the theorems below start. That `/` is a directory of every host is part of its statement.

**`GuestCwdProofs`** proves `TypeOK` and the three properties of the run, for every view,
any processes, numbers, arguments and calls, from `GuestAssumption` (what `BindView`
establishes of a view). The invariant says of a followed process that it has an entry of
its own in `virtual_cwds`, that the entry is the cwd real mounts would give it, and that
the kernel is in that directory unless it is an emulated one. `HolderIs` computes the climb
of `virtual_cwd`. `FdPaths` needs no more of the state than its types: an entry is
trusted only if it leads to the directory that is open. What it needs is `BackedTogether`:
the projection that backs a path below a directory backs the directory, too, or starts
below it.

**`DispatchProofs`** proves for every view that is sorted with distinct destinations
(`ViewAssumption`, what `BindView` establishes), every set of calls and trees, and any
number of tracees: `TypeOK`; that `Dispatch` implements `MountedCalls`
(`DispatchIsAtomic`); that answers tell effects (`AnswersTellEffects`); and that hidden
trees stay (`HiddenTreesStay`). Its layers:

- routing, without any state: the first projection that covers a path is the mount with
  the most components (`SearchFindsMount`), so that what `Route` and `OnSource` make of a
  call is the call's effect under mounts, for every tree (`EffectIsServed`);
- the inductive invariant `IInv`: every waiting tracee has one notification, in the queue
  or live in the supervisor's hands; as long as it is live, what the supervisor read is
  what the tracee asked; only a call routed to the kernel is continued. Without it the
  supervisor could answer one tracee with another's call, or a tracee could be performed
  for twice;
- the call whose notification was withdrawn before its host call is the one `stray` of
  `MountedCalls` (`MountedStray`): after an interrupt from its receipt on, after a death
  from `ReadPath` on. The host call of the supervisor is then the `Stray` step, and the
  death of a caller whose path is still unread drops it;
- one lemma per action: the step is a step of `MountedCalls` or a stutter under the
  refinement mapping. `EffectInv` adds to `IInv` how often the current call of each
  tracee has been performed at each position;
- `TypeInv` adds that the tree is one of normalized paths and inodes, which every call of
  `HostTree` preserves. For the hidden trees each call of `HostTree` is shown to touch
  only its own path, what a link there leads to, and for a rename what is below.

**`DirStreamProofs`** proves `TypeOK`, `EveryEntryOnce` and `OnlyItsOwnDirectory` for any
threads, numbers, directories, contents and buffers. Neither property is inductive. `IInv`
ties the supervisor's listings, which are kept by number, to the open files: a file that
nobody disturbed has one number, the entry of that number is its own listing (or is about
to be made), and the cursor is as far as its readers have got plus what is on its way to
them.

**`ExecuteProofs`** proves `TypeOK` for every layout, and that an undisturbed exec runs
what it named and misses it only if it was missing, whatever signals interrupt, where
tasks that share their memory share their descriptors (`MemoryComesWithFiles`: threads and
forked processes; all layouts of the run `execute`). The hypothesis cannot be dropped: a vfork child shares memory alone, and
`execute_vfork` shows the property violated there. `SteadyOutcomes` is the stronger
statement without hypothesis, memory by memory. `IInv` says that an undisturbed memory
holds the path that was written, or an alias of a descriptor with a file behind that path
in the table of everyone who reads it, and that the supervisor's job is about that path
if it is about to write there, whether or not its notification is still there. A `stale`
memory is excepted by name: a new path was written while the alias of an interrupted exec
was on its way, and `execute_interrupt` shows what comes of it.

**`CliProofs`** proves that the parser accepts the language of the grammar, with the
meaning it has there, and nothing else (`AcceptsItsGrammar`), for any set of arguments
and any number of them. Assumption: `ArgumentsAssumption` (arguments are sequences of
symbols, and the spellings of the options are among them). The parser reads arguments, the
grammar options, so that neither induction is the other's:

- complete: a list of options leaves the parser between two options with the list's
  meaning (`ListIsRead`, by induction over options, `ListInduction`); what comes after the
  command changes nothing but the command (`CommandIsRead`);
- sound: after every argument the parser is at a `Place` that the grammar knows: after a
  list of options, after such a list and an option that waits for its value, after `--`,
  in a command, or finished (`NextPlace`, by induction over arguments,
  `AppendInduction`);
- `probe` is decided by the first argument alone; the language of a run holds no command
  line that begins with it (`ProbeIsNoCommand`).

Only model-checked: liveness (`StartupDecides`, `ChildEndIsNoticed`, `OrphanResolves`,
`CommandStarts`, `EveryCallIsAnswered`, `SupervisorFollowsCommand`), which needs fairness
and ENABLED and is out of this prover's reach. Every invariant, every action property and
both refinements of the passing runs are theorems. The properties of the violated runs
have no theorem.

## 6. What is not modelled

Where the code differs from real mounts by design or for want of information, the models
say so by name. These are the exceptions a reader should know:

* A link's absolute target is looked up in the host's names, not in the guest's; a link
  may so lead to a hidden tree (`LinkedTo` in `HiddenTreeIsLeftAlone`).
* `rmdir` of a destination acts on its source; a mount point would be busy.
* A rename of a directory above a destination is the kernel's: the hidden tree moves, the
  view stays (`RenamedAbove`); a mount point would be busy.
* A cwd that the supervisor cannot follow (`followed`): a chdir outside the binds is
  recorded before the kernel has tried it and stays recorded when the kernel refuses it, and
  an fchdir through a descriptor without an entry is not recorded (`guestcwd_fchdir`).
* A descriptor of a directory that a destination hides has no guest name; paths relative
  to it are resolved below the path of that name (`HasGuestName`).
* `renameat2` with flags is refused; `openat2`'s `resolve` is ignored.
* A call that a signal restarts meets its own effect (`Interrupt`): `O_EXCL` then says
  EEXIST. One that a signal ends with EINTR, or whose caller is killed while it is served,
  may take effect afterwards, later than other calls (`Stray`). An open for which the
  caller has no number leaves the file it made.
* The supervisor may wait in the open of a FIFO; then no other call is served, and
  `run` waits in `join` after the command's end.
* A directory stream loses the entries of an answer that cannot be delivered, restarts
  from nothing after `lseek`, and its entry may be taken for that of the same directory
  opened again in a way the supervisor does not see.
* The alias of an exec that a signal ended may be put over a path written after it
  (`stale`).

Left out:

* In `GuestCwd`, symbolic links, changes of the tree, `dup`, and `CLONE_FS` between
  processes.
* In `Dispatch`, the supervisor's umask and credentials, a file's contents beyond one
  value, links in the middle of a path (`LinkAssumption`), and the resolution of the
  argument, which is `GuestCwd`'s. A tracee that changes the path while it is read, and
  an interrupted one that uses its buffer for something else before its path is read, or
  before the data of a late stat, readlink or getcwd is written there.
* In `DirStream`, several processes; process ids are used again in `GuestCwd`.
* In `Execute`, relative paths and `execveat` with an empty one, which is continued.
* Byte copies: the chunks of `read_path`, record layout, short writes as a case apart.
* In `BindView`, a directory to which a source has led and which is itself replaced by a
  link before the view is opened again.
* Wording, diagnostics, `--quiet`, buffer sizes, ioctl numbers and the BPF program.

## 7. Running

    tlc -workers 2 -config MCStartup.cfg MCStartup
    tlapm StartupProofs.tla
    tlapm ViewPathsProofs.tla
    tlapm BindViewProofs.tla
    tlapm GuestCwdProofs.tla
    tlapm DispatchProofs.tla
    tlapm DirStreamProofs.tla
    tlapm ExecuteProofs.tla
    tlapm CliProofs.tla

Operators whose comment begins with "Fault:" are mutations, one per checked property:
put in place of the definition after them, they make TLC find that property violated.
