------------------------------- MODULE Startup -------------------------------
(***************************************************************************)
(* One pathshim invocation, from BindView::open to its last step:          *)
(* src/src/main.rs (main, probe, run, exec) and src/src/linux/mod.rs (run, *)
(* stop_attempt, SignalForwarding, child_main, supervise).                 *)
(*                                                                         *)
(* Three threads of control interleave: pathshim's main thread (parent),   *)
(* the forked child that becomes the command, and the supervisor thread    *)
(* that answers the child's intercepted syscalls.  Parent and child talk   *)
(* over a SOCK_SEQPACKET pair (toParent, toChild); child and supervisor    *)
(* over the seccomp listener (notif).  Terminating signals may hit either  *)
(* process at any step.  One step is one syscall or one atomic store that  *)
(* another actor can observe.                                              *)
(***************************************************************************)
EXTENDS Naturals, Sequences

CONSTANTS
  NumSignals,   \* FORWARDED_SIGNALS are 1..NumSignals, in array order
  Ignored,      \* those of them whose disposition the caller left at SIG_IGN
  ExitCodes,    \* exit codes of a command
  MaxSignals    \* bound: how many signals the environment sends

ASSUME StartupAssumption ==
  /\ NumSignals \in Nat
  /\ MaxSignals \in Nat
  /\ ExitCodes \subseteq Nat
  /\ {0, 1} \subseteq ExitCodes
  /\ Ignored \subseteq 1 .. NumSignals

FORWARDED_SIGNALS == 1 .. NumSignals
SIGKILL == 0
Child == 1   \* the child's pid
Signals == {SIGKILL} \cup FORWARDED_SIGNALS

VARIABLES
  (* given by the caller, never changed                                    *)
  kind,        \* "run" (pathshim run) or "probe" (pathshim probe)
  program,     \* "found", or "missing" where execve of the command fails
  sigchld,     \* the caller's SIGCHLD: when "ignored", waitpid gives ECHILD
  (* the main thread                                                       *)
  ppc,         \* where it is
  mode,        \* "undecided", then "bind-view" (final byte written) or
               \*   "passthrough" (the attempt was given up)
  cwd,         \* where the Command starts: the caller's or the guest cwd
  installed,   \* the first `installed` signals have the forwarding handler
  CHILD_PROCESS, \* the pid the handler forwards to, or 0
  stop,        \* the supervisor's stop flag: "clear" or "set"
  outcome,     \* how pathshim ended, or Alive
  (* the child                                                             *)
  cpc,         \* where it is
  forked,      \* Absent, Alive, or its wait status
  pid,         \* the child's pid: "held", or "free" once it is reaped
  (* the channels                                                          *)
  toParent,    \* messages on the socket to the parent
  toChild,     \* bytes on the socket to the child
  notif,       \* the child's seccomp notification: none, pending, received
  (* the supervisor thread                                                 *)
  spc,         \* where it is ("off": never spawned)
  (* history                                                               *)
  starts,      \* how often the command was started
  sent,        \* how many signals the environment has sent
  captured,    \* caught signals that would have ended an unwrapped command
  faults       \* environment events that excuse a command from starting

callerVars == <<kind, program, sigchld>>
parentVars == <<ppc, mode, cwd, installed, CHILD_PROCESS, stop, outcome>>
childVars  == <<cpc, forked, pid>>
history    == <<sent, captured, faults>>
vars == <<callerVars, parentVars, childVars, toParent, toChild, notif, spc,
          starts, history>>

Contract == INSTANCE Invocation

Absent == Contract!Absent
Alive == Contract!Alive
Exited(code) == Contract!Exited(code)
Signaled(signal) == Contract!Signaled(signal)
ChildStatus == Contract!ChildStatus

ParentSteps ==
  {"open", "cwd", "fork", "recv_setup", "spawn", "arm", "install", "rollback",
   "start", "poll", "go", "wait", "drop", "restore", "kill", "reap", "stop",
   "join", "unavailable", "exec", "exit", "passthrough", "gone"}
ChildSteps ==
  {"none", "install", "send_setup", "send_error", "read_start", "stat", "open",
   "report_ok", "report_err", "read_go", "chdir", "exec", "running", "dead"}
SupervisorSteps == {"off", "check", "poll", "receive", "handle", "done"}
Messages == {"ready", "unavailable", "probe_ok", "probe_err"}

EventsOK ==
  /\ captured \subseteq FORWARDED_SIGNALS
  /\ faults \subseteq {"signal", "supervisor", "chdir", "exec"}

(* The variables range over what the code can hold.                        *)
TypeOK ==
  /\ kind \in {"run", "probe"} /\ program \in {"found", "missing"}
  /\ sigchld \in {"default", "ignored"}
  /\ ppc \in ParentSteps
  /\ mode \in {"undecided", "bind-view", "passthrough"}
  /\ cwd \in {"caller", "guest"}
  /\ installed \in 0 .. NumSignals
  /\ CHILD_PROCESS \in {0, Child}
  /\ stop \in {"clear", "set"}
  /\ outcome \in {Alive} \cup ChildStatus
  /\ cpc \in ChildSteps
  /\ forked \in {Absent, Alive} \cup ChildStatus
  /\ pid \in {"held", "free"}
  /\ toParent \in Seq(Messages)
  /\ toChild \in 0 .. 1
  /\ notif \in {"none", "pending", "received"}
  /\ spc \in SupervisorSteps
  /\ starts \in Nat
  /\ sent \in 0 .. MaxSignals
  /\ EventsOK

Init ==
  /\ kind \in {"run", "probe"} /\ program \in {"found", "missing"}
  /\ sigchld \in {"default", "ignored"}
  /\ ppc = "open" /\ mode = "undecided" /\ cwd = "caller"
  /\ installed = 0 /\ CHILD_PROCESS = 0 /\ stop = "clear" /\ outcome = Alive
  /\ cpc = "none" /\ forked = Absent /\ pid = "held"
  /\ toParent = <<>> /\ toChild = 0 /\ notif = "none" /\ spc = "off"
  /\ starts = 0 /\ sent = 0 /\ captured = {} /\ faults = {}

(* pathshim still runs its own code: it has neither ended nor become the   *)
(* command.                                                                *)
PathshimRuns == ppc \notin {"passthrough", "gone"}
ParentEndOpen == PathshimRuns
ChildEndOpen == cpc \notin {"none", "chdir", "exec", "running", "dead"}
ListenerOpen == spc \in {"check", "poll", "receive", "handle"}

-------------------------------------------------------------------------------
(***************************************************************************)
(* The main thread                                                         *)
(***************************************************************************)

(* Everything but the parent's own variables.                              *)
OthersUnchanged ==
  UNCHANGED <<callerVars, childVars, toParent, toChild, notif, spc, starts, history>>

ParentGoto(step) ==
  ppc' = step /\ UNCHANGED <<mode, cwd, installed, CHILD_PROCESS, stop, outcome>>

(* Give the attempt up and continue with its cleanup at `step'.            *)
Abandon(step) ==
  /\ ppc' = step
  /\ mode' = "passthrough"
  /\ UNCHANGED <<cwd, installed, CHILD_PROCESS, stop, outcome>>

(* The process is gone, its threads and its ends of every channel with it. *)
ParentEnds(status) ==
  /\ ppc' = "gone"
  /\ outcome' = status
  /\ spc' = IF spc = "off" THEN "off" ELSE "done"
  /\ UNCHANGED <<mode, cwd, installed, CHILD_PROCESS, stop>>

(* BindView::open: the view opens, or `run' executes the still plain       *)
(* command and `probe' reports passthrough.                                *)
OpenView ==
  /\ ppc = "open"
  /\ \/ ParentGoto(IF kind = "run" THEN "cwd" ELSE "fork")
     \/ Abandon(IF kind = "run" THEN "exec" ELSE "unavailable")
  /\ OthersUnchanged

(* resolve_directory, create_directory_all or fallback_guest_cwd: each of  *)
(* them ends in configure_virtual_environment.                             *)
ConfigureCwd ==
  /\ ppc = "cwd"
  /\ ppc' = "fork"
  /\ cwd' = "guest"
  /\ UNCHANGED <<mode, installed, CHILD_PROCESS, stop, outcome>>
  /\ OthersUnchanged

(* view.reopen, socket_pair and fork.                                      *)
ForkChild ==
  /\ ppc = "fork"
  /\ \/ /\ ParentGoto("recv_setup")
        /\ cpc' = "install" /\ forked' = Alive
        /\ UNCHANGED <<callerVars, pid, toParent, toChild, notif, spc, starts, history>>
     \/ Abandon("unavailable") /\ OthersUnchanged

(* receive_setup: a listener, the child's errno, or end of file.  The      *)
(* listener may be missing from its message (no free descriptor).          *)
ReceiveSetup ==
  /\ ppc = "recv_setup"
  /\ \/ /\ toParent # <<>>
        /\ \/ Head(toParent) = "ready" /\ (ParentGoto("spawn") \/ Abandon("kill"))
           \/ Head(toParent) = "unavailable" /\ Abandon("reap")
        /\ toParent' = Tail(toParent)
     \/ /\ toParent = <<>> /\ ~ChildEndOpen
        /\ Abandon("kill")
        /\ UNCHANGED toParent
  /\ UNCHANGED <<callerVars, childVars, toChild, notif, spc, starts, history>>

(* Builder::spawn of the "pathshim-fs" thread, which owns the listener.    *)
SpawnSupervisor ==
  /\ ppc = "spawn"
  /\ \/ /\ ParentGoto("arm")
        /\ spc' = "check"
        /\ UNCHANGED <<callerVars, childVars, toParent, toChild, notif, starts, history>>
     \/ Abandon("kill") /\ OthersUnchanged

(* Fault: the handlers are installed, the pid is never published.          *)
ArmForwardingForgotten ==
  /\ ppc = "arm"
  /\ ParentGoto("install")
  /\ OthersUnchanged

(* SignalForwarding::install: first the pid, then the handlers in order.   *)
ArmForwarding ==
  /\ ppc = "arm"
  /\ ppc' = "install"
  /\ CHILD_PROCESS' = Child
  /\ UNCHANGED <<mode, cwd, installed, stop, outcome>>
  /\ OthersUnchanged

(* Fault: the loop runs once too often.                                    *)
InstallHandlerOneTooMany ==
  /\ ppc = "install"
  /\ \/ installed <= NumSignals /\ installed' = installed + 1 /\ UNCHANGED ppc
     \/ installed > NumSignals /\ ppc' = "start" /\ UNCHANGED installed
  /\ UNCHANGED <<mode, cwd, CHILD_PROCESS, stop, outcome>>
  /\ OthersUnchanged

InstallHandler ==
  /\ ppc = "install"
  /\ \/ /\ installed < NumSignals
        /\ \/ ppc' = ppc /\ installed' = installed + 1 /\ UNCHANGED mode
           \/ ppc' = "rollback" /\ mode' = "passthrough" /\ UNCHANGED installed
     \/ /\ installed = NumSignals
        /\ ppc' = "start"
        /\ UNCHANGED <<mode, installed>>
  /\ UNCHANGED <<cwd, CHILD_PROCESS, stop, outcome>>
  /\ OthersUnchanged

(* install's error path: restore what was installed, last first, then      *)
(* forget the pid.                                                         *)
RollbackHandler ==
  /\ ppc = "rollback"
  /\ \/ installed > 0 /\ installed' = installed - 1 /\ UNCHANGED <<ppc, CHILD_PROCESS>>
     \/ installed = 0 /\ ppc' = "kill" /\ CHILD_PROCESS' = 0 /\ UNCHANGED installed
  /\ UNCHANGED <<mode, cwd, stop, outcome>>
  /\ OthersUnchanged

(* write_byte: the child may probe now.  The write fails when the child's  *)
(* end is closed.                                                          *)
StartProbe ==
  /\ ppc = "start"
  /\ \/ /\ ChildEndOpen
        /\ ParentGoto("poll")
        /\ toChild' = toChild + 1
     \/ ~ChildEndOpen /\ Abandon("drop") /\ UNCHANGED toChild
  /\ UNCHANGED <<callerVars, childVars, toParent, notif, spc, starts, history>>

(* read_i32_timeout: the probe's errno, end of file, or PROBE_TIMEOUT_MS   *)
(* without either.                                                         *)
PollProbe ==
  /\ ppc = "poll"
  /\ \/ /\ toParent # <<>>
        /\ IF Head(toParent) = "probe_ok" THEN ParentGoto("go") ELSE Abandon("drop")
        /\ toParent' = Tail(toParent)
     \/ toParent = <<>> /\ Abandon("drop") /\ UNCHANGED toParent
  /\ UNCHANGED <<callerVars, childVars, toChild, notif, spc, starts, history>>

(* Fault: the supervisor is told to stop once the probe has passed.        *)
WriteGoStopping ==
  /\ ppc = "go" /\ ChildEndOpen
  /\ ppc' = "wait" /\ mode' = "bind-view" /\ stop' = "set"
  /\ UNCHANGED <<cwd, installed, CHILD_PROCESS, outcome>>
  /\ toChild' = toChild + 1
  /\ UNCHANGED <<callerVars, childVars, toParent, notif, spc, starts, history>>

(* The final byte: from here on there is no fallback.                      *)
WriteGo ==
  /\ ppc = "go"
  /\ \/ /\ ChildEndOpen
        /\ ppc' = "wait" /\ mode' = "bind-view"
        /\ UNCHANGED <<cwd, installed, CHILD_PROCESS, stop, outcome>>
        /\ toChild' = toChild + 1
     \/ ~ChildEndOpen /\ Abandon("drop") /\ UNCHANGED toChild
  /\ UNCHANGED <<callerVars, childVars, toParent, notif, spc, starts, history>>

(* wait_for_child after the command was released.  With SIGCHLD ignored    *)
(* waitpid blocks as well and then reports ECHILD.                         *)
WaitCommand ==
  /\ ppc = "wait" /\ cpc = "dead"
  /\ ParentGoto("drop")
  /\ pid' = "free"
  /\ UNCHANGED <<callerVars, cpc, forked, toParent, toChild, notif, spc, starts, history>>

(* Fault: the forwarding guard is leaked.                                  *)
DropForwardingForgotten ==
  /\ ppc = "drop"
  /\ ppc' = IF mode = "passthrough" THEN "kill" ELSE "stop"
  /\ UNCHANGED <<mode, cwd, installed, CHILD_PROCESS, stop, outcome>>
  /\ OthersUnchanged

(* Drop for SignalForwarding: forget the pid, then restore the handlers,   *)
(* last first.  What follows depends on why the guard is dropped.          *)
DropForwarding ==
  /\ ppc = "drop"
  /\ ppc' = "restore"
  /\ CHILD_PROCESS' = 0
  /\ UNCHANGED <<mode, cwd, installed, stop, outcome>>
  /\ OthersUnchanged

RestoreHandler ==
  /\ ppc = "restore"
  /\ \/ installed > 0 /\ installed' = installed - 1 /\ UNCHANGED ppc
     \/ /\ installed = 0
        /\ ppc' = CASE mode = "passthrough" -> "kill"
                    [] mode # "passthrough" /\ sigchld = "default" -> "stop"
                    [] OTHER -> "exit"
        /\ UNCHANGED installed
  /\ UNCHANGED <<mode, cwd, CHILD_PROCESS, stop, outcome>>
  /\ OthersUnchanged

(* How the child takes a signal: it dies of it, or nothing happens.        *)
ChildDies(status) ==
  /\ cpc' = "dead" /\ forked' = status /\ notif' = "none"
  /\ pid' = IF sigchld = "ignored" THEN "free" ELSE pid

ChildUnaffected == UNCHANGED <<cpc, forked, notif, pid>>

(* Fault: the abandoned child is waited for but not killed.                *)
KillAttemptForgotten ==
  /\ ppc = "kill"
  /\ ParentGoto("reap")
  /\ OthersUnchanged

(* SIGKILL for the abandoned child.                                        *)
KillAttempt ==
  /\ ppc = "kill"
  /\ ParentGoto("reap")
  /\ IF cpc = "dead" THEN ChildUnaffected ELSE ChildDies(Signaled(SIGKILL))
  /\ UNCHANGED <<callerVars, toParent, toChild, spc, starts, history>>

(* wait_for_child on the abandoned child, its result ignored.              *)
ReapAttempt ==
  /\ ppc = "reap" /\ cpc = "dead"
  /\ ParentGoto(IF spc = "off" THEN "unavailable" ELSE "stop")
  /\ pid' = "free"
  /\ UNCHANGED <<callerVars, cpc, forked, toParent, toChild, notif, spc, starts, history>>

(* Fault: the supervisor is joined without being told to stop.             *)
StopSupervisorForgotten ==
  /\ ppc = "stop"
  /\ ParentGoto("join")
  /\ OthersUnchanged

StopSupervisor ==
  /\ ppc = "stop"
  /\ ppc' = "join"
  /\ stop' = "set"
  /\ UNCHANGED <<mode, cwd, installed, CHILD_PROCESS, outcome>>
  /\ OthersUnchanged

JoinSupervisor ==
  /\ ppc = "join" /\ spc = "done"
  /\ ParentGoto(IF mode = "passthrough" THEN "unavailable" ELSE "exit")
  /\ OthersUnchanged

(* Fault: the configured command is executed as it is.                     *)
UnavailableKeepingCwd ==
  /\ ppc = "unavailable"
  /\ \/ /\ kind = "run"
        /\ ParentGoto("exec")
        /\ OthersUnchanged
     \/ /\ kind = "probe"
        /\ ParentEnds(Exited(1))
        /\ UNCHANGED <<callerVars, childVars, toParent, toChild, notif, starts, history>>

(* Fault: an unavailable view ends pathshim instead of degrading it.       *)
UnavailableExits ==
  /\ ppc = "unavailable"
  /\ ParentEnds(Exited(1))
  /\ UNCHANGED <<callerVars, childVars, toParent, toChild, notif, starts, history>>

(* RunOutcome::Unavailable: `run' rebuilds the command without cwd and PWD *)
(* (passthrough_command); `probe' prints "passthrough" and exits 1.        *)
Unavailable ==
  /\ ppc = "unavailable"
  /\ \/ /\ kind = "run"
        /\ ppc' = "exec"
        /\ cwd' = "caller"
        /\ UNCHANGED <<mode, installed, CHILD_PROCESS, stop, outcome>>
        /\ OthersUnchanged
     \/ /\ kind = "probe"
        /\ ParentEnds(Exited(1))
        /\ UNCHANGED <<callerVars, childVars, toParent, toChild, notif, starts, history>>

(* exec: pathshim becomes the command, or exits 1.                         *)
ExecPassthrough ==
  /\ ppc = "exec"
  /\ \/ /\ program = "found"
        /\ ParentGoto("passthrough")
        /\ starts' = starts + 1
        /\ UNCHANGED <<callerVars, childVars, toParent, toChild, notif, spc, history>>
     \/ /\ program = "missing"
        /\ ParentEnds(Exited(1))
        /\ UNCHANGED <<callerVars, childVars, toParent, toChild, notif, starts, history>>

(* Fault: the collected status is dropped.                                 *)
ExitWithStatusAlwaysZero ==
  /\ ppc = "exit"
  /\ ParentEnds(Exited(0))
  /\ UNCHANGED <<callerVars, childVars, toParent, toChild, notif, starts, history>>

(* exit_with_status for `run', the verdict of probe_view for `probe', and  *)
(* exit 1 for both when waitpid could not tell.                            *)
ExitWithStatus ==
  /\ ppc = "exit"
  /\ ParentEnds(IF sigchld = "default" /\ (kind = "run" \/ forked = Exited(0))
                THEN forked ELSE Exited(1))
  /\ UNCHANGED <<callerVars, childVars, toParent, toChild, notif, starts, history>>

ParentStep ==
  \/ OpenView \/ ConfigureCwd \/ ForkChild \/ ReceiveSetup \/ SpawnSupervisor
  \/ ArmForwarding \/ InstallHandler \/ RollbackHandler \/ StartProbe \/ PollProbe
  \/ WriteGo \/ WaitCommand \/ DropForwarding \/ RestoreHandler \/ KillAttempt
  \/ ReapAttempt \/ StopSupervisor \/ JoinSupervisor \/ Unavailable
  \/ ExecPassthrough \/ ExitWithStatus

-------------------------------------------------------------------------------
(***************************************************************************)
(* The child: child_main                                                   *)
(***************************************************************************)

ChildGoto(step) == cpc' = step /\ UNCHANGED <<forked, pid, notif>>

(* seccomp::install_listener.                                              *)
InstallListener ==
  /\ cpc = "install"
  /\ ChildGoto("send_setup") \/ ChildGoto("send_error")
  /\ UNCHANGED <<callerVars, parentVars, toParent, toChild, spc, starts, history>>

(* send_fd, then the child's own copy of the listener is dropped.          *)
SendListener ==
  /\ cpc = "send_setup"
  /\ \/ ParentEndOpen /\ toParent' = Append(toParent, "ready") /\ ChildGoto("read_start")
     \/ ~ParentEndOpen /\ UNCHANGED toParent /\ ChildDies(Exited(1))
  /\ UNCHANGED <<callerVars, parentVars, toChild, spc, starts, history>>

(* send_setup_error, its result ignored, and _exit(0).                     *)
SendSetupError ==
  /\ cpc = "send_error"
  /\ toParent' = IF ParentEndOpen THEN Append(toParent, "unavailable") ELSE toParent
  /\ ChildDies(Exited(0))
  /\ UNCHANGED <<callerVars, parentVars, toChild, spc, starts, history>>

(* Fault: a closed socket is not noticed.                                  *)
ReadByteIgnoringEof(here, next) ==
  /\ cpc = here
  /\ toChild > 0 /\ toChild' = toChild - 1 /\ ChildGoto(next)
  /\ UNCHANGED <<callerVars, parentVars, toParent, spc, starts, history>>

(* read_byte: one byte releases the child, end of file ends it.            *)
ReadByte(here, next) ==
  /\ cpc = here
  /\ \/ toChild > 0 /\ toChild' = toChild - 1 /\ ChildGoto(next)
     \/ toChild = 0 /\ ~ParentEndOpen /\ UNCHANGED toChild /\ ChildDies(Exited(1))
  /\ UNCHANGED <<callerVars, parentVars, toParent, spc, starts, history>>

ReadStart == ReadByte("read_start", "stat")

(* Fault: a failed read_byte is taken for a release.                       *)
ReadGoIgnoringEof ==
  \/ ReadByte("read_go", IF kind = "run" THEN "chdir" ELSE "exec")
  \/ /\ cpc = "read_go" /\ toChild = 0 /\ ~ParentEndOpen
     /\ ChildGoto(IF kind = "run" THEN "chdir" ELSE "exec")
     /\ UNCHANGED <<callerVars, parentVars, toParent, toChild, spc, starts, history>>

(* Only a `run' has a guest cwd to change to.                              *)
ReadGo == ReadByte("read_go", IF kind = "run" THEN "chdir" ELSE "exec")

(* The syscalls of the child that the filter turns into notifications:     *)
(* fstatat and open of the probe, chdir and execve of Command::exec, and   *)
(* whatever the running command does.                                      *)
Intercepted == {"stat", "open", "chdir", "exec", "running"}

Notify ==
  /\ cpc \in Intercepted /\ notif = "none" /\ ListenerOpen
  /\ notif' = "pending"
  /\ UNCHANGED <<callerVars, parentVars, childVars, toParent, toChild, spc, starts, history>>

(* The syscall fails.  A probe reports the errno; Command::exec ends in    *)
(* child_error; a running command goes on with the error.                  *)
SyscallFails ==
  /\ \/ cpc \in {"stat", "open"} /\ cpc' = "report_err" /\ notif' = "none"
        /\ UNCHANGED <<forked, pid, faults>>
     \/ cpc \in {"chdir", "exec"} /\ ChildDies(Exited(1))
        /\ faults' = faults \cup {cpc}
     \/ cpc = "running" /\ notif' = "none" /\ UNCHANGED <<cpc, forked, pid, faults>>
  /\ UNCHANGED starts

(* The syscall succeeds.  execve of a working program starts the command.  *)
SyscallSucceeds ==
  /\ cpc = "exec" => program = "found"
  /\ cpc' = CASE cpc = "stat"    -> "open"
              [] cpc = "open"    -> "report_ok"
              [] cpc = "chdir"   -> "exec"
              [] cpc = "exec"    -> "running"
              [] OTHER           -> cpc
  /\ starts' = IF cpc = "exec" THEN starts + 1 ELSE starts
  /\ notif' = "none"
  /\ UNCHANGED <<forked, pid, faults>>

(* Without a listener every intercepted syscall returns ENOSYS, the one    *)
(* that was waiting for an answer included.                                *)
SyscallRefused ==
  /\ cpc \in Intercepted /\ ~ListenerOpen
  /\ cpc = "running" => notif # "none"
  /\ SyscallFails
  /\ UNCHANGED <<callerVars, parentVars, toParent, toChild, spc, sent, captured>>

(* write_i32 of the probe's errno, its result ignored, and _exit(0).       *)
ReportProbeError ==
  /\ cpc = "report_err"
  /\ toParent' = IF ParentEndOpen THEN Append(toParent, "probe_err") ELSE toParent
  /\ ChildDies(Exited(0))
  /\ UNCHANGED <<callerVars, parentVars, toChild, spc, starts, history>>

(* Fault: the child executes without waiting for the final byte.           *)
ReportProbeOkUnsynchronized ==
  /\ cpc = "report_ok"
  /\ ParentEndOpen /\ toParent' = Append(toParent, "probe_ok")
  /\ ChildGoto(IF kind = "run" THEN "chdir" ELSE "exec")
  /\ UNCHANGED <<callerVars, parentVars, toChild, spc, starts, history>>

ReportProbeOk ==
  /\ cpc = "report_ok"
  /\ \/ ParentEndOpen /\ toParent' = Append(toParent, "probe_ok") /\ ChildGoto("read_go")
     \/ ~ParentEndOpen /\ UNCHANGED toParent /\ ChildDies(Exited(1))
  /\ UNCHANGED <<callerVars, parentVars, toChild, spc, starts, history>>

(* The command ends by itself, with any status.                            *)
CommandExits ==
  /\ cpc = "running" /\ notif = "none"
  /\ \E code \in ExitCodes : ChildDies(Exited(code))
  /\ UNCHANGED <<callerVars, parentVars, toParent, toChild, spc, starts, history>>

(* The steps the child takes before it is the command.                     *)
ChildStep ==
  \/ InstallListener \/ SendListener \/ SendSetupError \/ ReadStart \/ ReadGo
  \/ ReportProbeError \/ ReportProbeOk \/ SyscallRefused
  \/ cpc # "running" /\ Notify

-------------------------------------------------------------------------------
(***************************************************************************)
(* The supervisor thread: supervise                                        *)
(***************************************************************************)

SupervisorGoto(step) ==
  /\ spc' = step
  /\ UNCHANGED <<callerVars, parentVars, childVars, toParent, toChild, starts, history>>

(* while !stop.load(): the thread ends and the listener is closed.         *)
CheckStop ==
  /\ spc = "check"
  /\ SupervisorGoto(IF stop = "set" THEN "done" ELSE "poll")
  /\ UNCHANGED notif

(* poll, 100 ms: a notification, a hang-up once no process uses the filter *)
(* any more, or nothing.  An interrupted poll continues like a timeout.    *)
PollListener ==
  /\ spc = "poll"
  /\ \/ notif = "pending" /\ SupervisorGoto("receive")
     \/ cpc = "dead" /\ SupervisorGoto("done")
     \/ notif # "pending" /\ SupervisorGoto("check")
  /\ UNCHANGED notif

(* seccomp::receive: the notification, or ENOENT when the caller has died  *)
(* since poll saw it.                                                      *)
ReceiveNotification ==
  /\ spc = "receive"
  /\ \/ notif = "pending" /\ notif' = "received" /\ SupervisorGoto("handle")
     \/ notif # "pending" /\ UNCHANGED notif /\ SupervisorGoto("check")

(* dispatch::handle and its response; ENOENT when the caller has died.     *)
HandleNotification ==
  /\ spc = "handle"
  /\ spc' = "check"
  /\ \/ notif = "received" /\ (SyscallSucceeds \/ SyscallFails)
     \/ notif # "received" /\ UNCHANGED <<childVars, notif, starts, faults>>
  /\ UNCHANGED <<callerVars, parentVars, toParent, toChild, sent, captured>>

(* Any other errno of poll, receive or handle ends the thread.             *)
SupervisorFails ==
  /\ spc \in {"poll", "receive", "handle"}
  /\ spc' = "done"
  /\ faults' = faults \cup {"supervisor"}
  /\ UNCHANGED <<callerVars, parentVars, childVars, toParent, toChild, notif, starts,
                 sent, captured>>

SupervisorStep == CheckStop \/ PollListener \/ ReceiveNotification \/ HandleNotification

-------------------------------------------------------------------------------
(***************************************************************************)
(* Signals                                                                 *)
(***************************************************************************)

(* A signal reaches the child.  Before execve it has the dispositions the  *)
(* caller gave pathshim; the command may handle it, or die of it.          *)
ChildTakes(s) ==
  \/ /\ cpc \notin {"none", "dead"}
     /\ s \notin Ignored
     /\ ChildDies(Signaled(s))
  \/ /\ \/ cpc \in {"none", "dead"}
        \/ s \in Ignored
        \/ cpc = "running" /\ s # SIGKILL
     /\ ChildUnaffected

(* forward_signal, where the handler is installed; otherwise the           *)
(* disposition the caller left.                                            *)
SignalPathshim(s) ==
  /\ PathshimRuns /\ sent < MaxSignals
  /\ sent' = sent + 1
  /\ faults' = faults \cup {"signal"}
  /\ \/ /\ s \in 1 .. installed
        /\ captured' = captured \cup ({s} \ Ignored)
        /\ IF CHILD_PROCESS = Child /\ pid = "held" THEN ChildTakes(s) ELSE ChildUnaffected
        /\ UNCHANGED <<parentVars, spc>>
     \/ /\ s \notin 1 .. installed /\ s \notin Ignored
        /\ ParentEnds(Signaled(s))
        /\ ChildUnaffected /\ UNCHANGED captured
     \/ /\ s \notin 1 .. installed /\ s \in Ignored
        /\ ChildUnaffected /\ UNCHANGED <<parentVars, spc, captured>>
  /\ UNCHANGED <<callerVars, toParent, toChild, starts>>

(* A signal sent to the child's own pid, or its share of one sent to the   *)
(* process group.                                                          *)
SignalChild(s) ==
  /\ cpc \notin {"none", "dead"} /\ sent < MaxSignals
  /\ sent' = sent + 1
  /\ faults' = faults \cup {"signal"}
  /\ ChildTakes(s)
  /\ UNCHANGED <<callerVars, parentVars, toParent, toChild, spc, starts, captured>>

-------------------------------------------------------------------------------
(* pathshim has ended or become the command, and the child is settled.     *)
Finished ==
  /\ ~PathshimRuns /\ cpc \in {"none", "dead"}
  /\ UNCHANGED vars

Next ==
  \/ ParentStep
  \/ ChildStep \/ Notify \/ CommandExits
  \/ SupervisorStep \/ SupervisorFails
  \/ \E s \in Signals : SignalPathshim(s) \/ SignalChild(s)
  \/ Finished

Spec == Init /\ [][Next]_vars

(* The kernel keeps scheduling every runnable thread.  Nothing makes the   *)
(* command end, a signal arrive or the supervisor fail.                    *)
Fairness ==
  /\ WF_vars(ParentStep)
  /\ WF_vars(ChildStep)
  /\ WF_vars(SupervisorStep)

FairSpec == Spec /\ Fairness

-------------------------------------------------------------------------------
(***************************************************************************)
(* What one invocation guarantees                                          *)
(***************************************************************************)

(* The command starts at most once, whatever times out, dies or is         *)
(* signalled while the attempt is given up: the child executes only after  *)
(* the final byte of linux::run, and after that byte run never returns     *)
(* Unavailable.                                                            *)
StartsAtMostOnce == starts <= 1

(* When pathshim executes the command in passthrough mode, nothing of the  *)
(* attempt is left: the child is reaped, the supervisor thread has ended,  *)
(* every signal disposition is the caller's again, and the command carries *)
(* neither the guest cwd nor PWD (stop_attempt, SignalForwarding::drop,    *)
(* passthrough_command).                                                   *)
PassthroughIsClean ==
  ppc \in {"exec", "passthrough"} =>
    /\ cpc = "none" \/ (cpc = "dead" /\ pid = "free")
    /\ spc \in {"off", "done"}
    /\ installed = 0 /\ CHILD_PROCESS = 0
    /\ cwd = "caller"

(* While the command runs under a live pathshim, every forwarded signal    *)
(* has its handler and the handler has a pid: SignalForwarding is up       *)
(* before the child is released and until it has been waited for.          *)
ForwardingCoversCommand ==
  (cpc = "running" /\ PathshimRuns) => (installed = NumSignals /\ CHILD_PROCESS = Child)

(* CHILD_PROCESS names a pid that is free again only between waitpid and   *)
(* the store in SignalForwarding::drop of the successful path: the paths   *)
(* that abandon the attempt disarm forwarding before they reap.            *)
ForwardsOnlyToOwnChild ==
  (PathshimRuns /\ CHILD_PROCESS = Child /\ pid = "free" /\ sigchld = "default")
    => (ppc = "drop" /\ mode = "bind-view")

(* From its release to its end the child has a supervisor, unless the      *)
(* supervisor failed or pathshim was killed: the stop flag is raised only  *)
(* after the child was waited for.                                         *)
CommandKeepsItsSupervisor ==
  (cpc \in {"chdir", "exec", "running"} /\ PathshimRuns /\ "supervisor" \notin faults)
    => ListenerOpen

(* A child that was not released by the final byte never executes the      *)
(* command: the end of file of a dead pathshim ends it (read_byte).        *)
OrphanNeverStarts == cpc \in {"chdir", "exec", "running"} => mode = "bind-view"

(* Every behaviour of the detailed machine is one of module Invocation:    *)
(* one mode, at most one start, the command's own status, an honest probe  *)
(* verdict.                                                                *)
ImplementsContract == Contract!Spec

(* An invocation never hangs in its startup: it ends, becomes the command, *)
(* or has the command running in the view (PROBE_TIMEOUT_MS, stop_attempt).*)
StartupDecides == <>(~PathshimRuns \/ cpc = "running")

(* Once the child has ended, pathshim ends too or becomes the command: the *)
(* supervisor it joins does stop.                                          *)
ChildEndIsNoticed == (cpc = "dead") ~> ~PathshimRuns

(* A child whose pathshim was killed does not linger half started.         *)
OrphanResolves == (ppc = "gone") ~> (cpc \in {"none", "running", "dead"})

(* The startup contract of main.rs: a valid invocation of a program that   *)
(* can be executed starts it, unless a signal, a failed supervisor or the  *)
(* released child's own chdir or execve prevents it.                       *)
CommandStarts ==
  (kind = "run" /\ program = "found") => <>(starts = 1 \/ faults # {})

(* A terminating signal that pathshim has caught is not lost: pathshim     *)
(* does not afterwards start the command as if nothing had happened.       *)
CaughtSignalIsNotLost == captured # {} => ppc # "passthrough"

(* pathshim exits with the exit code of the command it ran in the view.    *)
ExitCodePreserved ==
  (kind = "run" /\ mode = "bind-view" /\ outcome \in {Exited(c) : c \in ExitCodes})
    => outcome = forked
===============================================================================
