----------------------------- MODULE StartupProofs -----------------------------
(***************************************************************************)
(* Safety of module Startup for any number of forwarded signals, any set   *)
(* of ignored signals and any number of signals sent.                      *)
(***************************************************************************)
EXTENDS Startup, TLAPS

(* Stations of the main thread.                                            *)
BeforeFork   == {"open", "cwd", "fork"}
BeforeProbe  == BeforeFork \cup {"recv_setup", "spawn", "arm", "install", "start"}
Undecided    == BeforeProbe \cup {"poll", "go"}
Leaving      == {"drop", "restore", "stop", "join"}
AfterCleanup == {"unavailable", "exec", "passthrough"}

(* Stations of the child around the two bytes that release it.             *)
BetweenBytes == {"stat", "open", "report_ok", "report_err", "read_go"}
Released     == {"chdir", "exec", "running"}

(* The mode is decided where the main thread stands.                       *)
ModeInv ==
  /\ ppc \in Undecided => mode = "undecided"
  /\ ppc \in {"wait", "exit"} => mode = "bind-view"
  /\ ppc \in {"rollback", "kill", "reap"} \cup AfterCleanup => mode = "passthrough"
  /\ ppc \in Leaving => mode # "undecided"
  /\ (outcome = Alive) <=> (ppc # "gone")
  /\ ppc \in {"exec", "passthrough"} => kind = "run"

(* The child's status, and when it is known to be absent or dead.          *)
ChildInv ==
  /\ cpc = "none" => forked = Absent
  /\ cpc = "dead" => forked \in ChildStatus
  /\ cpc \notin {"none", "dead"} => forked = Alive
  /\ ppc \in BeforeFork => cpc = "none"
  /\ ppc \notin BeforeFork \cup AfterCleanup \cup {"gone"} => cpc # "none"
  /\ ppc \in AfterCleanup => cpc \in {"none", "dead"}
  /\ ppc \in {"stop", "join", "exit"} => cpc = "dead"
  /\ ppc \in {"drop", "restore"} /\ mode = "bind-view" => cpc = "dead"

(* Each byte on the socket releases the child from one station only, and   *)
(* the second is written when the child has passed the first.              *)
ReleaseInv ==
  /\ ppc \in BeforeProbe => toChild = 0 /\ cpc \notin BetweenBytes
  /\ mode # "bind-view" => cpc \notin Released
  /\ mode # "bind-view" /\ cpc \in BetweenBytes => toChild = 0
  /\ mode = "bind-view" => cpc \in {"read_go", "dead"} \cup Released
  /\ ppc = "go" => cpc \in {"read_go", "dead"}
  /\ \A i \in DOMAIN toParent :
       toParent[i] = "probe_ok" => cpc \in {"read_go", "dead"} \cup Released

StartsInv ==
  /\ starts \in {0, 1}
  /\ starts = 1 =>
       ppc = "passthrough" \/ (mode = "bind-view" /\ cpc \in {"running", "dead"})

(* What of the attempt is in place, and until when.                        *)
AttemptInv ==
  /\ ppc \in BeforeFork \cup {"recv_setup", "spawn", "arm"} => installed = 0 /\ CHILD_PROCESS = 0
  /\ ppc \in {"install", "rollback"} => CHILD_PROCESS = Child
  /\ ppc \in {"start", "poll", "go", "wait"} => installed = NumSignals /\ CHILD_PROCESS = Child
  /\ ppc = "restore" => CHILD_PROCESS = 0
  /\ ppc \in {"kill", "reap", "stop", "join", "exit"} \cup AfterCleanup
       => installed = 0 /\ CHILD_PROCESS = 0
  /\ ppc \in {"open", "exec", "passthrough"} => cwd = "caller"
  /\ ppc \in {"stop", "join"} => pid = "free"
  /\ ppc \in {"drop", "restore"} /\ mode = "bind-view" => pid = "free"
  /\ ppc \in AfterCleanup /\ cpc = "dead" => pid = "free"
  /\ sigchld = "default" /\ pid = "free" =>
       \/ ppc \in {"stop", "join", "exit", "gone"} \cup AfterCleanup
       \/ ppc \in {"drop", "restore"} /\ mode = "bind-view"

SupervisorInv ==
  /\ ppc \in BeforeFork \cup {"recv_setup", "spawn"} => spc = "off"
  /\ ppc \in {"arm", "install", "start", "poll", "go", "wait"} => spc # "off"
  /\ ppc \in AfterCleanup => spc \in {"off", "done"}
  /\ stop = "set" => ppc \in {"join", "exit", "gone"} \cup AfterCleanup
  /\ spc = "done" /\ PathshimRuns =>
       stop = "set" \/ cpc = "dead" \/ "supervisor" \in faults

IInv ==
  /\ TypeOK /\ ModeInv /\ ChildInv /\ ReleaseInv /\ StartsInv /\ AttemptInv
  /\ SupervisorInv

-------------------------------------------------------------------------------
(* What the status operators of the contract stand for.                    *)
LEMMA StatusFacts ==
  /\ Alive \notin ChildStatus /\ Absent \notin ChildStatus /\ Alive # Absent
  /\ Exited(0) \in ChildStatus /\ Exited(1) \in ChildStatus
  /\ \A c \in ExitCodes : Exited(c) \in ChildStatus
  /\ \A s \in Signals : Signaled(s) \in ChildStatus
BY StartupAssumption
   DEF Alive, Absent, ChildStatus, Exited, Signaled, Contract!Alive, Contract!Absent,
       Contract!ChildStatus, Contract!Exited, Contract!Signaled

(* The sets of past events keep their types; most steps do not touch them. *)
LEMMA EventsStep ==
  ASSUME EventsOK, installed \in 0 .. NumSignals, [Next]_vars
  PROVE  EventsOK'
<1> USE DEF EventsOK, callerVars, parentVars, childVars, history
<1>1. CASE ParentStep
  BY <1>1, Zenon
  DEF ParentStep, OpenView, ConfigureCwd, ForkChild, ReceiveSetup, SpawnSupervisor,
      ArmForwarding, InstallHandler, RollbackHandler, StartProbe, PollProbe, WriteGo,
      WaitCommand, DropForwarding, RestoreHandler, KillAttempt, ReapAttempt,
      StopSupervisor, JoinSupervisor, Unavailable, ExecPassthrough, ExitWithStatus,
      OthersUnchanged
<1>2. CASE ChildStep \/ Notify \/ CommandExits
  BY <1>2, Zenon
  DEF ChildStep, InstallListener, SendListener, SendSetupError, ReadStart, ReadGo,
      SyscallRefused, ReportProbeError, ReportProbeOk, Notify, CommandExits,
      ReadByte, Intercepted, SyscallFails
<1>3. CASE SupervisorStep \/ SupervisorFails
  BY <1>3, Zenon
  DEF SupervisorStep, CheckStop, PollListener, ReceiveNotification,
      HandleNotification, SupervisorFails,
      SupervisorGoto, SyscallSucceeds, SyscallFails
<1>4. ASSUME NEW s \in Signals, SignalPathshim(s) \/ SignalChild(s) PROVE EventsOK'
  <2>1. s \in 1 .. installed /\ installed \in 0 .. NumSignals => s \in FORWARDED_SIGNALS
    BY StartupAssumption, SMT DEF FORWARDED_SIGNALS
  <2> QED
    BY <1>4, <2>1, Zenon DEF SignalPathshim, SignalChild
<1>5. CASE UNCHANGED vars
  BY <1>5, Zenon DEF vars
<1> QED
  BY <1>1, <1>2, <1>3, <1>4, <1>5, Zenon DEF Next, Finished

(* Nothing is forked, installed, sent or decided at the start.             *)
LEMMA InitIInv == Init => IInv
BY StatusFacts, StartupAssumption
   DEF Init, EventsOK, IInv, TypeOK, ModeInv, ChildInv, ReleaseInv, StartsInv, AttemptInv,
       SupervisorInv, ParentSteps, ChildSteps, SupervisorSteps, Messages, BeforeFork,
       BeforeProbe, Undecided, Leaving, AfterCleanup, BetweenBytes, Released,
       PathshimRuns, callerVars, parentVars, childVars, history

(* The main thread keeps the invariant.                                    *)
LEMMA ParentStepIInv == ASSUME IInv, EventsOK', ParentStep PROVE IInv'
<1> USE StatusFacts, StartupAssumption
    DEF IInv, TypeOK, ModeInv, ChildInv, ReleaseInv, StartsInv, AttemptInv,
      SupervisorInv, ParentSteps, ChildSteps, SupervisorSteps, Messages, BeforeFork,
      BeforeProbe, Undecided, Leaving, AfterCleanup, BetweenBytes, Released,
      PathshimRuns, callerVars, parentVars, childVars, history,
      OthersUnchanged, ParentGoto, Abandon, ParentEnds, ChildDies, ChildUnaffected,
      ChildEndOpen, Signals
<1>1. CASE OpenView
  BY <1>1, SMTT(20) DEF OpenView
<1>2. CASE ConfigureCwd
  BY <1>2, SMTT(20) DEF ConfigureCwd
<1>3. CASE ForkChild
  BY <1>3, SMTT(20) DEF ForkChild
<1>4. CASE ReceiveSetup
  BY <1>4, SMTT(20) DEF ReceiveSetup
<1>5. CASE SpawnSupervisor
  BY <1>5, SMTT(20) DEF SpawnSupervisor
<1>6. CASE ArmForwarding
  BY <1>6, SMTT(20) DEF ArmForwarding
<1>7. CASE InstallHandler
  BY <1>7, SMTT(20) DEF InstallHandler
<1>8. CASE RollbackHandler
  BY <1>8, SMTT(20) DEF RollbackHandler
<1>9. CASE StartProbe
  BY <1>9, SMTT(20) DEF StartProbe
<1>10. CASE PollProbe
  BY <1>10, SMTT(20) DEF PollProbe
<1>11. CASE WriteGo
  BY <1>11, SMTT(20) DEF WriteGo
<1>12. CASE WaitCommand
  BY <1>12, SMTT(20) DEF WaitCommand
<1>13. CASE DropForwarding
  BY <1>13, SMTT(20) DEF DropForwarding
<1>14. CASE RestoreHandler
  BY <1>14, SMTT(20) DEF RestoreHandler
<1>15. CASE KillAttempt
  BY <1>15, SMTT(20) DEF KillAttempt
<1>16. CASE ReapAttempt
  BY <1>16, SMTT(20) DEF ReapAttempt
<1>17. CASE StopSupervisor
  BY <1>17, SMTT(20) DEF StopSupervisor
<1>18. CASE JoinSupervisor
  BY <1>18, SMTT(20) DEF JoinSupervisor
<1>19. CASE Unavailable
  BY <1>19, SMTT(20) DEF Unavailable
<1>20. CASE ExecPassthrough
  BY <1>20, SMTT(20) DEF ExecPassthrough
<1>21. CASE ExitWithStatus
  BY <1>21, SMTT(20) DEF ExitWithStatus
<1> QED
  BY <1>1, <1>2, <1>3, <1>4, <1>5, <1>6, <1>7, <1>8, <1>9, <1>10, <1>11, <1>12, <1>13,
      <1>14, <1>15, <1>16, <1>17, <1>18, <1>19, <1>20, <1>21 DEF ParentStep

(* The child keeps it, before and after it is the command.                 *)
LEMMA ChildStepIInv ==
  ASSUME IInv, EventsOK', ChildStep \/ Notify \/ CommandExits
  PROVE  IInv'
<1> USE StatusFacts, StartupAssumption
    DEF IInv, TypeOK, ModeInv, ChildInv, ReleaseInv, StartsInv, AttemptInv,
      SupervisorInv, ParentSteps, ChildSteps, SupervisorSteps, Messages, BeforeFork,
      BeforeProbe, Undecided, Leaving, AfterCleanup, BetweenBytes, Released,
      PathshimRuns, callerVars, parentVars, childVars, history,
      ChildGoto, ChildDies, ReadByte, SyscallFails, ParentEndOpen, Intercepted,
      ListenerOpen
<1>1. CASE InstallListener
  BY <1>1, SMTT(20) DEF InstallListener
<1>2. CASE SendListener
  BY <1>2, SMTT(20) DEF SendListener
<1>3. CASE SendSetupError
  BY <1>3, SMTT(20) DEF SendSetupError
<1>4. CASE ReadStart
  BY <1>4, SMTT(20) DEF ReadStart
<1>5. CASE ReadGo
  BY <1>5, SMTT(20) DEF ReadGo
<1>6. CASE SyscallRefused
  BY <1>6, SMTT(20) DEF SyscallRefused
<1>7. CASE ReportProbeError
  BY <1>7, SMTT(20) DEF ReportProbeError
<1>8. CASE ReportProbeOk
  BY <1>8, SMTT(20) DEF ReportProbeOk
<1>9. CASE Notify
  BY <1>9, SMTT(20) DEF Notify
<1>10. CASE CommandExits
  BY <1>10, SMTT(20) DEF CommandExits
<1> QED
  BY <1>1, <1>2, <1>3, <1>4, <1>5, <1>6, <1>7, <1>8, <1>9, <1>10 DEF ChildStep

(* The supervisor thread keeps it.                                         *)
LEMMA SupervisorStepIInv ==
  ASSUME IInv, EventsOK', SupervisorStep \/ SupervisorFails
  PROVE  IInv'
<1> USE StatusFacts, StartupAssumption
    DEF IInv, TypeOK, ModeInv, ChildInv, ReleaseInv, StartsInv, AttemptInv,
      SupervisorInv, ParentSteps, ChildSteps, SupervisorSteps, Messages, BeforeFork,
      BeforeProbe, Undecided, Leaving, AfterCleanup, BetweenBytes, Released,
      PathshimRuns, callerVars, parentVars, childVars, history,
      SupervisorGoto, ChildDies, SyscallSucceeds, SyscallFails
<1>1. CASE CheckStop
  BY <1>1, SMTT(20) DEF CheckStop
<1>2. CASE PollListener
  BY <1>2, SMTT(20) DEF PollListener
<1>3. CASE ReceiveNotification
  BY <1>3, SMTT(20) DEF ReceiveNotification
<1>4. CASE HandleNotification
  BY <1>4, SMTT(20) DEF HandleNotification
<1>5. CASE SupervisorFails
  BY <1>5, SMTT(20) DEF SupervisorFails
<1> QED
  BY <1>1, <1>2, <1>3, <1>4, <1>5 DEF SupervisorStep

(* Signals keep it.                                                        *)
LEMMA SignalIInv ==
  ASSUME IInv, EventsOK', \E s \in Signals : SignalPathshim(s) \/ SignalChild(s)
  PROVE  IInv'
<1> USE StatusFacts, StartupAssumption
    DEF IInv, TypeOK, ModeInv, ChildInv, ReleaseInv, StartsInv, AttemptInv,
      SupervisorInv, ParentSteps, ChildSteps, SupervisorSteps, Messages, BeforeFork,
      BeforeProbe, Undecided, Leaving, AfterCleanup, BetweenBytes, Released,
      PathshimRuns, callerVars, parentVars, childVars, history,
      ChildTakes, ChildDies, ChildUnaffected, ParentEnds, Signals, FORWARDED_SIGNALS
<1>1. ASSUME NEW s \in Signals, SignalPathshim(s) PROVE IInv'
  BY <1>1, SMTT(20) DEF SignalPathshim
<1>2. ASSUME NEW s \in Signals, SignalChild(s) PROVE IInv'
  BY <1>2, SMTT(20) DEF SignalChild
<1> QED
  BY <1>1, <1>2 DEF Next

(* Every step keeps the invariant.                                         *)
LEMMA NextIInv == ASSUME IInv, [Next]_vars PROVE IInv'
<1>1. EventsOK'
  BY EventsStep DEF IInv, TypeOK
<1>2. CASE ParentStep
  BY <1>1, <1>2, ParentStepIInv
<1>3. CASE ChildStep \/ Notify \/ CommandExits
  BY <1>1, <1>3, ChildStepIInv
<1>4. CASE SupervisorStep \/ SupervisorFails
  BY <1>1, <1>4, SupervisorStepIInv
<1>5. CASE \E s \in Signals : SignalPathshim(s) \/ SignalChild(s)
  BY <1>1, <1>5, SignalIInv
<1>6. CASE UNCHANGED vars
  BY <1>1, <1>6 DEF vars, IInv, TypeOK, ModeInv, ChildInv, ReleaseInv, StartsInv,
     AttemptInv, SupervisorInv, PathshimRuns, callerVars, parentVars, childVars, history
<1> QED
  BY <1>2, <1>3, <1>4, <1>5, <1>6 DEF Next, Finished

(* The stations of the three threads, the bytes on the socket and the      *)
(* parts of the attempt fit together in every reachable state.             *)
THEOREM Inductive == Spec => []IInv
BY InitIInv, NextIInv, PTL DEF Spec

-------------------------------------------------------------------------------
(***************************************************************************)
(* The safety invariants of module Startup                                 *)
(***************************************************************************)

(* Every variable keeps to the values the code can give it.                *)
THEOREM TypeCorrectness == Spec => []TypeOK
<1>1. IInv => TypeOK
  BY DEF IInv
<1> QED
  BY <1>1, Inductive, PTL

(* The command starts at most once (child_main, linux::run, main.rs exec). *)
THEOREM SingleStart == Spec => []StartsAtMostOnce
<1>1. IInv => StartsAtMostOnce
  BY DEF IInv, StartsAtMostOnce, StartsInv
<1> QED
  BY <1>1, Inductive, PTL

(* Passthrough starts from the process the caller made (stop_attempt).     *)
THEOREM CleanPassthrough == Spec => []PassthroughIsClean
<1>1. IInv => PassthroughIsClean
  BY DEF IInv, PassthroughIsClean, TypeOK, ChildInv, AttemptInv, SupervisorInv,
         AfterCleanup, ChildSteps
<1> QED
  BY <1>1, Inductive, PTL

(* Signal forwarding is up while the command runs (SignalForwarding).      *)
THEOREM ForwardingCovers == Spec => []ForwardingCoversCommand
<1>1. IInv => ForwardingCoversCommand
  BY DEF IInv, ForwardingCoversCommand, TypeOK, ModeInv, ChildInv, ReleaseInv, AttemptInv,
         ParentSteps, BeforeFork, BeforeProbe, Undecided, Leaving, AfterCleanup, Released,
         PathshimRuns
<1> QED
  BY <1>1, Inductive, PTL

(* Forwarding is disarmed before an abandoned child is reaped.             *)
THEOREM ForwardingTarget == Spec => []ForwardsOnlyToOwnChild
<1>1. IInv => ForwardsOnlyToOwnChild
  BY DEF IInv, ForwardsOnlyToOwnChild, TypeOK, AttemptInv, AfterCleanup, PathshimRuns,
         Child
<1> QED
  BY <1>1, Inductive, PTL

(* A released child keeps its supervisor (supervise, the stop flag).       *)
THEOREM SupervisorStays == Spec => []CommandKeepsItsSupervisor
<1>1. IInv => CommandKeepsItsSupervisor
  BY DEF IInv, CommandKeepsItsSupervisor, TypeOK, ModeInv, ChildInv, ReleaseInv,
         SupervisorInv, ParentSteps, SupervisorSteps, BeforeFork, BeforeProbe, Undecided,
         Leaving, AfterCleanup, Released, PathshimRuns, ListenerOpen
<1> QED
  BY <1>1, Inductive, PTL

(* Only the final byte releases the child to its execve (read_byte).       *)
THEOREM OrphansEnd == Spec => []OrphanNeverStarts
<1>1. IInv => OrphanNeverStarts
  BY DEF IInv, OrphanNeverStarts, ReleaseInv, Released
<1> QED
  BY <1>1, Inductive, PTL

-------------------------------------------------------------------------------
(***************************************************************************)
(* Refinement: module Startup implements module Invocation, variable by    *)
(* variable of the same name                                               *)
(***************************************************************************)

(* The initial states of the code are initial states of the contract.      *)
LEMMA InitRefines == Init => Contract!Init
BY DEF Init, Contract!Init, Absent, Alive, Contract!Absent, Contract!Alive

(* A step that starts, ends and decides nothing is a stutter.              *)
LEMMA Stutter ==
  ASSUME UNCHANGED <<kind, sigchld, mode, starts, forked, outcome>>
  PROVE  [Contract!Next]_Contract!vars
BY DEF Contract!vars

(* The main thread decides the mode, forks, starts the command itself or   *)
(* reports how it ended; its other steps are stutters.                     *)
LEMMA ParentRefines == ASSUME IInv, ParentStep PROVE [Contract!Next]_Contract!vars
<1> USE StatusFacts
    DEF IInv, TypeOK, ModeInv, ChildInv, StartsInv, BeforeFork, BeforeProbe, Undecided,
      Leaving, AfterCleanup, callerVars, childVars, history, OthersUnchanged, ParentGoto,
      Abandon, ParentEnds, ChildDies, ChildUnaffected, ChildEndOpen, Absent, Alive, ChildStatus,
      Exited, Signaled, Contract!vars, Contract!Next, ChildSteps, Signals
<1>1. CASE OpenView
  BY <1>1, SMTT(20) DEF OpenView, Contract!Degrade
<1>2. CASE ConfigureCwd
  BY <1>2, SMTT(20) DEF ConfigureCwd
<1>3. CASE ForkChild
  BY <1>3, SMTT(20) DEF ForkChild, Contract!Fork, Contract!Degrade
<1>4. CASE ReceiveSetup
  BY <1>4, SMTT(20) DEF ReceiveSetup, Contract!Degrade
<1>5. CASE SpawnSupervisor
  BY <1>5, SMTT(20) DEF SpawnSupervisor, Contract!Degrade
<1>6. CASE ArmForwarding
  BY <1>6, SMTT(20) DEF ArmForwarding
<1>7. CASE InstallHandler
  BY <1>7, SMTT(20) DEF InstallHandler, Contract!Degrade
<1>8. CASE RollbackHandler
  BY <1>8, SMTT(20) DEF RollbackHandler
<1>9. CASE StartProbe
  BY <1>9, SMTT(20) DEF StartProbe, Contract!Degrade
<1>10. CASE PollProbe
  BY <1>10, SMTT(20) DEF PollProbe, Contract!Degrade
<1>11. CASE WriteGo
  BY <1>11, SMTT(20) DEF WriteGo, Contract!CommitBindView, Contract!Degrade
<1>12. CASE WaitCommand
  BY <1>12, SMTT(20) DEF WaitCommand
<1>13. CASE DropForwarding
  BY <1>13, SMTT(20) DEF DropForwarding
<1>14. CASE RestoreHandler
  BY <1>14, SMTT(20) DEF RestoreHandler
<1>15. CASE KillAttempt
  BY <1>15, SMTT(20) DEF KillAttempt, Contract!ForkedEnds
<1>16. CASE ReapAttempt
  BY <1>16, SMTT(20) DEF ReapAttempt
<1>17. CASE StopSupervisor
  BY <1>17, SMTT(20) DEF StopSupervisor
<1>18. CASE JoinSupervisor
  BY <1>18, SMTT(20) DEF JoinSupervisor
<1>19. CASE Unavailable
  BY <1>19, SMTT(20) DEF Unavailable, Contract!GiveUp
<1>20. CASE ExecPassthrough
  BY <1>20, SMTT(20) DEF ExecPassthrough, Contract!Start, Contract!GiveUp
<1>21. CASE ExitWithStatus
  BY <1>21, SMTT(20) DEF ExitWithStatus, Contract!Report
<1> QED
  BY <1>1, <1>2, <1>3, <1>4, <1>5, <1>6, <1>7, <1>8, <1>9, <1>10, <1>11, <1>12, <1>13,
      <1>14, <1>15, <1>16, <1>17, <1>18, <1>19, <1>20, <1>21 DEF ParentStep

(* The child may end; everything else it does is a stutter.                *)
LEMMA ChildRefines ==
  ASSUME IInv, ChildStep \/ Notify \/ CommandExits
  PROVE  [Contract!Next]_Contract!vars
<1> USE StatusFacts
    DEF IInv, TypeOK, ChildInv, callerVars, parentVars, childVars, history, ChildGoto,
      ChildDies, ReadByte, SyscallFails, Absent, Alive, ChildStatus, Exited, Signaled,
      Contract!vars, Contract!Next, ChildSteps
<1>1. CASE InstallListener
  BY <1>1, SMTT(20) DEF InstallListener
<1>2. CASE SendListener
  BY <1>2, SMTT(20) DEF SendListener, Contract!ForkedEnds
<1>3. CASE SendSetupError
  BY <1>3, SMTT(20) DEF SendSetupError, Contract!ForkedEnds
<1>4. CASE ReadStart
  BY <1>4, SMTT(20) DEF ReadStart, Contract!ForkedEnds
<1>5. CASE ReadGo
  BY <1>5, SMTT(20) DEF ReadGo, Contract!ForkedEnds
<1>6. CASE SyscallRefused
  BY <1>6, SMTT(20) DEF SyscallRefused, Contract!ForkedEnds
<1>7. CASE ReportProbeError
  BY <1>7, SMTT(20) DEF ReportProbeError, Contract!ForkedEnds
<1>8. CASE ReportProbeOk
  BY <1>8, SMTT(20) DEF ReportProbeOk, Contract!ForkedEnds
<1>9. CASE Notify
  BY <1>9, SMTT(20) DEF Notify
<1>10. CASE CommandExits
  BY <1>10, SMTT(20) DEF CommandExits, Contract!ForkedEnds
<1> QED
  BY <1>1, <1>2, <1>3, <1>4, <1>5, <1>6, <1>7, <1>8, <1>9, <1>10 DEF ChildStep

(* The supervisor's answer to execve is where the command starts.          *)
LEMMA SupervisorRefines ==
  ASSUME IInv, SupervisorStep \/ SupervisorFails
  PROVE  [Contract!Next]_Contract!vars
<1> USE StatusFacts
    DEF IInv, TypeOK, ChildInv, ReleaseInv, StartsInv, Released, callerVars, parentVars, childVars,
      history, SupervisorGoto, ChildDies, SyscallFails, SyscallSucceeds, Absent, Alive,
      ChildStatus, Exited, Signaled, Contract!vars, Contract!Next, ChildSteps
<1>1. CASE CheckStop
  BY <1>1, SMTT(20) DEF CheckStop
<1>2. CASE PollListener
  BY <1>2, SMTT(20) DEF PollListener
<1>3. CASE ReceiveNotification
  BY <1>3, SMTT(20) DEF ReceiveNotification
<1>4. CASE HandleNotification
  <2>1. CASE notif = "received" /\ SyscallSucceeds /\ cpc = "exec"
    <3>1. mode = "bind-view" /\ forked = Alive /\ starts = 0
      BY <2>1 DEF AfterCleanup
    <3>2. starts' = 1 /\ UNCHANGED <<kind, sigchld, mode, forked, outcome>>
      BY <1>4, <2>1, <3>1 DEF HandleNotification
    <3> QED
      BY <3>1, <3>2 DEF Contract!Start, Contract!Alive
  <2>2. CASE notif = "received" /\ SyscallSucceeds /\ cpc # "exec"
    BY <1>4, <2>2 DEF HandleNotification
  <2>3. CASE notif = "received" /\ SyscallFails
    BY <1>4, <2>3 DEF HandleNotification, Contract!ForkedEnds
  <2>4. CASE notif # "received"
    BY <1>4, <2>4 DEF HandleNotification
  <2> QED
    BY <1>4, <2>1, <2>2, <2>3, <2>4 DEF HandleNotification
<1>5. CASE SupervisorFails
  BY <1>5, SMTT(20) DEF SupervisorFails
<1> QED
  BY <1>1, <1>2, <1>3, <1>4, <1>5 DEF SupervisorStep

(* A signal ends the child, pathshim, or nothing.                          *)
LEMMA SignalRefines ==
  ASSUME IInv, \E s \in Signals : SignalPathshim(s) \/ SignalChild(s)
  PROVE  [Contract!Next]_Contract!vars
<1> USE StatusFacts
    DEF IInv, TypeOK, ModeInv, ChildInv, StartsInv, PathshimRuns, callerVars, parentVars, childVars,
      history, ChildTakes, ChildDies, ChildUnaffected, ParentEnds, Absent, Alive, ChildStatus,
      Exited, Signaled, Contract!vars, Contract!Next, ChildSteps
<1>1. ASSUME NEW s \in Signals, SignalPathshim(s) PROVE [Contract!Next]_Contract!vars
  BY <1>1, SMTT(20) DEF SignalPathshim, Contract!ForkedEnds, Contract!Killed
<1>2. ASSUME NEW s \in Signals, SignalChild(s) PROVE [Contract!Next]_Contract!vars
  BY <1>2, SMTT(20) DEF SignalChild, Contract!ForkedEnds
<1> QED
  BY <1>1, <1>2

(* Every step maps to a step of the contract or to a stutter.              *)
LEMMA NextRefines == ASSUME IInv, [Next]_vars PROVE [Contract!Next]_Contract!vars
<1>1. CASE UNCHANGED vars
  BY <1>1, Stutter DEF vars, callerVars, parentVars, childVars
<1> QED
  BY <1>1, ParentRefines, ChildRefines, SupervisorRefines, SignalRefines DEF Next, Finished

(* One invocation of the code is one invocation of the contract: one mode, *)
(* at most one start, the command's own status, an honest probe verdict.   *)
THEOREM Implementation == Spec => ImplementsContract
<1>1. Spec => Contract!Spec
  BY InitRefines, NextRefines, Inductive, PTL DEF Spec, Contract!Spec
<1> QED
  BY <1>1 DEF ImplementsContract
===============================================================================
