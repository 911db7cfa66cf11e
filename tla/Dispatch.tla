------------------------------ MODULE Dispatch ------------------------------
(***************************************************************************)
(* The path operations of src/src/linux/dispatch.rs and the supervisor     *)
(* thread of src/src/linux/mod.rs that performs them, one notification     *)
(* after the other, for all threads of a command and its descendants.      *)
(*                                                                         *)
(* A call is notified, received, served, answered and returned.  To serve  *)
(* it is to read its path and then to answer with an error, to perform it  *)
(* on the host path behind the guest path, or to let the kernel continue   *)
(* with the syscall as it was written.  At any of these points a tracee    *)
(* may be killed, or a signal handler of it may run: the filter is         *)
(* installed without WAIT_KILLABLE_RECV, so the kernel then drops the      *)
(* notification and restarts the syscall, or fails it with EINTR.  The     *)
(* supervisor notices when it reads the memory of a thread that is gone,   *)
(* and when it answers; never before the host call.                        *)
(*                                                                         *)
(* Paths are those that resolve_path returns (module GuestCwd).            *)
(***************************************************************************)
EXTENDS MountTable

CONSTANTS
  Tracees,        \* threads of the command and of its descendants
  Command,        \* the one whose end is the command's end
  MaxCalls,       \* bound: calls of one behaviour
  MaxInterrupts   \* bound: signal handlers that run while a call waits

ASSUME TraceesAssumption == Command \in Tracees
ASSUME BoundsAssumption == MaxCalls \in Nat /\ MaxInterrupts \in Nat

VARIABLES
  (* the tracees and the kernel                                            *)
  tree,       \* the host's file system
  pc,         \* "running", "waiting", "continued", "done" or "dead"
  call,       \* the call a tracee is in, or was in last
  result,     \* what a call that is done returns
  queue,      \* tracees whose notification has not been received
  (* the supervisor                                                        *)
  sup,        \* "poll", "serving", "performing", "blocked", "injecting",
              \* "answering" or "ended"
  stop,       \* run has asked it to end
  caller,     \* whose notification it has received
  live,       \* that notification is still there
  served,     \* the call it read from the notification
  reply,      \* what it is going to answer
  (* history                                                               *)
  performed,  \* how often a tracee's current call was performed with success
  interrupted,\* tracees whose current call was interrupted
  calls, interrupts

treeVars == <<tree>>
traceeVars == <<pc, call, result, queue>>
supVars == <<sup, stop, caller, live, served, reply>>
history == <<performed, interrupted, calls, interrupts>>
vars == <<tree, traceeVars, supVars, history>>

NoCall   == [op |-> "none"]
Error(status)  == [status |-> status, seen |-> Nothing]
Continue == Error("continue")
NoReply  == Error("none")
Reply(outcome) == [status |-> outcome.status, seen |-> outcome.seen]

Statuses ==
  {"none", "ok", "continue", "ENOENT", "ENOTDIR", "EEXIST", "EISDIR", "ENOTEMPTY",
   "EBUSY", "EINVAL", "ELOOP", "EXDEV", "ENOTSUP", "EMFILE", "ENOSYS", "EINTR"}
SupStates ==
  {"poll", "serving", "performing", "blocked", "injecting", "answering", "ended"}
Replies == [status : Statuses, seen : Nodes]

(* Types; and every waiting call has one notification, which the kernel    *)
(* still queues or the supervisor has received and not answered.           *)
TypeOK ==
  /\ DOMAIN tree \subseteq Path /\ \A p \in DOMAIN tree : tree[p] \in Nodes
  /\ pc \in [Tracees -> {"running", "waiting", "continued", "done", "dead"}]
  /\ call \in [Tracees -> Calls \cup {NoCall}]
  /\ \A t \in Tracees : pc[t] \in {"waiting", "continued"} => call[t] \in Calls
  /\ result \in [Tracees -> Replies]
  /\ queue \in Seq(Tracees) /\ IsInjective(queue)
  /\ \A t \in Tracees :
       pc[t] = "waiting" <=> (t \in Range(queue)) # (live /\ caller = t)
  /\ live => sup \notin {"poll", "ended"}
  /\ sup \in SupStates
  /\ stop \in BOOLEAN /\ caller \in Tracees /\ live \in BOOLEAN
  /\ served \in Calls \cup {NoCall} /\ (sup \notin {"poll", "ended"} => served \in Calls)
  /\ reply \in Replies
  /\ performed \in [Tracees -> Nat] /\ interrupted \subseteq Tracees
  /\ calls \in 0 .. MaxCalls /\ interrupts \in 0 .. MaxInterrupts

Init ==
  /\ tree \in Trees
  /\ pc = [t \in Tracees |-> "running"] /\ call = [t \in Tracees |-> NoCall]
  /\ result = [t \in Tracees |-> NoReply] /\ queue = <<>>
  /\ sup = "poll" /\ stop = FALSE /\ caller = Command /\ live = FALSE
  /\ served = NoCall /\ reply = NoReply
  /\ performed = [t \in Tracees |-> 0] /\ interrupted = {}
  /\ calls = 0 /\ interrupts = 0

-------------------------------------------------------------------------------
(***************************************************************************)
(* The handlers                                                            *)
(***************************************************************************)

(* Fault: a rename between two binds is left to the host.                  *)
RouteRenameWithinView(c) ==
  IF "noreplace" \in c.flags THEN "ENOTSUP"
  ELSE IF ~Projects(View, c.path) /\ ~Projects(View, c.to) THEN "continue"
  ELSE IF Projects(View, c.path) # Projects(View, c.to) THEN "EXDEV"
  ELSE "perform"

(* handle_rename.                                                          *)
RouteRename(c) ==
  IF "noreplace" \in c.flags THEN "ENOTSUP"
  ELSE IF ~Projects(View, c.path) /\ ~Projects(View, c.to) THEN "continue"
  ELSE IF ~SameProjection(View, c.path, c.to) THEN "EXDEV"
  ELSE "perform"

(* Fault: what the source does not have is looked for in the host's tree.  *)
RouteWithFallback(c) ==
  IF c.op = "rename" THEN RouteRename(c)
  ELSE IF Projects(View, c.path) /\ Present(tree, ResolveProjected(View, c.path))
    THEN "perform"
  ELSE "continue"

(* All other handlers ask for the one path's projection.                   *)
Route(c) ==
  IF c.op = "rename" THEN RouteRename(c)
  ELSE IF Projects(View, c.path) THEN "perform"
  ELSE "continue"

(* bind.rs: the operation on the source.                                   *)
OnSource(c) ==
  Perform(tree, c, ResolveProjected(View, c.path), ResolveProjected(View, c.to))

-------------------------------------------------------------------------------
(***************************************************************************)
(* The tracees                                                             *)
(***************************************************************************)

(* Without a listener the kernel answers ENOSYS.                           *)
Submit(t, c) ==
  /\ pc[t] = "running" /\ calls < MaxCalls /\ calls' = calls + 1
  /\ call' = [call EXCEPT ![t] = c]
  /\ performed' = [performed EXCEPT ![t] = 0] /\ interrupted' = interrupted \ {t}
  /\ IF sup = "ended"
     THEN /\ pc' = [pc EXCEPT ![t] = "done"]
          /\ result' = [result EXCEPT ![t] = Error("ENOSYS")]
          /\ UNCHANGED queue
     ELSE /\ pc' = [pc EXCEPT ![t] = "waiting"]
          /\ queue' = Append(queue, t)
          /\ UNCHANGED result
  /\ UNCHANGED <<tree, supVars, interrupts>>

(* A continued call is the kernel's, with the path as it stands.           *)
KernelPerforms(t) ==
  LET outcome == Perform(tree, call[t], call[t].path, call[t].to) IN
  /\ pc[t] = "continued" /\ pc' = [pc EXCEPT ![t] = "done"]
  /\ tree' = outcome.tree
  /\ result' = [result EXCEPT ![t] = Reply(outcome)]
  /\ performed' = [performed EXCEPT ![t] = IF outcome.status = "ok" THEN @ + 1 ELSE @]
  /\ UNCHANGED <<call, queue, supVars, interrupted, calls, interrupts>>

Return(t) ==
  /\ pc[t] = "done" /\ pc' = [pc EXCEPT ![t] = "running"]
  /\ result' = [result EXCEPT ![t] = NoReply]
  /\ UNCHANGED <<tree, call, queue, supVars, history>>

(* The kernel takes the notification back, received or not.                *)
Withdraw(t) == live' = (live /\ caller # t)

(* The caller's id changes with its next notification.                     *)
Interrupt(t) ==
  /\ pc[t] = "waiting" /\ interrupts < MaxInterrupts
  /\ interrupts' = interrupts + 1 /\ interrupted' = interrupted \cup {t}
  /\ \/ queue' = Append(RemoveFirst(queue, t), t) /\ UNCHANGED <<pc, result>>
     \/ /\ queue' = RemoveFirst(queue, t)
        /\ pc' = [pc EXCEPT ![t] = "done"]
        /\ result' = [result EXCEPT ![t] = Error("EINTR")]
  /\ Withdraw(t)
  /\ UNCHANGED <<tree, call, sup, stop, caller, served, reply, performed, calls>>

Exit(t) ==
  /\ pc[t] # "dead" /\ pc' = [pc EXCEPT ![t] = "dead"]
  /\ result' = [result EXCEPT ![t] = NoReply]
  /\ queue' = RemoveFirst(queue, t)
  /\ Withdraw(t)
  /\ UNCHANGED <<tree, call, sup, stop, caller, served, reply, history>>

-------------------------------------------------------------------------------
(***************************************************************************)
(* The supervisor                                                          *)
(***************************************************************************)

(* The flag is read once a round, then poll and receive take the oldest    *)
(* notification; a flag that is raised in between is as good as one that   *)
(* is raised after them.                                                   *)
Receive ==
  /\ sup = "poll" /\ ~stop /\ queue # <<>> /\ sup' = "serving"
  /\ caller' = Head(queue) /\ live' = TRUE
  /\ served' = call[Head(queue)] /\ queue' = Tail(queue)
  /\ UNCHANGED <<tree, pc, call, result, stop, reply, history>>

Decide(r) == sup' = "answering" /\ reply' = r

Serving(stage) ==
  sup = stage /\ UNCHANGED <<traceeVars, stop, caller, live, served,
                             interrupted, calls, interrupts>>

(* The memory of a dead thread cannot be read: neither its path nor,       *)
(* later, the times of a utimensat, which is one of the calls "change".    *)
ServeGone ==
  /\ pc[caller] = "dead"
  /\ Serving("serving") \/ (Serving("performing") /\ served.op = "change")
  /\ Decide(Error("ENOENT")) /\ UNCHANGED <<tree, performed>>

(* The handlers' early returns: the call is refused or the kernel's.       *)
ServeElsewhere ==
  /\ Serving("serving") /\ pc[caller] # "dead" /\ Route(served) # "perform"
  /\ Decide(Error(Route(served))) /\ UNCHANGED <<tree, performed>>

(* The path is read and leads into a bind.                                 *)
ReadPath ==
  /\ Serving("serving") /\ pc[caller] # "dead" /\ Route(served) = "perform"
  /\ sup' = "performing" /\ UNCHANGED <<tree, reply, performed>>

(* open(2) of a FIFO waits for the other end; an open file goes to the     *)
(* caller, other calls are answered.                                       *)
AfterCall(outcome) ==
  IF outcome.status # "ok" \/ served.op # "open" THEN "answering"
  ELSE IF outcome.seen = Fifo THEN "blocked"
  ELSE "injecting"

(* The host call on the source, for a caller that may be gone by now.      *)
ServeOnSource ==
  LET outcome == OnSource(served) IN
  /\ Serving("performing")
  /\ tree' = outcome.tree /\ reply' = Reply(outcome) /\ sup' = AfterCall(outcome)
  /\ performed' = [performed EXCEPT ![caller] =
                     IF outcome.status = "ok" /\ live THEN @ + 1 ELSE @]

Serve == ServeGone \/ ServeElsewhere \/ ReadPath \/ ServeOnSource

(* A process outside the command opens the other end of the FIFO.          *)
PeerOpens ==
  /\ sup = "blocked" /\ sup' = "injecting"
  /\ UNCHANGED <<tree, traceeVars, stop, caller, live, served, reply, history>>

Wakes(t, to, r) ==
  /\ pc' = [pc EXCEPT ![t] = to] /\ result' = [result EXCEPT ![t] = r]

(* Fault: a descriptor that cannot be injected is answered by continuing.  *)
AddFdOrContinue ==
  /\ sup = "injecting"
  /\ \/ live /\ Wakes(caller, "done", reply) /\ sup' = "poll" /\ live' = FALSE /\ UNCHANGED reply
     \/ live /\ Decide(Continue) /\ UNCHANGED <<pc, result, live>>
     \/ ~live /\ Decide(Error("ENOENT")) /\ UNCHANGED <<pc, result, live>>
  /\ UNCHANGED <<tree, call, queue, stop, caller, served, history>>

(* ADDFD_FLAG_SEND answers the notification with the new descriptor.  The  *)
(* caller may have no number left for it, or be gone.                      *)
AddFd ==
  /\ sup = "injecting"
  /\ \/ live /\ Wakes(caller, "done", reply) /\ sup' = "poll" /\ live' = FALSE /\ UNCHANGED reply
     \/ live /\ Decide(Error("EMFILE")) /\ UNCHANGED <<pc, result, live>>
     \/ ~live /\ Decide(Error("ENOENT")) /\ UNCHANGED <<pc, result, live>>
  /\ UNCHANGED <<tree, call, queue, stop, caller, served, history>>

(* Fault: an answer that finds no notification is sent again.              *)
AnswerUntilTaken ==
  /\ sup = "answering" /\ sup' = IF live THEN "poll" ELSE "answering"
  /\ IF ~live THEN UNCHANGED <<pc, result>>
     ELSE IF reply = Continue THEN Wakes(caller, "continued", NoReply)
     ELSE Wakes(caller, "done", reply)
  /\ live' = FALSE
  /\ UNCHANGED <<tree, call, queue, stop, caller, served, reply, history>>

(* Fault: an error leaves the handler as its result and is never sent.     *)
AnswerOnlySuccess ==
  /\ sup = "answering" /\ sup' = "poll"
  /\ IF ~live \/ reply.status \notin {"ok", "continue"} THEN UNCHANGED <<pc, result, live>>
     ELSE /\ live' = FALSE
          /\ IF reply = Continue THEN Wakes(caller, "continued", NoReply)
             ELSE Wakes(caller, "done", reply)
  /\ UNCHANGED <<tree, call, queue, stop, caller, served, reply, history>>

(* respond; ENOENT says that the notification is gone, and the loop goes   *)
(* on with the next one.                                                   *)
Answer ==
  /\ sup = "answering" /\ sup' = "poll"
  /\ IF ~live THEN UNCHANGED <<pc, result>>
     ELSE IF reply = Continue THEN Wakes(caller, "continued", NoReply)
     ELSE Wakes(caller, "done", reply)
  /\ live' = FALSE
  /\ UNCHANGED <<tree, call, queue, stop, caller, served, reply, history>>

(* Fault: the loop ends with the last tracee, not with the command.        *)
SupervisorEndsOnHangUp ==
  /\ sup = "poll" /\ (\A t \in Tracees : pc[t] = "dead") /\ sup' = "ended"
  /\ UNCHANGED <<tree, traceeVars, stop, caller, live, served, reply, history>>

(* run has waited for the command.                                         *)
Stop ==
  /\ pc[Command] = "dead" /\ ~stop /\ stop' = TRUE
  /\ UNCHANGED <<tree, traceeVars, sup, caller, live, served, reply, history>>

(* The flag, or the hang-up of a listener whose tracees are all gone, ends *)
(* the loop and drops the listener: the kernel refuses what is pending.    *)
SupervisorEnds ==
  LET Refused(t) == pc[t] = "waiting" IN
  /\ sup = "poll" /\ (stop \/ \A t \in Tracees : pc[t] = "dead") /\ sup' = "ended"
  /\ pc' = [t \in Tracees |-> IF Refused(t) THEN "done" ELSE pc[t]]
  /\ result' = [t \in Tracees |-> IF Refused(t) THEN Error("ENOSYS") ELSE result[t]]
  /\ queue' = <<>>
  /\ UNCHANGED <<tree, call, stop, caller, live, served, reply, history>>

Supervisor == Receive \/ Serve \/ AddFd \/ Answer \/ SupervisorEnds

Tracee(t) ==
  \/ \E c \in Calls : Submit(t, c)
  \/ KernelPerforms(t) \/ Return(t) \/ Interrupt(t) \/ Exit(t)

Finished ==
  /\ \A t \in Tracees : pc[t] = "dead"
  /\ stop /\ sup \in {"ended", "blocked"} /\ UNCHANGED vars

Next == Supervisor \/ Stop \/ PeerOpens \/ (\E t \in Tracees : Tracee(t)) \/ Finished

Spec == Init /\ [][Next]_vars

(* Serve without its effect: it can always be taken.                       *)
Serves ==
  /\ sup \in {"serving", "performing"}
  /\ sup' \in {"performing", "blocked", "injecting", "answering"} \ {sup}

(* The supervisor thread and run are scheduled, poll returns after 100 ms  *)
(* at most, and the library calls other than the open of a FIFO return.    *)
FairSpec ==
  /\ Spec
  /\ WF_sup(Receive \/ AddFd \/ Answer \/ SupervisorEnds) /\ WF_sup(Serves)
  /\ WF_stop(Stop)

-------------------------------------------------------------------------------
(***************************************************************************)
(* What the command can rely on                                            *)
(***************************************************************************)

(* The call that the supervisor has performed and not yet answered.        *)
Decided(t) ==
  /\ pc[t] = "waiting" /\ live /\ caller = t
  /\ sup \in {"blocked", "injecting", "answering"} /\ reply # Continue

(* The mounted object behind the supervisor: a call is applied when its    *)
(* effect is there, before the tracee hears of it.                         *)
MountedStage ==
  [t \in Tracees |->
     CASE pc[t] = "running"   -> "idle"
       [] pc[t] = "dead"      -> "gone"
       [] pc[t] = "done"      -> "applied"
       [] pc[t] = "continued" -> "asked"
       [] pc[t] = "waiting"   -> IF Decided(t) THEN "applied" ELSE "asked"]

MountedAnswer == [t \in Tracees |-> IF Decided(t) THEN reply ELSE result[t]]

(* The call that is going to be performed for nobody: its caller was       *)
(* interrupted, or was killed after its path was read.                     *)
MountedStray ==
  IF ~live /\ (sup = "performing" \/ (sup = "serving" /\ pc[caller] # "dead"))
  THEN {served} ELSE {}

Mounted == INSTANCE MountedCalls WITH
  stage   <- MountedStage,
  answer  <- MountedAnswer,
  stray   <- MountedStray,
  over    <- (sup = "ended"),
  Refused <- Error

(* Every call of every process is one atomic step on the mounted object,   *)
(* however notifications, deaths and the command's end interleave.         *)
ImplementsMountedCalls == Mounted!Spec

(* A call that says it failed has done nothing, one that says it succeeded *)
(* was performed once - unless a signal handler ran while the supervisor   *)
(* had it, or the caller's descriptor table was full.                      *)
AnswerTellsEffect ==
  \A t \in Tracees :
    (pc[t] = "done" /\ t \notin interrupted /\ result[t].status # "EMFILE")
      => performed[t] = IF result[t].status = "ok" THEN 1 ELSE 0

(* What a destination hides on the host stays as it is (README.md:22: "the *)
(* Pod's original DEST tree is not a read fallback"), unless a link leads  *)
(* there or the kernel renames a directory above it: the paths of that     *)
(* call are outside every bind.                                            *)
Hidden(path) ==
  /\ Projects(View, path)
  /\ \A i \in DOMAIN View : ~IsPrefix(View[i].source, path)

LinkedTo(path) == \E p \in DOMAIN tree : p # path /\ Followed(tree, p) = path

RenamedAbove(path) ==
  \E t \in Tracees :
    /\ pc[t] = "continued" /\ pc'[t] = "done" /\ call[t].op = "rename"
    /\ IsStrictPrefix(call[t].path, path) \/ IsStrictPrefix(call[t].to, path)

HiddenTreeIsLeftAlone ==
  [][\A path \in DOMAIN tree \cup DOMAIN tree' : Hidden(path) =>
       \/ LinkedTo(path) \/ RenamedAbove(path)
       \/ /\ Present(tree, path) /\ Present(tree', path)
          /\ tree'[path] = tree[path]]_vars

(* Every call is taken up, unless the supervisor itself waits in the open  *)
(* of a FIFO.                                                              *)
EveryCallIsAnswered ==
  \A t \in Tracees : pc[t] = "waiting" ~> (pc[t] # "waiting" \/ sup = "blocked")

(* The supervisor ends after the command, whatever its descendants do.     *)
SupervisorFollowsCommand == pc[Command] = "dead" ~> sup \in {"ended", "blocked"}
=============================================================================
