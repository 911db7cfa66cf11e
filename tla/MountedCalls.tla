---------------------------- MODULE MountedCalls ----------------------------
(***************************************************************************)
(* What the path calls of a command promise under a bind view: each one is *)
(* performed once, in one step between its submission and its return, with *)
(* the effect it has under real mounts (src/docs/kernel.md:27: O_EXCL and   *)
(* rename are as atomic as in the underlying file system).                 *)
(*                                                                         *)
(* The exceptions are the ones that are allowed here by name: Interrupt,   *)
(* Die and Stray (a signal handler runs or the caller is killed while the  *)
(* call is served, and it takes effect all the same), OutOfFds, and Over   *)
(* (the command is gone); and those of Effect, which module MountTable     *)
(* lists.                                                                  *)
(***************************************************************************)
CONSTANTS
  Tracees,      \* threads of the command and of its descendants
  Command,      \* the one whose end is the command's end
  Calls,        \* path calls
  Trees,        \* what the host may hold at first
  Effect(_, _), \* the tree, status and data that a call leaves of a tree
  Refused(_)    \* the answer with that status and no data

VARIABLES
  tree,     \* the host's file system
  stage,    \* of each tracee: "idle", "asked", "applied" or "gone"
  call,     \* the call each tracee is in, or was in last
  answer,   \* what an applied call is to return
  stray,    \* a call without a caller that may still take effect
  over      \* nobody serves the command's descendants any more

vars == <<tree, stage, call, answer, stray, over>>

NoCall == [op |-> "none"]
Reply(outcome) == [status |-> outcome.status, seen |-> outcome.seen]
NoAnswer == Refused("none")

Init ==
  /\ tree \in Trees
  /\ stage = [t \in Tracees |-> "idle"]
  /\ call = [t \in Tracees |-> NoCall]
  /\ answer = [t \in Tracees |-> NoAnswer]
  /\ stray = {} /\ over = FALSE

Stage(t, from, to) == stage[t] = from /\ stage' = [stage EXCEPT ![t] = to]
Answers(t, reply)  == answer' = [answer EXCEPT ![t] = reply]

Ask(t, c) ==
  /\ call' = [call EXCEPT ![t] = c]
  /\ ~over /\ Stage(t, "idle", "asked")
  /\ UNCHANGED <<tree, answer, stray, over>>

Apply(t) ==
  /\ Stage(t, "asked", "applied")
  /\ tree' = Effect(tree, call[t]).tree /\ Answers(t, Reply(Effect(tree, call[t])))
  /\ UNCHANGED <<call, stray, over>>

(* The file is open, and perhaps made, but the caller cannot have it.      *)
OutOfFds(t) ==
  /\ call[t].op = "open" /\ stage[t] = "applied" /\ answer[t].status = "ok"
  /\ Answers(t, Refused("EMFILE"))
  /\ UNCHANGED <<tree, stage, call, stray, over>>

Return(t) ==
  /\ Stage(t, "applied", "idle") /\ Answers(t, NoAnswer)
  /\ UNCHANGED <<tree, call, stray, over>>

(* A signal handler runs: the call starts again, or it fails with EINTR -  *)
(* in either case after it took effect, before, or with the effect to come.*)
Interrupt(t) ==
  /\ stage[t] \in {"asked", "applied"}
  /\ \/ stage' = [stage EXCEPT ![t] = "asked"] /\ Answers(t, NoAnswer)
     \/ stage' = [stage EXCEPT ![t] = "applied"] /\ Answers(t, Refused("EINTR"))
  /\ \/ UNCHANGED stray
     \/ stage[t] = "asked" /\ stray = {} /\ stray' = {call[t]}
  /\ UNCHANGED <<tree, call, over>>

Stray ==
  /\ stray # {} /\ stray' = {}
  /\ tree' \in {tree} \cup {Effect(tree, c).tree : c \in stray}
  /\ UNCHANGED <<stage, call, answer, over>>

(* What the dead asked for may still take effect, or no longer.            *)
Die(t) ==
  /\ stage[t] # "gone" /\ stage' = [stage EXCEPT ![t] = "gone"]
  /\ Answers(t, NoAnswer)
  /\ \/ stray' \in {stray, {}}
     \/ stage[t] = "asked" /\ stray = {} /\ stray' = {call[t]}
  /\ UNCHANGED <<tree, call, over>>

(* The command has ended: what was asked and not applied may be refused,   *)
(* and every later call is.                                                *)
Over ==
  /\ ~over /\ over' = TRUE /\ stage[Command] = "gone" /\ stray = {}
  /\ \E refused \in SUBSET {t \in Tracees : stage[t] = "asked"} :
       /\ stage' = [t \in Tracees |-> IF t \in refused THEN "applied" ELSE stage[t]]
       /\ answer' = [t \in Tracees |-> IF t \in refused THEN Refused("ENOSYS") ELSE answer[t]]
  /\ UNCHANGED <<tree, call, stray>>

AskLate(t, c) ==
  /\ call' = [call EXCEPT ![t] = c]
  /\ over /\ Stage(t, "idle", "applied") /\ Answers(t, Refused("ENOSYS"))
  /\ UNCHANGED <<tree, stray, over>>

Next ==
  \/ \E t \in Tracees :
       \/ \E c \in Calls : Ask(t, c) \/ AskLate(t, c)
       \/ Apply(t) \/ OutOfFds(t) \/ Return(t) \/ Interrupt(t) \/ Die(t)
  \/ Stray \/ Over

Spec == Init /\ [][Next]_vars
=============================================================================
