------------------------------ MODULE Invocation ------------------------------
(***************************************************************************)
(* What one pathshim invocation promises its caller (the startup contract  *)
(* of src/src/main.rs and src/README.md, "Runtime adaptation"):            *)
(*                                                                         *)
(*   - the mode is chosen once, before the command starts, and never       *)
(*     changes afterwards;                                                 *)
(*   - the command starts at most once, and only in the chosen mode; in    *)
(*     passthrough mode only when the process forked for the bind-view     *)
(*     attempt is gone;                                                    *)
(*   - in bind-view mode pathshim ends as the command ended; in            *)
(*     passthrough mode pathshim becomes the command; a probe exits 0      *)
(*     only when a command really ran and exited 0 in the view.            *)
(*                                                                         *)
(* How the mode is found out (child, socket, listener, probe, supervisor)  *)
(* is the business of module Startup, which implements this one.           *)
(***************************************************************************)
EXTENDS Naturals

CONSTANTS
  ExitCodes,   \* exit codes of a command, 0 and 1 among them
  Signals      \* signals a process may be terminated by

Exited(code) == <<"exited", code>>
Signaled(signal) == <<"signaled", signal>>

(* ChildStatus: the ways a process ends.                                   *)
ChildStatus == {Exited(c) : c \in ExitCodes} \cup {Signaled(s) : s \in Signals}

Absent == <<"absent", 0>>   \* a process that was never forked
Alive  == <<"alive", 0>>    \* a process that has not ended

VARIABLES
  kind,      \* "run" or "probe"
  sigchld,   \* the caller's SIGCHLD: "ignored" leaves no status to collect
  mode,      \* "undecided", "bind-view" or "passthrough"
  starts,    \* how often the command has been started
  forked,    \* the process forked for the attempt: Absent, Alive or its end
  outcome    \* how pathshim itself ended, or Alive

vars == <<kind, sigchld, mode, starts, forked, outcome>>

Init ==
  /\ kind \in {"run", "probe"}
  /\ sigchld \in {"default", "ignored"}
  /\ mode = "undecided"
  /\ starts = 0
  /\ forked = Absent
  /\ outcome = Alive

(* A process is forked in which the view is tried out.                     *)
Fork ==
  /\ mode = "undecided" /\ forked = Absent /\ outcome = Alive
  /\ forked' = Alive
  /\ UNCHANGED <<kind, sigchld, mode, starts, outcome>>

(* The mapping works: from here on the command can only run in the view.   *)
CommitBindView ==
  /\ mode = "undecided" /\ forked = Alive /\ outcome = Alive
  /\ mode' = "bind-view"
  /\ UNCHANGED <<kind, sigchld, starts, forked, outcome>>

(* The mapping cannot be installed.                                        *)
Degrade ==
  /\ mode = "undecided" /\ outcome = Alive
  /\ mode' = "passthrough"
  /\ UNCHANGED <<kind, sigchld, starts, forked, outcome>>

(* The first and only start of the command: in bind-view mode by the       *)
(* forked process, in passthrough mode by pathshim itself.                 *)
Start ==
  /\ \/ mode = "bind-view" /\ forked = Alive
     \/ mode = "passthrough" /\ kind = "run" /\ forked # Alive /\ outcome = Alive
  /\ starts = 0
  /\ starts' = 1
  /\ UNCHANGED <<kind, sigchld, mode, forked, outcome>>

(* The forked process ends: the command it became, or an attempt that was  *)
(* given up before it became the command.                                  *)
ForkedEnds ==
  /\ forked = Alive
  /\ forked' \in ChildStatus
  /\ UNCHANGED <<kind, sigchld, mode, starts, outcome>>

(* pathshim ends as the forked process ended; a probe turns the status     *)
(* into its verdict.                                                       *)
Report ==
  /\ mode = "bind-view" /\ forked \in ChildStatus /\ outcome = Alive
  /\ outcome' =
       IF sigchld = "default" /\ (kind = "run" \/ forked = Exited(0)) THEN forked ELSE Exited(1)
  /\ UNCHANGED <<kind, sigchld, mode, starts, forked>>

(* Passthrough cannot start the command either, or a probe says so.        *)
GiveUp ==
  /\ mode = "passthrough" /\ forked # Alive /\ starts = 0 /\ outcome = Alive
  /\ outcome' = Exited(1)
  /\ UNCHANGED <<kind, sigchld, mode, starts, forked>>

(* pathshim itself is killed.                                              *)
Killed ==
  /\ outcome = Alive
  /\ mode = "passthrough" => starts = 0
  /\ \E s \in Signals : outcome' = Signaled(s)
  /\ UNCHANGED <<kind, sigchld, mode, starts, forked>>

Next ==
  \/ Fork \/ CommitBindView \/ Degrade \/ Start
  \/ ForkedEnds \/ Report \/ GiveUp \/ Killed

Spec == Init /\ [][Next]_vars
===============================================================================
