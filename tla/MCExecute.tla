----------------------------- MODULE MCExecute -----------------------------
(* A mapped program whose destination hides another one, a mapped path too *)
(* short for its alias, and a program outside the binds.                   *)
EXTENDS Execute

MCPods == [p \in Paths |-> CASE p = "/w/app" -> "hidden" [] p = "/w" -> Absent [] OTHER -> "pod"]
MCSources ==
  { [p \in Paths |-> IF p \in Projected THEN i ELSE Absent] : i \in {"elf", "script", "secret", Absent} }

Own == [t \in Tasks |-> t]
One == [t \in Tasks |-> CHOOSE u \in Tasks : TRUE]
Separate == {[space |-> Own, files |-> Own], [space |-> One, files |-> One]}
Vfork    == {[space |-> One, files |-> Own]}
=============================================================================
