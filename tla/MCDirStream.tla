---------------------------- MODULE MCDirStream ----------------------------
(* One projected directory of two or three entries and another of one.              *)
EXTENDS DirStream
MCContents == [d \in Dirs |-> IF d = "d" THEN <<"a", "b">> ELSE <<"x">>]
MCSpare == [d \in Dirs |-> IF d = "d" THEN {"c"} ELSE {}]
MCOpens == {[dir |-> "d", projected |-> TRUE], [dir |-> "d", projected |-> FALSE],
            [dir |-> "e", projected |-> FALSE]}
=============================================================================
