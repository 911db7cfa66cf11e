------------------------------ MODULE MCGuestCwd ------------------------------
(* Three binds, s over w, x over w/c and the directory d over itself, seen *)
(* by a command that was started two levels deep.  Nothing in the view     *)
(* leads to s/c.                                                           *)
EXTENDS GuestCwd

MCNames == {"c", "d", "s", "w", "x"}
MCReserved == {}

MCView ==
  << [source |-> <<"x">>, destination |-> <<"w", "c">>],
     [source |-> <<"s">>, destination |-> <<"w">>],
     [source |-> <<"d">>, destination |-> <<"d">>] >>

MCHostDirs == {<<>>, <<"s">>, <<"s", "c">>, <<"d">>, <<"x">>, <<"x", "c">>, <<"w">>}
MCCallerCwd == <<"x", "c">>
MCStartCwds == {<<>>, <<"w">>}
MCRootCwd == {<<>>}

Absolute(path) == [absolute |-> TRUE, path |-> path]
Relative(path) == [absolute |-> FALSE, path |-> path]

(* Into both binds, out of them, to nowhere, and relative to any of them.  *)
MCArgs ==
  {Absolute(<<"w">>), Absolute(<<"d">>), Absolute(<<"s">>), Absolute(<<"c">>),
   Relative(<<"c">>), Relative(<<DotDot>>), Relative(<<DotDot, "d">>)}

(* Only directories that there are.                                        *)
MCExistingArgs == {Absolute(<<"w">>), Absolute(<<"d">>), Absolute(<<"x">>)}
===============================================================================
