------------------------------ MODULE MCBindView ------------------------------
(* A host with the source trees s and t, a link to one of them, and a      *)
(* regular file f; destinations that nest, repeat, climb with ".." or must *)
(* be refused.                                                             *)
EXTENDS BindView, Cli

MCNames == {"w", "c", "dev", "s", "t", "link", "f"}
MCReserved == {"dev"}

MCSources == {<<"s">>, <<"s", "c">>, <<"t">>, <<"link">>, <<"f", "c">>}

MCLinkMaps ==
  {[p \in MCSources |-> IF p = <<"link">> THEN target ELSE p] : target \in {<<"s">>, <<"t">>}}

MCDestinations ==
  {<<"w">>, <<"w", "c">>, <<"c">>, <<"w", DotDot, "c">>, <<"c", Dot, "w">>,
   <<DotDot, "c", "w", DotDot>>, <<>>, <<"w", DotDot>>, <<"dev", "w">>}

MCBinds ==
  [source : MCSources, absolute : {TRUE}, destination : MCDestinations]
    \cup [source : {<<"s">>}, absolute : {FALSE}, destination : {<<"w">>}]

MCCwds ==
  {<<>>, <<"w">>, <<"w", "c">>, <<"w", "f">>, <<"c", "t", DotDot>>, <<"t">>, <<"f">>,
   <<"f", "c">>, <<"dev">>, <<"w", DotDot, DotDot, "c", "c">>}

MCHostDirs == {<<>>, <<"s">>, <<"dev">>, <<"t">>}
MCHostFiles == {<<"f">>, <<"s", "f">>}
MCArguments ==
  { <<"--">>, <<"--help">>, <<"--version">>, <<"--quiet">>, <<"--bind">>, <<"--cwd">>,
    <<"--bind=", "a", ":", "/">>, <<"--bind=">>, <<"--cwd=">>, <<"--cwd=", "a">>, <<"-x">>, <<"probe">>,
    <<"a", ":", "/", ":">>, <<"a", ":", "a">>, <<":", "/">>, <<>> }

(* The parser does not depend on the state: one is enough to try it.       *)
ParsesItsGrammarAtStart ==
  phase = "opening" /\ projections = <<>> => ParsesItsGrammar
===============================================================================
