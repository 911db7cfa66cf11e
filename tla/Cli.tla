-------------------------------- MODULE Cli --------------------------------
(***************************************************************************)
(* The command line of src/src/cli.rs: the parser, one argument at a time, *)
(* and the grammar that its help text describes, one option at a time.     *)
(*                                                                         *)
(* An argument is the sequence of its symbols: the spelling of an option,  *)
(* ":", "/", or a piece of other text.  The spellings of one option are    *)
(* one symbol.                                                             *)
(***************************************************************************)
EXTENDS Integers, Sequences, SequencesExt

CONSTANTS
  Arguments,  \* the arguments that a command line may hold
  MaxArgs     \* bound: their number

(* Symbols that begin with "-"; the last one is no option's.               *)
Dashed == {"--", "--help", "--version", "--quiet", "--bind", "--cwd", "--bind=", "--cwd=", "-x"}

ASSUME ArgumentsAssumption ==
  /\ Arguments \subseteq Seq(STRING) /\ MaxArgs \in Nat
  /\ {<<"--">>, <<"--help">>, <<"--version">>, <<"--quiet">>, <<"--bind">>, <<"--cwd">>, <<"probe">>}
       \subseteq Arguments

BeginsWith(arg, symbols) == arg # <<>> /\ Head(arg) \in symbols

Failure       == [kind |-> "error"]
HelpResult    == [kind |-> "help"]
VersionResult == [kind |-> "version"]
ProbeResult(binds) == [kind |-> "probe", binds |-> binds]
RunResult(binds, cwd, quiet, command) ==
  [kind |-> "run", binds |-> binds, cwd |-> cwd, quiet |-> quiet, command |-> command]

-------------------------------------------------------------------------------
(***************************************************************************)
(* The parser                                                              *)
(***************************************************************************)

(* parse_bind: what is before and after the first ":".                     *)
Colons(value) == {i \in DOMAIN value : value[i] = ":"}
FirstColon(value) == CHOOSE i \in Colons(value) : \A j \in Colons(value) : i <= j

BindOf(value) ==
  [source |-> SubSeq(value, 1, FirstColon(value) - 1),
   destination |-> SubSeq(value, FirstColon(value) + 1, Len(value))]

IsBind(value) ==
  /\ Colons(value) # {}
  /\ BindOf(value).source # <<>> /\ BeginsWith(BindOf(value).destination, {"/"})

(* The loop's variables: what it takes the next argument for, and what it  *)
(* has collected.                                                          *)
Start == [expects |-> "option", binds |-> <<>>, cwd |-> <<"/">>, quiet |-> FALSE,
          command |-> <<>>, result |-> Failure]

Expects(parser, what)   == [parser EXCEPT !.expects = what]
Returns(parser, result) == [Expects(parser, "nothing") EXCEPT !.result = result]

TakeBind(parser, value) ==
  IF IsBind(value) THEN [Expects(parser, "option") EXCEPT !.binds = Append(@, BindOf(value))]
  ELSE Returns(parser, Failure)

TakeCwd(parser, value) == [Expects(parser, "option") EXCEPT !.cwd = value]

TakeCommand(parser, arg) == [Expects(parser, "arguments") EXCEPT !.command = Append(@, arg)]

(* Fault: options go on after the command.                                 *)
TakeOptionAnywhere(parser, arg) ==
  IF arg = <<"--help">> THEN Returns(parser, HelpResult)
  ELSE IF arg = <<"--quiet">> THEN [parser EXCEPT !.quiet = TRUE]
  ELSE IF arg = <<"--bind">> THEN Expects(parser, "bind")
  ELSE IF arg = <<"--cwd">> THEN Expects(parser, "cwd")
  ELSE IF BeginsWith(arg, {"--bind="}) THEN TakeBind(parser, Tail(arg))
  ELSE IF BeginsWith(arg, {"--cwd="}) THEN TakeCwd(parser, Tail(arg))
  ELSE IF BeginsWith(arg, Dashed) THEN Returns(parser, Failure)
  ELSE [parser EXCEPT !.command = Append(@, arg)]

(* parse_run while it parses options.                                      *)
TakeOption(parser, arg) ==
  IF arg = <<"--">> THEN Expects(parser, "command")
  ELSE IF arg = <<"--help">> THEN Returns(parser, HelpResult)
  ELSE IF arg = <<"--version">> THEN Returns(parser, VersionResult)
  ELSE IF arg = <<"--quiet">> THEN [parser EXCEPT !.quiet = TRUE]
  ELSE IF arg = <<"--bind">> THEN Expects(parser, "bind")
  ELSE IF arg = <<"--cwd">> THEN Expects(parser, "cwd")
  ELSE IF BeginsWith(arg, {"--bind="}) THEN TakeBind(parser, Tail(arg))
  ELSE IF arg = <<"--cwd=">> THEN Returns(parser, Failure)
  ELSE IF BeginsWith(arg, {"--cwd="}) THEN TakeCwd(parser, Tail(arg))
  ELSE IF BeginsWith(arg, Dashed) THEN Returns(parser, Failure)
  ELSE TakeCommand(parser, arg)

Take(parser, arg) ==
  CASE parser.expects = "option" -> TakeOption(parser, arg)
    [] parser.expects = "bind"   -> TakeBind(parser, arg)
    [] parser.expects = "cwd"    -> TakeCwd(parser, arg)
    [] parser.expects \in {"command", "arguments"} -> TakeCommand(parser, arg)
    [] parser.expects = "nothing" -> parser

(* parse_probe.                                                            *)
TakeForProbe(parser, arg) ==
  IF parser.expects = "nothing" THEN parser
  ELSE IF parser.expects = "bind" THEN TakeBind(parser, arg)
  ELSE IF parser.expects = "option" /\ arg = <<"--help">>
    THEN Returns(parser, HelpResult)
  ELSE IF parser.expects = "option" /\ arg = <<"--bind">> THEN Expects(parser, "bind")
  ELSE IF parser.expects = "option" /\ BeginsWith(arg, {"--bind="})
    THEN TakeBind(parser, Tail(arg))
  ELSE Returns(parser, Failure)

(* The loops of parse_run and parse_probe.                                 *)
Step(usage, parser, arg) ==
  IF usage = "run" THEN Take(parser, arg) ELSE TakeForProbe(parser, arg)

Reads(usage, args) ==
  LET parser[n \in 0 .. Len(args)] ==
        IF n = 0 THEN Start ELSE Step(usage, parser[n - 1], args[n])
  IN parser[Len(args)]

(* What they return after the last argument.                               *)
RunEnds(parser) ==
  IF parser.expects \in {"nothing", "bind", "cwd"} THEN parser.result
  ELSE IF parser.binds = <<>> \/ parser.command = <<>> THEN Failure
  ELSE RunResult(parser.binds, parser.cwd, parser.quiet, parser.command)

ProbeEnds(parser) ==
  IF parser.expects \in {"nothing", "bind"} THEN parser.result
  ELSE IF parser.binds = <<>> THEN Failure
  ELSE ProbeResult(parser.binds)

Parse(args) ==
  IF args # <<>> /\ Head(args) = <<"probe">>
  THEN ProbeEnds(Reads("probe", Tail(args)))
  ELSE RunEnds(Reads("run", args))

-------------------------------------------------------------------------------
(***************************************************************************)
(* The grammar                                                             *)
(***************************************************************************)

(* What may follow the first arguments of a command line.                  *)
Rests(first) == UNION {[1 .. n -> Arguments] : n \in 0 .. MaxArgs - first}

(* A list of options: its arguments, and what it stands for.               *)
List(args, binds, cwd, quiet) == [args |-> args, binds |-> binds, cwd |-> cwd, quiet |-> quiet]
NoOptions == List(<<>>, <<>>, <<"/">>, FALSE)

(* It goes on with a bind, or with another option.                         *)
WithBind(list, args, value) ==
  List(list.args \o args, Append(list.binds, BindOf(value)), list.cwd, list.quiet)

WithCwd(list, args, value) == List(list.args \o args, list.binds, value, list.quiet)

MoreBinds(list) ==
  {WithBind(list, <<<<"--bind">>, value>>, value) : value \in {v \in Arguments : IsBind(v)}}
    \cup {WithBind(list, <<arg>>, Tail(arg)) :
            arg \in {a \in Arguments : BeginsWith(a, {"--bind="}) /\ IsBind(Tail(a))}}

MoreSettings(list) ==
  {List(Append(list.args, <<"--quiet">>), list.binds, list.cwd, TRUE)}
    \cup {WithCwd(list, <<<<"--cwd">>, value>>, value) : value \in Arguments}
    \cup {WithCwd(list, <<arg>>, Tail(arg)) :
            arg \in {a \in Arguments : BeginsWith(a, {"--cwd="}) /\ Len(a) > 1}}

More(usage, list) == MoreBinds(list) \cup (IF usage = "run" THEN MoreSettings(list) ELSE {})

(* The lists of options that a command line can begin with.                *)
Longer(usage, lists) ==
  UNION {{list} \cup {more \in More(usage, list) : Len(more.args) <= MaxArgs} : list \in lists}

Lists(usage) ==
  LET grown[n \in 0 .. MaxArgs] ==
        IF n = 0 THEN {NoOptions} ELSE Longer(usage, grown[n - 1])
  IN grown[MaxArgs]

Sentence(args, result) == [args |-> args, result |-> result]

(* [OPTIONS] <COMMAND> [ARGS...] and [OPTIONS] -- <COMMAND> [ARGS...]      *)
IsCommand(args) == args # <<>> /\ ~BeginsWith(Head(args), Dashed)

Commands(list) ==
  LET result(command) == RunResult(list.binds, list.cwd, list.quiet, command) IN
  {Sentence(list.args \o command, result(command)) :
     command \in {c \in Rests(Len(list.args)) : IsCommand(c)}}
  \cup {Sentence(Append(list.args, <<"--">>) \o command, result(command)) :
          command \in Rests(Len(list.args) + 1) \ {<<>>}}

(* --help and --version end the command line after any options.            *)
Ends(list, arg, result) ==
  {Sentence(Append(list.args, arg) \o rest, result) : rest \in Rests(Len(list.args) + 1)}

RunSentences(list) ==
  {s \in Commands(list) : list.binds # <<>>}
    \cup Ends(list, <<"--help">>, HelpResult) \cup Ends(list, <<"--version">>, VersionResult)

ProbeSentences(list) ==
  {s \in {Sentence(list.args, ProbeResult(list.binds))} : list.binds # <<>>}
    \cup Ends(list, <<"--help">>, HelpResult)

RunLanguage   == UNION {RunSentences(list) : list \in Lists("run")}
ProbeLanguage == UNION {ProbeSentences(list) : list \in Lists("probe")}

Language ==
  RunLanguage \cup
  {Sentence(<<<<"probe">>>> \o s.args, s.result) : s \in {p \in ProbeLanguage : Len(p.args) < MaxArgs}}

(* The parser accepts the command lines of the grammar, with the meaning   *)
(* they have there, and no others: options end at the first argument that  *)
(* is none, "--" once, values are taken whatever they look like.           *)
ParsesItsGrammar ==
  {s \in {Sentence(args, Parse(args)) : args \in Rests(0)} : s.result # Failure} = Language
=============================================================================
