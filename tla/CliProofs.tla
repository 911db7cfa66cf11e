------------------------------ MODULE CliProofs ------------------------------
(***************************************************************************)
(* The parser of cli.rs accepts the language of its grammar, with the      *)
(* meaning it has there, for any arguments and any number of them (modules *)
(* Cli and MCBindView, whose run checks the same).                         *)
(*                                                                         *)
(* The parser reads arguments, the grammar options: a list of options is   *)
(* where the parser stands when it expects another one.                    *)
(***************************************************************************)
EXTENDS MCBindView, ViewPathsProofs

-------------------------------------------------------------------------------
(***************************************************************************)
(* The parser's loop                                                       *)
(***************************************************************************)

(* What the loop has collected after its first n arguments.                *)
ReadUpTo(parser, usage, args, n) ==
  parser = [k \in 0 .. n |-> IF k = 0 THEN Start ELSE Step(usage, parser[k - 1], args[k])]

LEMMA ReadUpToEach ==
  ASSUME NEW usage, NEW args, NEW n \in Nat
  PROVE  \E parser : ReadUpTo(parser, usage, args, n)
<1> DEFINE S == {k \in Nat : \E parser : ReadUpTo(parser, usage, args, k)}
<1>1. 0 \in S
  <2>1. ReadUpTo([k \in 0 .. 0 |-> Start], usage, args, 0)
    BY DEF ReadUpTo
  <2> QED
    BY <2>1
<1>2. ASSUME NEW k \in Nat, k \in S PROVE k + 1 \in S
  <2>1. PICK parser : ReadUpTo(parser, usage, args, k)
    BY <1>2
  <2> DEFINE more == [m \in 0 .. k + 1 |->
                        IF m = k + 1 THEN Step(usage, parser[k], args[k + 1]) ELSE parser[m]]
  <2>2. \A m \in 0 .. k : more[m] = parser[m]
    OBVIOUS
  <2>3. \A m \in 0 .. k + 1 :
          more[m] = IF m = 0 THEN Start ELSE Step(usage, more[m - 1], args[m])
    <3>1. SUFFICES ASSUME NEW m \in 0 .. k + 1
                   PROVE  more[m] = IF m = 0 THEN Start ELSE Step(usage, more[m - 1], args[m])
      OBVIOUS
    <3>2. CASE m = k + 1
      <4>1. more[m - 1] = parser[k]
        BY <2>2, <3>2
      <4> QED
        BY <3>2, <4>1
    <3>3. CASE m \in 1 .. k
      <4>1. parser[m] = Step(usage, parser[m - 1], args[m])
        BY <2>1, <3>3 DEF ReadUpTo
      <4>2. more[m] = parser[m] /\ more[m - 1] = parser[m - 1]
        BY <2>2, <3>3
      <4> QED
        BY <3>3, <4>1, <4>2
    <3>4. CASE m = 0
      <4>1. parser[0] = Start
        BY <2>1 DEF ReadUpTo
      <4> QED
        BY <2>2, <3>4, <4>1
    <3> QED
      BY <3>2, <3>3, <3>4
  <2>4. ReadUpTo(more, usage, args, k + 1)
    <3> HIDE DEF more
    <3>1. more = [m \in 0 .. k + 1 |-> more[m]]
      BY DEF more
    <3> QED
      BY <2>3, <3>1 DEF ReadUpTo
  <2> QED
    BY <2>4
<1>3. Nat \subseteq S
  <2> HIDE DEF S
  <2> QED
    BY <1>1, <1>2, InductionOnSet
<1> QED
  BY <1>3

(* The rounds of the loop, one per argument.                               *)
LEMMA ReadRounds ==
  ASSUME NEW usage, NEW args, Len(args) \in Nat
  PROVE  \E parser : /\ parser[0] = Start
                     /\ \A n \in 1 .. Len(args) : parser[n] = Step(usage, parser[n - 1], args[n])
                     /\ Reads(usage, args) = parser[Len(args)]
<1> DEFINE parser == CHOOSE parser : ReadUpTo(parser, usage, args, Len(args))
<1>1. ReadUpTo(parser, usage, args, Len(args))
  BY ReadUpToEach
<1>2. Reads(usage, args) = parser[Len(args)]
  BY DEF Reads, ReadUpTo
<1> HIDE DEF parser
<1>3. /\ parser[0] = Start
      /\ \A n \in 1 .. Len(args) : parser[n] = Step(usage, parser[n - 1], args[n])
  BY <1>1 DEF ReadUpTo
<1> QED
  BY <1>2, <1>3

(* The loop begins with nothing collected, and one more argument is one    *)
(* round more.                                                             *)
LEMMA ReadsNext ==
  ASSUME NEW usage
  PROVE  /\ Reads(usage, <<>>) = Start
         /\ \A args \in Seq(Arguments), arg \in Arguments :
              Reads(usage, Append(args, arg)) = Step(usage, Reads(usage, args), arg)
<1>1. Reads(usage, <<>>) = Start
  <2>1. Len(<<>>) = 0
    OBVIOUS
  <2> QED
    BY <2>1, ReadRounds
<1>2. ASSUME NEW args \in Seq(Arguments), NEW arg \in Arguments
      PROVE  Reads(usage, Append(args, arg)) = Step(usage, Reads(usage, args), arg)
  <2> DEFINE whole == Append(args, arg)
             count == Len(args)
  <2>1. /\ count \in Nat /\ Len(whole) = count + 1 /\ whole[count + 1] = arg
        /\ \A n \in 1 .. count : whole[n] = args[n]
    OBVIOUS
  <2> HIDE DEF whole
  <2>2. PICK first : /\ first[0] = Start
                     /\ \A n \in 1 .. count : first[n] = Step(usage, first[n - 1], args[n])
                     /\ Reads(usage, args) = first[count]
    BY <2>1, ReadRounds
  <2>3. PICK all : /\ all[0] = Start
                   /\ \A n \in 1 .. count + 1 : all[n] = Step(usage, all[n - 1], whole[n])
                   /\ Reads(usage, whole) = all[count + 1]
    <3>1. Len(whole) \in Nat
      BY <2>1
    <3>2. PICK parser : /\ parser[0] = Start
                        /\ \A n \in 1 .. Len(whole) : parser[n] = Step(usage, parser[n - 1], whole[n])
                        /\ Reads(usage, whole) = parser[Len(whole)]
      BY <3>1, ReadRounds
    <3> QED
      BY <2>1, <3>2
  <2> HIDE DEF count
  <2> DEFINE S == {n \in Nat : n <= count => all[n] = first[n]}
  <2>4. 0 \in S
    BY <2>2, <2>3
  <2>5. ASSUME NEW n \in Nat, n \in S PROVE n + 1 \in S
    <3>1. SUFFICES ASSUME n + 1 <= count PROVE all[n + 1] = first[n + 1]
      OBVIOUS
    <3>2. n + 1 \in 1 .. count /\ n + 1 \in 1 .. count + 1 /\ (n + 1) - 1 = n /\ n <= count
      BY <2>1, <3>1
    <3>3. all[n] = first[n] /\ whole[n + 1] = args[n + 1]
      BY <2>1, <2>5, <3>2
    <3>4. first[n + 1] = Step(usage, first[(n + 1) - 1], args[n + 1])
      BY <2>2, <3>2
    <3>5. all[n + 1] = Step(usage, all[(n + 1) - 1], whole[n + 1])
      BY <2>3, <3>2
    <3> QED
      BY <3>2, <3>3, <3>4, <3>5
  <2>6. all[count] = first[count]
    <3>1. Nat \subseteq S
      <4> HIDE DEF S
      <4> QED
        BY <2>4, <2>5, InductionOnSet
    <3> QED
      BY <2>1, <3>1
  <2>7. all[count + 1] = Step(usage, all[count], arg)
    <3>1. count + 1 \in 1 .. count + 1 /\ (count + 1) - 1 = count
      BY <2>1
    <3>2. all[count + 1] = Step(usage, all[(count + 1) - 1], whole[count + 1])
      BY <2>3, <3>1
    <3> QED
      BY <2>1, <3>1, <3>2
  <2> QED
    BY <2>2, <2>3, <2>6, <2>7 DEF whole
<1> QED
  BY <1>1, <1>2

-------------------------------------------------------------------------------
(***************************************************************************)
(* The lists of options of the grammar                                     *)
(***************************************************************************)

(* The lists that the first n options make.                                *)
GrownUpTo(grown, usage, n) ==
  grown = [k \in 0 .. n |-> IF k = 0 THEN {NoOptions} ELSE Longer(usage, grown[k - 1])]

LEMMA GrownUpToEach ==
  ASSUME NEW usage, NEW n \in Nat
  PROVE  \E grown : GrownUpTo(grown, usage, n)
<1> DEFINE S == {k \in Nat : \E grown : GrownUpTo(grown, usage, k)}
<1>1. 0 \in S
  <2>1. GrownUpTo([k \in 0 .. 0 |-> {NoOptions}], usage, 0)
    BY DEF GrownUpTo
  <2> QED
    BY <2>1
<1>2. ASSUME NEW k \in Nat, k \in S PROVE k + 1 \in S
  <2>1. PICK grown : GrownUpTo(grown, usage, k)
    BY <1>2
  <2> DEFINE more == [m \in 0 .. k + 1 |->
                        IF m = k + 1 THEN Longer(usage, grown[k]) ELSE grown[m]]
  <2>2. \A m \in 0 .. k : more[m] = grown[m]
    OBVIOUS
  <2>3. \A m \in 0 .. k + 1 :
          more[m] = IF m = 0 THEN {NoOptions} ELSE Longer(usage, more[m - 1])
    <3>1. SUFFICES ASSUME NEW m \in 0 .. k + 1
                   PROVE  more[m] = IF m = 0 THEN {NoOptions} ELSE Longer(usage, more[m - 1])
      OBVIOUS
    <3>2. CASE m = k + 1
      <4>1. more[m - 1] = grown[k]
        BY <2>2, <3>2
      <4> QED
        BY <3>2, <4>1
    <3>3. CASE m \in 1 .. k
      <4>1. grown[m] = Longer(usage, grown[m - 1])
        <5>1. m \in 0 .. k /\ m # 0
          BY <3>3
        <5>2. grown = [j \in 0 .. k |-> IF j = 0 THEN {NoOptions} ELSE Longer(usage, grown[j - 1])]
          BY <2>1 DEF GrownUpTo
        <5>3. grown[m] = IF m = 0 THEN {NoOptions} ELSE Longer(usage, grown[m - 1])
          BY <5>1, <5>2, Zenon
        <5> QED
          BY <5>1, <5>3
      <4>2. more[m] = grown[m] /\ more[m - 1] = grown[m - 1]
        BY <2>2, <3>3
      <4> QED
        BY <3>3, <4>1, <4>2
    <3>4. CASE m = 0
      <4>1. grown[0] = {NoOptions}
        BY <2>1 DEF GrownUpTo
      <4> QED
        BY <2>2, <3>4, <4>1
    <3> QED
      BY <3>2, <3>3, <3>4
  <2>4. GrownUpTo(more, usage, k + 1)
    <3> HIDE DEF more
    <3>1. more = [m \in 0 .. k + 1 |-> more[m]]
      BY DEF more
    <3> QED
      BY <2>3, <3>1 DEF GrownUpTo
  <2> QED
    BY <2>4
<1>3. Nat \subseteq S
  <2> HIDE DEF S
  <2> QED
    BY <1>1, <1>2, InductionOnSet
<1> QED
  BY <1>3

LEMMA ListRounds ==
  ASSUME NEW usage
  PROVE  \E grown : /\ grown[0] = {NoOptions}
                    /\ \A n \in 1 .. MaxArgs : grown[n] = Longer(usage, grown[n - 1])
                    /\ Lists(usage) = grown[MaxArgs]
<1> DEFINE grown == CHOOSE grown : GrownUpTo(grown, usage, MaxArgs)
<1>1. GrownUpTo(grown, usage, MaxArgs)
  BY GrownUpToEach, ArgumentsAssumption
<1>2. Lists(usage) = grown[MaxArgs]
  BY DEF Lists, GrownUpTo
<1> HIDE DEF grown
<1>3. /\ grown[0] = {NoOptions}
      /\ \A n \in 1 .. MaxArgs : grown[n] = Longer(usage, grown[n - 1])
  <2>1. grown = [k \in 0 .. MaxArgs |-> IF k = 0 THEN {NoOptions} ELSE Longer(usage, grown[k - 1])]
    BY <1>1 DEF GrownUpTo
  <2>2. \A n \in 0 .. MaxArgs :
          grown[n] = IF n = 0 THEN {NoOptions} ELSE Longer(usage, grown[n - 1])
    BY <2>1, Zenon
  <2>3. 0 \in 0 .. MaxArgs /\ \A n \in 1 .. MaxArgs : n \in 0 .. MaxArgs /\ n # 0
    BY ArgumentsAssumption
  <2> QED
    BY <2>2, <2>3
<1> QED
  BY <1>2, <1>3

(* What every option keeps, every list has.                                *)
LEMMA ListInduction ==
  ASSUME NEW usage, NEW S, NoOptions \in S,
         \A list \in S : \A more \in More(usage, list) : Len(more.args) <= MaxArgs => more \in S
  PROVE  Lists(usage) \subseteq S
<1>1. PICK grown : /\ grown[0] = {NoOptions}
                   /\ \A n \in 1 .. MaxArgs : grown[n] = Longer(usage, grown[n - 1])
                   /\ Lists(usage) = grown[MaxArgs]
  BY ListRounds
<1> DEFINE T == {n \in Nat : n <= MaxArgs => grown[n] \subseteq S}
<1>2. 0 \in T
  BY <1>1
<1>3. ASSUME NEW n \in Nat, n \in T PROVE n + 1 \in T
  <2>1. SUFFICES ASSUME n + 1 <= MaxArgs PROVE grown[n + 1] \subseteq S
    OBVIOUS
  <2>2. n + 1 \in 1 .. MaxArgs /\ (n + 1) - 1 = n /\ n <= MaxArgs
    BY <2>1, ArgumentsAssumption
  <2>3. grown[n] \subseteq S
    BY <1>3, <2>2
  <2>4. grown[n + 1] = Longer(usage, grown[n])
    <3>1. grown[n + 1] = Longer(usage, grown[(n + 1) - 1])
      BY <1>1, <2>2
    <3> QED
      BY <2>2, <3>1
  <2> QED
    BY <2>3, <2>4 DEF Longer
<1>4. Nat \subseteq T
  <2> HIDE DEF T
  <2> QED
    BY <1>2, <1>3, InductionOnSet
<1> QED
  BY <1>1, <1>4, ArgumentsAssumption

(* The spellings that stand alone.                                        *)
LEMMA OptionsAreArguments ==
  /\ <<"--">> \in Arguments /\ <<"--help">> \in Arguments /\ <<"--version">> \in Arguments
  /\ <<"--quiet">> \in Arguments /\ <<"--bind">> \in Arguments /\ <<"--cwd">> \in Arguments
  /\ <<"probe">> \in Arguments
BY ArgumentsAssumption

(* Arguments that are added one by one.                                    *)
LEMMA AddedArguments ==
  ASSUME NEW T, NEW first \in Seq(T)
  PROVE  /\ \A a \in T : first \o <<a>> = Append(first, a)
         /\ \A a, b \in T : first \o <<a, b>> = Append(Append(first, a), b)
         /\ \A rest \in Seq(T), a \in T : first \o Append(rest, a) = Append(first \o rest, a)
<1>1. ASSUME NEW rest \in Seq(T), NEW a \in T
      PROVE  first \o Append(rest, a) = Append(first \o rest, a)
  <2>1. Append(rest, a) = rest \o <<a>> /\ Append(first \o rest, a) = (first \o rest) \o <<a>>
    BY AppendIsConcat, ConcatProperties
  <2>2. <<a>> \in Seq(T)
    OBVIOUS
  <2> QED
    BY <2>1, <2>2, ConcatAssociative
<1>2. \A a \in T : first \o <<a>> = Append(first, a)
  BY AppendIsConcat
<1>3. ASSUME NEW a \in T, NEW b \in T PROVE first \o <<a, b>> = Append(Append(first, a), b)
  <2>1. <<a, b>> = Append(<<a>>, b) /\ <<a>> \in Seq(T)
    OBVIOUS
  <2> QED
    BY <1>1, <1>2, <2>1
<1> QED
  BY <1>1, <1>2, <1>3

(* What the first options of a list may be followed by.                    *)
GoesOn(usage, list, more) ==
  \/ \E v \in Arguments :
       /\ IsBind(v)
       /\ more = List(Append(Append(list.args, <<"--bind">>), v), Append(list.binds, BindOf(v)),
                      list.cwd, list.quiet)
  \/ \E a \in Arguments :
       /\ BeginsWith(a, {"--bind="}) /\ IsBind(Tail(a))
       /\ more = List(Append(list.args, a), Append(list.binds, BindOf(Tail(a))), list.cwd, list.quiet)
  \/ /\ usage = "run"
     /\ more = List(Append(list.args, <<"--quiet">>), list.binds, list.cwd, TRUE)
  \/ /\ usage = "run"
     /\ \E v \in Arguments :
          more = List(Append(Append(list.args, <<"--cwd">>), v), list.binds, v, list.quiet)
  \/ /\ usage = "run"
     /\ \E a \in Arguments :
          /\ BeginsWith(a, {"--cwd="}) /\ Len(a) > 1
          /\ more = List(Append(list.args, a), list.binds, Tail(a), list.quiet)

LEMMA MoreAre ==
  ASSUME NEW usage, NEW list, list.args \in Seq(Arguments), NEW more
  PROVE  more \in More(usage, list) <=> GoesOn(usage, list, more)
<1>1. /\ \A a \in Arguments : list.args \o <<a>> = Append(list.args, a)
      /\ \A a \in Arguments :
           list.args \o <<<<"--bind">>, a>> = Append(Append(list.args, <<"--bind">>), a)
      /\ \A a \in Arguments :
           list.args \o <<<<"--cwd">>, a>> = Append(Append(list.args, <<"--cwd">>), a)
  BY AddedArguments, OptionsAreArguments
<1>2. \A v \in Arguments :
        WithBind(list, <<<<"--bind">>, v>>, v)
          = List(Append(Append(list.args, <<"--bind">>), v), Append(list.binds, BindOf(v)),
                 list.cwd, list.quiet)
  BY <1>1 DEF WithBind
<1>3. \A a \in Arguments :
        WithBind(list, <<a>>, Tail(a))
          = List(Append(list.args, a), Append(list.binds, BindOf(Tail(a))), list.cwd, list.quiet)
  BY <1>1 DEF WithBind
<1>4. \A v \in Arguments :
        WithCwd(list, <<<<"--cwd">>, v>>, v)
          = List(Append(Append(list.args, <<"--cwd">>), v), list.binds, v, list.quiet)
  BY <1>1 DEF WithCwd
<1>5. \A a \in Arguments :
        WithCwd(list, <<a>>, Tail(a)) = List(Append(list.args, a), list.binds, Tail(a), list.quiet)
  BY <1>1 DEF WithCwd
<1>6. more \in MoreBinds(list) <=>
        \/ \E v \in Arguments : IsBind(v) /\ more = WithBind(list, <<<<"--bind">>, v>>, v)
        \/ \E a \in Arguments : /\ BeginsWith(a, {"--bind="}) /\ IsBind(Tail(a))
                                /\ more = WithBind(list, <<a>>, Tail(a))
  BY Zenon DEF MoreBinds
<1>7. more \in MoreSettings(list) <=>
        \/ more = List(Append(list.args, <<"--quiet">>), list.binds, list.cwd, TRUE)
        \/ \E v \in Arguments : more = WithCwd(list, <<<<"--cwd">>, v>>, v)
        \/ \E a \in Arguments : /\ BeginsWith(a, {"--cwd="}) /\ Len(a) > 1
                                /\ more = WithCwd(list, <<a>>, Tail(a))
  BY Zenon DEF MoreSettings
<1>8. more \in More(usage, list) <=>
        more \in MoreBinds(list) \/ (usage = "run" /\ more \in MoreSettings(list))
  BY DEF More
<1> QED
  BY <1>2, <1>3, <1>4, <1>5, <1>6, <1>7, <1>8, Zenon DEF GoesOn

(* An option is an argument or two.                                        *)
LEMMA MoreGrows ==
  ASSUME NEW usage, NEW list, list.args \in Seq(Arguments), NEW more \in More(usage, list)
  PROVE  /\ more.args \in Seq(Arguments)
         /\ Len(list.args) \in Nat /\ Len(more.args) \in Nat /\ Len(list.args) < Len(more.args)
<1> DEFINE One == \E a \in Arguments : more.args = Append(list.args, a)
           Two == \E a, b \in Arguments : more.args = Append(Append(list.args, a), b)
<1>1. One \/ Two
  <2>1. GoesOn(usage, list, more)
    BY MoreAre
  <2>2. \A args, binds, cwd, quiet : more = List(args, binds, cwd, quiet) => more.args = args
    BY DEF List
  <2>3. ASSUME NEW v \in Arguments, more.args = Append(Append(list.args, <<"--bind">>), v) PROVE Two
    BY <2>3, OptionsAreArguments
  <2>4. ASSUME NEW v \in Arguments, more.args = Append(Append(list.args, <<"--cwd">>), v) PROVE Two
    BY <2>4, OptionsAreArguments
  <2>5. more.args = Append(list.args, <<"--quiet">>) => One
    BY OptionsAreArguments
  <2>6. \A a \in Arguments : more.args = Append(list.args, a) => One
    OBVIOUS
  <2> HIDE DEF One, Two
  <2> QED
    BY <2>1, <2>2, <2>3, <2>4, <2>5, <2>6 DEF GoesOn
<1>2. CASE One
  BY <1>2
<1>3. CASE Two
  <2>1. PICK a \in Arguments, b \in Arguments : more.args = Append(Append(list.args, a), b)
    BY <1>3
  <2>2. Append(list.args, a) \in Seq(Arguments) /\ Len(Append(list.args, a)) = Len(list.args) + 1
    OBVIOUS
  <2>3. more.args \in Seq(Arguments) /\ Len(more.args) = Len(Append(list.args, a)) + 1
    BY <2>1, <2>2
  <2> QED
    BY <2>2, <2>3
<1> QED
  BY <1>1, <1>2, <1>3

(* A list goes on with any option that there is room for.                  *)
LEMMA ListsGoOn ==
  ASSUME NEW usage
  PROVE  /\ NoOptions \in Lists(usage)
         /\ \A list \in Lists(usage) :
              /\ list.args \in Seq(Arguments) /\ Len(list.args) \in Nat /\ Len(list.args) <= MaxArgs
              /\ \A more \in More(usage, list) : Len(more.args) <= MaxArgs => more \in Lists(usage)
<1>1. PICK grown : /\ grown[0] = {NoOptions}
                   /\ \A n \in 1 .. MaxArgs : grown[n] = Longer(usage, grown[n - 1])
                   /\ Lists(usage) = grown[MaxArgs]
  BY ListRounds
<1>2. ASSUME NEW n \in Nat, n < MaxArgs
      PROVE  /\ grown[n] \subseteq grown[n + 1]
             /\ \A list \in grown[n] : \A more \in More(usage, list) :
                  Len(more.args) <= MaxArgs => more \in grown[n + 1]
             /\ \A more \in grown[n + 1] :
                  \/ more \in grown[n]
                  \/ \E list \in grown[n] : more \in More(usage, list) /\ Len(more.args) <= MaxArgs
  <2>1. n + 1 \in 1 .. MaxArgs /\ (n + 1) - 1 = n
    BY <1>2, ArgumentsAssumption
  <2>2. grown[n + 1] = Longer(usage, grown[n])
    <3>1. grown[n + 1] = Longer(usage, grown[(n + 1) - 1])
      BY <1>1, <2>1
    <3> QED
      BY <2>1, <3>1
  <2>3. ASSUME NEW lists, NEW more
        PROVE  more \in Longer(usage, lists) <=>
                 \E list \in lists :
                   \/ more = list
                   \/ more \in More(usage, list) /\ Len(more.args) <= MaxArgs
    <3>1. more \in Longer(usage, lists) <=>
            \E list \in lists :
              more \in {list} \cup {m \in More(usage, list) : Len(m.args) <= MaxArgs}
      BY Zenon DEF Longer
    <3>2. \A list :
            more \in {list} \cup {m \in More(usage, list) : Len(m.args) <= MaxArgs} <=>
              \/ more = list
              \/ more \in More(usage, list) /\ Len(more.args) <= MaxArgs
      OBVIOUS
    <3> QED
      BY <3>1, <3>2, Zenon
  <2>4. \A more : more \in grown[n + 1] <=>
          \E list \in grown[n] :
            \/ more = list
            \/ more \in More(usage, list) /\ Len(more.args) <= MaxArgs
    BY <2>2, <2>3
  <2>5. grown[n] \subseteq grown[n + 1]
    BY <2>4
  <2>6. \A list \in grown[n] : \A more \in More(usage, list) :
          Len(more.args) <= MaxArgs => more \in grown[n + 1]
    BY <2>4
  <2>7. \A more \in grown[n + 1] :
          \/ more \in grown[n]
          \/ \E list \in grown[n] : more \in More(usage, list) /\ Len(more.args) <= MaxArgs
    BY <2>4
  <2> QED
    BY <2>5, <2>6, <2>7
<1>3. ASSUME NEW i \in Nat PROVE \A j \in Nat : i <= j /\ j <= MaxArgs => grown[i] \subseteq grown[j]
  <2> DEFINE S == {j \in Nat : i <= j /\ j <= MaxArgs => grown[i] \subseteq grown[j]}
  <2>1. 0 \in S
    OBVIOUS
  <2>2. ASSUME NEW n \in Nat, n \in S PROVE n + 1 \in S
    <3>1. SUFFICES ASSUME i <= n + 1, n + 1 <= MaxArgs PROVE grown[i] \subseteq grown[n + 1]
      OBVIOUS
    <3>2. CASE i = n + 1
      BY <3>2
    <3>3. CASE i <= n
      <4>1. n < MaxArgs /\ n <= MaxArgs
        BY <3>1, ArgumentsAssumption
      <4>2. grown[i] \subseteq grown[n] /\ grown[n] \subseteq grown[n + 1]
        BY <1>2, <2>2, <3>3, <4>1
      <4> QED
        BY <4>2
    <3> QED
      BY <3>1, <3>2, <3>3
  <2>3. Nat \subseteq S
    <3> HIDE DEF S
    <3> QED
      BY <2>1, <2>2, InductionOnSet
  <2> QED
    BY <2>3
<1> DEFINE InItsPlace(list) ==
             /\ list.args \in Seq(Arguments) /\ Len(list.args) \in Nat /\ Len(list.args) <= MaxArgs
             /\ list \in grown[Len(list.args)]
           S == {n \in Nat : n <= MaxArgs => \A list \in grown[n] : InItsPlace(list)}
<1>4. InItsPlace(NoOptions)
  <2>1. NoOptions.args = <<>> /\ <<>> \in Seq(Arguments) /\ Len(<<>>) = 0
    BY DEF NoOptions, List
  <2> QED
    BY <1>1, <2>1, ArgumentsAssumption
<1>5. 0 \in S
  <2> HIDE DEF InItsPlace
  <2> QED
    BY <1>1, <1>4
<1>6. ASSUME NEW n \in Nat, n \in S PROVE n + 1 \in S
  <2>1. SUFFICES ASSUME n + 1 <= MaxArgs, NEW more \in grown[n + 1] PROVE InItsPlace(more)
    <3> HIDE DEF InItsPlace
    <3> QED
      OBVIOUS
  <2>2. n < MaxArgs /\ n <= MaxArgs
    BY <2>1, ArgumentsAssumption
  <2>3. \A list \in grown[n] : InItsPlace(list)
    <3> HIDE DEF InItsPlace
    <3> QED
      BY <1>6, <2>2
  <2>4. CASE more \in grown[n]
    <3> HIDE DEF InItsPlace
    <3> QED
      BY <2>3, <2>4
  <2>5. ASSUME NEW list \in grown[n], more \in More(usage, list), Len(more.args) <= MaxArgs
        PROVE  InItsPlace(more)
    <3>1. list.args \in Seq(Arguments) /\ Len(list.args) \in Nat /\ list \in grown[Len(list.args)]
      BY <2>3, <2>5
    <3>2. /\ more.args \in Seq(Arguments) /\ Len(more.args) \in Nat
          /\ Len(list.args) < Len(more.args)
      BY <2>5, <3>1, MoreGrows
    <3>3. Len(list.args) < MaxArgs
      BY <2>5, <3>1, <3>2, ArgumentsAssumption
    <3>4. more \in grown[Len(list.args) + 1]
      BY <1>2, <2>5, <3>1, <3>3
    <3>5. more \in grown[Len(more.args)]
      <4>1. Len(list.args) + 1 \in Nat /\ Len(list.args) + 1 <= Len(more.args)
        BY <3>1, <3>2
      <4> QED
        BY <1>3, <2>5, <3>2, <3>4, <4>1
    <3> QED
      BY <2>5, <3>2, <3>5
  <2> HIDE DEF InItsPlace
  <2> QED
    BY <1>2, <2>1, <2>2, <2>4, <2>5
<1>7. \A list \in Lists(usage) : InItsPlace(list)
  <2>1. Nat \subseteq S
    <3> HIDE DEF S
    <3> QED
      BY <1>5, <1>6, InductionOnSet
  <2> HIDE DEF InItsPlace
  <2> QED
    BY <1>1, <2>1, ArgumentsAssumption
<1>8. ASSUME NEW list \in Lists(usage), NEW more \in More(usage, list), Len(more.args) <= MaxArgs
      PROVE  more \in Lists(usage)
  <2>1. list.args \in Seq(Arguments) /\ Len(list.args) \in Nat /\ list \in grown[Len(list.args)]
    BY <1>7
  <2>2. /\ more.args \in Seq(Arguments) /\ Len(more.args) \in Nat
        /\ Len(list.args) < Len(more.args)
    BY <2>1, MoreGrows
  <2>3. Len(list.args) < MaxArgs
    BY <1>8, <2>1, <2>2, ArgumentsAssumption
  <2>4. more \in grown[Len(list.args) + 1]
    BY <1>2, <1>8, <2>1, <2>3
  <2>5. Len(list.args) + 1 \in Nat /\ Len(list.args) + 1 <= MaxArgs
    BY <2>1, <2>3, ArgumentsAssumption
  <2> QED
    BY <1>1, <1>3, <2>4, <2>5, ArgumentsAssumption
<1>9. NoOptions \in Lists(usage)
  BY <1>1, <1>3, ArgumentsAssumption
<1> QED
  BY <1>7, <1>8, <1>9

-------------------------------------------------------------------------------
(***************************************************************************)
(* One argument                                                            *)
(***************************************************************************)

(* The parser after a list of options.                                     *)
At(list, expects, command, result) ==
  [expects |-> expects, binds |-> list.binds, cwd |-> list.cwd, quiet |-> list.quiet,
   command |-> command, result |-> result]

Between(list) == At(list, "option", <<>>, Failure)

(* One field of a parser changes.                                          *)
LEMMA AtFields ==
  ASSUME NEW list, NEW expects, NEW command, NEW result
  PROVE  LET parser == At(list, expects, command, result)
         IN /\ parser.expects = expects /\ parser.binds = list.binds /\ parser.cwd = list.cwd
            /\ parser.quiet = list.quiet /\ parser.command = command /\ parser.result = result
            /\ \A what : Expects(parser, what) = At(list, what, command, result)
            /\ \A r : Returns(parser, r) = At(list, "nothing", command, r)
<1> DEFINE parser == At(list, expects, command, result)
<1>1. /\ parser.expects = expects /\ parser.binds = list.binds /\ parser.cwd = list.cwd
      /\ parser.quiet = list.quiet /\ parser.command = command /\ parser.result = result
  BY DEF At
<1>2. ASSUME NEW what PROVE Expects(parser, what) = At(list, what, command, result)
  BY DEF At, Expects
<1>3. ASSUME NEW r PROVE Returns(parser, r) = At(list, "nothing", command, r)
  <2>1. [At(list, "nothing", command, result) EXCEPT !.result = r] = At(list, "nothing", command, r)
    BY DEF At
  <2> HIDE DEF parser
  <2> QED
    BY <1>2, <2>1 DEF Returns
<1> QED
  BY <1>1, <1>2, <1>3

LEMMA CommandTaken ==
  ASSUME NEW list, NEW expects, NEW command, NEW result, NEW arg
  PROVE  TakeCommand(At(list, expects, command, result), arg)
           = At(list, "arguments", Append(command, arg), result)
<1>1. [At(list, "arguments", command, result) EXCEPT !.command = Append(@, arg)]
        = At(list, "arguments", Append(command, arg), result)
  BY DEF At
<1>2. Expects(At(list, expects, command, result), "arguments") = At(list, "arguments", command, result)
  BY AtFields
<1> QED
  BY <1>1, <1>2 DEF TakeCommand

(* A value makes the list longer by its option.                            *)
LEMMA ValuesTaken ==
  ASSUME NEW list, NEW value, NEW args, NEW what
  PROVE  LET parser == At(list, what, <<>>, Failure)
         IN /\ IsBind(value) =>
                 TakeBind(parser, value)
                   = Between(List(args, Append(list.binds, BindOf(value)), list.cwd, list.quiet))
            /\ ~IsBind(value) => TakeBind(parser, value) = At(list, "nothing", <<>>, Failure)
            /\ TakeCwd(parser, value) = Between(List(args, list.binds, value, list.quiet))
<1> DEFINE parser == At(list, what, <<>>, Failure)
<1>1. /\ Expects(parser, "option") = At(list, "option", <<>>, Failure)
      /\ Returns(parser, Failure) = At(list, "nothing", <<>>, Failure)
  BY AtFields
<1>2. [At(list, "option", <<>>, Failure) EXCEPT !.binds = Append(@, BindOf(value))]
        = Between(List(args, Append(list.binds, BindOf(value)), list.cwd, list.quiet))
  <2> DEFINE more == List(args, Append(list.binds, BindOf(value)), list.cwd, list.quiet)
  <2>1. /\ more.binds = Append(list.binds, BindOf(value))
        /\ more.cwd = list.cwd /\ more.quiet = list.quiet
    BY DEF List
  <2> HIDE DEF more
  <2>2. [At(list, "option", <<>>, Failure) EXCEPT !.binds = Append(@, BindOf(value))] = Between(more)
    BY <2>1 DEF At, Between
  <2> QED
    BY <2>2 DEF more
<1>3. [At(list, "option", <<>>, Failure) EXCEPT !.cwd = value]
        = Between(List(args, list.binds, value, list.quiet))
  BY DEF At, Between, List
<1> HIDE DEF parser
<1>4. IsBind(value) =>
        TakeBind(parser, value)
          = Between(List(args, Append(list.binds, BindOf(value)), list.cwd, list.quiet))
  BY <1>1, <1>2 DEF TakeBind
<1>5. ~IsBind(value) => TakeBind(parser, value) = At(list, "nothing", <<>>, Failure)
  BY <1>1 DEF TakeBind
<1>6. TakeCwd(parser, value) = Between(List(args, list.binds, value, list.quiet))
  BY <1>1, <1>3 DEF TakeCwd
<1> QED
  BY <1>4, <1>5, <1>6 DEF parser

LEMMA QuietTaken ==
  ASSUME NEW list, NEW args, NEW quiet
  PROVE  [Between(list) EXCEPT !.quiet = quiet] = Between(List(args, list.binds, list.cwd, quiet))
<1> DEFINE more == List(args, list.binds, list.cwd, quiet)
<1>1. more.binds = list.binds /\ more.cwd = list.cwd /\ more.quiet = quiet
  BY DEF List
<1> HIDE DEF more
<1>2. [Between(list) EXCEPT !.quiet = quiet] = Between(more)
  BY <1>1 DEF At, Between
<1> QED
  BY <1>2 DEF more

(* The options by their first symbols.                                     *)
LEMMA Spellings ==
  ASSUME NEW arg \in Arguments
  PROVE  /\ \A symbol : arg = <<symbol>> => arg # <<>> /\ Head(arg) = symbol /\ Len(arg) = 1
         /\ \A symbol : BeginsWith(arg, {symbol}) <=> arg # <<>> /\ Head(arg) = symbol
         /\ BeginsWith(arg, {"--cwd="}) => (Len(arg) > 1 <=> arg # <<"--cwd=">>)
<1>1. \A symbol : arg = <<symbol>> => arg # <<>> /\ Head(arg) = symbol /\ Len(arg) = 1
  OBVIOUS
<1>2. \A symbol : BeginsWith(arg, {symbol}) <=> arg # <<>> /\ Head(arg) = symbol
  BY DEF BeginsWith
<1>3. ASSUME arg # <<>>, Head(arg) = "--cwd=" PROVE Len(arg) > 1 <=> arg # <<"--cwd=">>
  <2>1. arg \in Seq(STRING) /\ Len(arg) \in Nat /\ Len(arg) # 0 /\ arg[1] = "--cwd="
    BY <1>3, ArgumentsAssumption
  <2>2. Len(arg) = 1 => arg = <<"--cwd=">>
    BY <2>1
  <2>3. arg = <<"--cwd=">> => Len(arg) = 1
    BY <1>1
  <2>4. Len(arg) > 1 <=> Len(arg) # 1
    <3>1. \A n \in Nat : n # 0 => (n > 1 <=> n # 1)
      OBVIOUS
    <3> QED
      BY <2>1, <3>1, Zenon
  <2> QED
    BY <2>2, <2>3, <2>4, Zenon
<1>4. BeginsWith(arg, {"--cwd="}) => (Len(arg) > 1 <=> arg # <<"--cwd=">>)
  BY <1>2, <1>3
<1> QED
  BY <1>1, <1>2, <1>4, Zenon

(* The options that are one word.                                          *)
Words == {"--", "--help", "--version", "--quiet", "--bind", "--cwd"}

(* parse_run at an option.                                                 *)
LEMMA OptionTaken ==
  ASSUME NEW list, NEW arg \in Arguments
  PROVE  LET next == Take(Between(list), arg)
         IN /\ arg = <<"--">> => next = At(list, "command", <<>>, Failure)
            /\ arg = <<"--help">> => next = At(list, "nothing", <<>>, HelpResult)
            /\ arg = <<"--version">> => next = At(list, "nothing", <<>>, VersionResult)
            /\ arg = <<"--quiet">> => next = [Between(list) EXCEPT !.quiet = TRUE]
            /\ arg = <<"--bind">> => next = At(list, "bind", <<>>, Failure)
            /\ arg = <<"--cwd">> => next = At(list, "cwd", <<>>, Failure)
            /\ BeginsWith(arg, {"--bind="}) => next = TakeBind(Between(list), Tail(arg))
            /\ BeginsWith(arg, {"--cwd="}) /\ Len(arg) > 1 =>
                 next = TakeCwd(Between(list), Tail(arg))
            /\ ~BeginsWith(arg, Dashed) => next = At(list, "arguments", <<arg>>, Failure)
            /\ \/ ~BeginsWith(arg, Dashed)
               \/ \E word \in Words : arg = <<word>>
               \/ BeginsWith(arg, {"--bind="})
               \/ BeginsWith(arg, {"--cwd="}) /\ Len(arg) > 1
               \/ next = At(list, "nothing", <<>>, Failure)
<1> DEFINE p == At(list, "option", <<>>, Failure)
           next == Take(p, arg)
<1>3. <<arg>> = Append(<<>>, arg)
  OBVIOUS
<1>1. /\ p.expects = "option"
      /\ \A what : Expects(p, what) = At(list, what, <<>>, Failure)
      /\ \A r : Returns(p, r) = At(list, "nothing", <<>>, r)
      /\ TakeCommand(p, arg) = At(list, "arguments", <<arg>>, Failure)
  <2>1. p.expects = "option" /\ \A what : Expects(p, what) = At(list, what, <<>>, Failure)
    BY AtFields
  <2>2. \A r : Returns(p, r) = At(list, "nothing", <<>>, r)
    BY AtFields
  <2>3. TakeCommand(p, arg) = At(list, "arguments", <<arg>>, Failure)
    <3>1. ASSUME NEW none, none = <<>>
          PROVE  TakeCommand(At(list, "option", none, Failure), arg)
                   = At(list, "arguments", <<arg>>, Failure)
      <4>1. TakeCommand(At(list, "option", none, Failure), arg)
              = At(list, "arguments", Append(none, arg), Failure)
        BY CommandTaken
      <4> QED
        BY <1>3, <3>1, <4>1
    <3> QED
      BY <3>1
  <2> QED
    BY <2>1, <2>2, <2>3
<1> HIDE DEF p
<1>2. Take(p, arg) = TakeOption(p, arg)
  BY <1>1 DEF Take
<1>4. BeginsWith(arg, Dashed) <=> arg # <<>> /\ Head(arg) \in Dashed
  BY DEF BeginsWith
<1>5. "--bind=" \in Dashed /\ "--cwd=" \in Dashed /\ Words \subseteq Dashed
  BY DEF Dashed, Words
<1>6. CASE \E word \in Words : arg = <<word>>
  <2>1. PICK word \in Words : arg = <<word>>
    BY <1>6
  <2>2. arg # <<>> /\ Head(arg) = word
    BY <2>1, Spellings
  <2>3. BeginsWith(arg, Dashed)
    BY <1>4, <1>5, <2>2
  <2>4. ~BeginsWith(arg, {"--bind="}) /\ ~BeginsWith(arg, {"--cwd="})
    BY <2>2 DEF BeginsWith, Words
  <2>5. /\ arg = <<"--">> <=> word = "--"
        /\ arg = <<"--help">> <=> word = "--help"
        /\ arg = <<"--version">> <=> word = "--version"
        /\ arg = <<"--quiet">> <=> word = "--quiet"
        /\ arg = <<"--bind">> <=> word = "--bind"
        /\ arg = <<"--cwd">> <=> word = "--cwd"
    BY <2>1
  <2>6. /\ word = "--" => Take(p, arg) = At(list, "command", <<>>, Failure)
        /\ word = "--help" => Take(p, arg) = At(list, "nothing", <<>>, HelpResult)
        /\ word = "--version" => Take(p, arg) = At(list, "nothing", <<>>, VersionResult)
    BY <1>1, <1>2, <2>5 DEF TakeOption
  <2>7. /\ word = "--quiet" => Take(p, arg) = [p EXCEPT !.quiet = TRUE]
        /\ word = "--bind" => Take(p, arg) = At(list, "bind", <<>>, Failure)
        /\ word = "--cwd" => Take(p, arg) = At(list, "cwd", <<>>, Failure)
    BY <1>1, <1>2, <2>5 DEF TakeOption
  <2> QED
    BY <1>6, <2>3, <2>4, <2>5, <2>6, <2>7 DEF p, Between
<1>7. ASSUME ~\E word \in Words : arg = <<word>>
      PROVE  /\ arg # <<"--">> /\ arg # <<"--help">> /\ arg # <<"--version">>
             /\ arg # <<"--quiet">> /\ arg # <<"--bind">> /\ arg # <<"--cwd">>
  BY <1>7 DEF Words
<1>8. CASE /\ ~\E word \in Words : arg = <<word>>
           /\ BeginsWith(arg, {"--bind="})
  <2>1. arg # <<>> /\ Head(arg) = "--bind="
    BY <1>8, Spellings
  <2>2. BeginsWith(arg, Dashed) /\ ~BeginsWith(arg, {"--cwd="})
    BY <1>4, <1>5, <2>1 DEF BeginsWith
  <2> QED
    BY <1>1, <1>2, <1>7, <1>8, <2>2 DEF TakeOption, p, Between
<1>9. CASE /\ ~\E word \in Words : arg = <<word>>
           /\ ~BeginsWith(arg, {"--bind="})
           /\ BeginsWith(arg, {"--cwd="})
  <2>1. arg # <<>> /\ Head(arg) = "--cwd="
    BY <1>9, Spellings
  <2>2. BeginsWith(arg, Dashed)
    BY <1>4, <1>5, <2>1
  <2>3. Len(arg) > 1 <=> arg # <<"--cwd=">>
    BY <1>9, Spellings
  <2> QED
    BY <1>1, <1>2, <1>7, <1>9, <2>2, <2>3 DEF TakeOption, p, Between
<1>10. CASE /\ ~\E word \in Words : arg = <<word>>
            /\ ~BeginsWith(arg, {"--bind="})
            /\ ~BeginsWith(arg, {"--cwd="})
  <2>1. arg # <<"--cwd=">>
    <3>1. arg = <<"--cwd=">> => BeginsWith(arg, {"--cwd="})
      BY Spellings
    <3> QED
      BY <1>10, <3>1
  <2> QED
    BY <1>1, <1>2, <1>3, <1>7, <1>10, <2>1 DEF TakeOption, p, Between
<1> QED
  BY <1>6, <1>8, <1>9, <1>10

(* parse_probe at an option.                                               *)
LEMMA ProbeOptionTaken ==
  ASSUME NEW list, NEW arg \in Arguments
  PROVE  LET next == TakeForProbe(Between(list), arg)
         IN /\ arg = <<"--help">> => next = At(list, "nothing", <<>>, HelpResult)
            /\ arg = <<"--bind">> => next = At(list, "bind", <<>>, Failure)
            /\ BeginsWith(arg, {"--bind="}) => next = TakeBind(Between(list), Tail(arg))
            /\ \/ arg \in {<<"--help">>, <<"--bind">>}
               \/ BeginsWith(arg, {"--bind="})
               \/ next = At(list, "nothing", <<>>, Failure)
<1> DEFINE p == Between(list)
<1>1. /\ p.expects = "option"
      /\ \A what : Expects(p, what) = At(list, what, <<>>, Failure)
      /\ \A r : Returns(p, r) = At(list, "nothing", <<>>, r)
  BY AtFields DEF Between
<1> HIDE DEF p
<1>2. BeginsWith(arg, {"--bind="}) => arg # <<"--help">> /\ arg # <<"--bind">>
  <2>1. arg = <<"--help">> => Head(arg) = "--help"
    BY Spellings
  <2>2. arg = <<"--bind">> => Head(arg) = "--bind"
    BY Spellings
  <2> QED
    BY <2>1, <2>2 DEF BeginsWith
<1> QED
  BY <1>1, <1>2 DEF p, TakeForProbe

-------------------------------------------------------------------------------
(***************************************************************************)
(* What the grammar says is read                                           *)
(***************************************************************************)

(* Induction over a sequence, one element at a time.                       *)
LEMMA AppendInduction ==
  ASSUME NEW T, NEW S, <<>> \in S,
         \A s \in Seq(T), e \in T : s \in S => Append(s, e) \in S
  PROVE  Seq(T) \subseteq S
<1> DEFINE N == {n \in Nat : \A s \in Seq(T) : Len(s) = n => s \in S}
<1>1. 0 \in N
  <2>1. \A s \in Seq(T) : Len(s) = 0 => s = <<>>
    BY EmptySeq
  <2> QED
    BY <2>1
<1>2. ASSUME NEW n \in Nat, n \in N PROVE n + 1 \in N
  <2>1. SUFFICES ASSUME NEW s \in Seq(T), Len(s) = n + 1 PROVE s \in S
    OBVIOUS
  <2>2. s # <<>>
    BY <2>1, EmptySeq
  <2>3. PICK first \in Seq(T), e \in T : s = Append(first, e)
    BY <2>2, SequenceEmptyOrAppend
  <2>4. Len(first) = n
    <3>1. Len(first) \in Nat /\ Len(s) = Len(first) + 1
      BY <2>3, AppendProperties, LenProperties
    <3> QED
      BY <2>1, <3>1
  <2>5. first \in S
    BY <1>2, <2>4
  <2> QED
    BY <2>3, <2>5
<1>3. Nat \subseteq N
  <2> HIDE DEF N
  <2> QED
    BY <1>1, <1>2, InductionOnSet
<1>4. \A s \in Seq(T) : Len(s) \in Nat
  OBVIOUS
<1> QED
  BY <1>3, <1>4

(* The loop takes an option of the grammar, with what it stands for.       *)
LEMMA OptionIsRead ==
  ASSUME NEW usage \in {"run", "probe"}, NEW list, list.args \in Seq(Arguments),
         Reads(usage, list.args) = Between(list),
         NEW more, GoesOn(usage, list, more)
  PROVE  Reads(usage, more.args) = Between(more)
<1>1. \A arg \in Arguments :
        /\ Append(list.args, arg) \in Seq(Arguments)
        /\ Reads(usage, Append(list.args, arg)) = Step(usage, Between(list), arg)
  BY ReadsNext
<1>0. ASSUME NEW word \in Arguments, NEW v \in Arguments
      PROVE  Reads(usage, Append(Append(list.args, word), v))
               = Step(usage, Step(usage, Between(list), word), v)
  BY <1>1, ReadsNext
<1>2. \A args, binds, cwd, quiet : List(args, binds, cwd, quiet).args = args
  BY DEF List
<1>3. Step(usage, Between(list), <<"--bind">>) = At(list, "bind", <<>>, Failure)
  <2>1. CASE usage = "run"
    BY <2>1, OptionTaken, OptionsAreArguments DEF Step
  <2>2. CASE usage = "probe"
    BY <2>2, ProbeOptionTaken, OptionsAreArguments DEF Step
  <2> QED
    BY <2>1, <2>2
<1>4. ASSUME NEW v \in Arguments, IsBind(v),
             more = List(Append(Append(list.args, <<"--bind">>), v), Append(list.binds, BindOf(v)),
                         list.cwd, list.quiet)
      PROVE  Reads(usage, more.args) = Between(more)
  <2>1. Reads(usage, Append(Append(list.args, <<"--bind">>), v))
          = Step(usage, At(list, "bind", <<>>, Failure), v)
    BY <1>0, <1>3, OptionsAreArguments, Zenon
  <2>2. At(list, "bind", <<>>, Failure).expects = "bind"
    BY AtFields
  <2>3. Step(usage, At(list, "bind", <<>>, Failure), v)
          = TakeBind(At(list, "bind", <<>>, Failure), v)
    BY <2>2 DEF Step, Take, TakeForProbe
  <2>4. TakeBind(At(list, "bind", <<>>, Failure), v) = Between(more)
    BY <1>4, ValuesTaken
  <2> QED
    BY <1>2, <1>4, <2>1, <2>3, <2>4
<1>5. ASSUME NEW a \in Arguments, BeginsWith(a, {"--bind="}), IsBind(Tail(a)),
             more = List(Append(list.args, a), Append(list.binds, BindOf(Tail(a))), list.cwd, list.quiet)
      PROVE  Reads(usage, more.args) = Between(more)
  <2>1. Step(usage, Between(list), a) = TakeBind(Between(list), Tail(a))
    <3>1. CASE usage = "run"
      BY <1>5, <3>1, OptionTaken DEF Step
    <3>2. CASE usage = "probe"
      BY <1>5, <3>2, ProbeOptionTaken DEF Step
    <3> QED
      BY <3>1, <3>2
  <2>2. TakeBind(Between(list), Tail(a)) = Between(more)
    BY <1>5, ValuesTaken DEF Between
  <2> QED
    BY <1>1, <1>2, <1>5, <2>1, <2>2
<1>6. ASSUME usage = "run", more = List(Append(list.args, <<"--quiet">>), list.binds, list.cwd, TRUE)
      PROVE  Reads(usage, more.args) = Between(more)
  <2>1. Step(usage, Between(list), <<"--quiet">>) = [Between(list) EXCEPT !.quiet = TRUE]
    BY <1>6, OptionTaken, OptionsAreArguments DEF Step
  <2>2. [Between(list) EXCEPT !.quiet = TRUE] = Between(more)
    BY <1>6, QuietTaken
  <2>3. Reads(usage, Append(list.args, <<"--quiet">>)) = Step(usage, Between(list), <<"--quiet">>)
    BY <1>1, OptionsAreArguments, Zenon
  <2>4. more.args = Append(list.args, <<"--quiet">>)
    BY <1>2, <1>6
  <2> QED
    BY <2>1, <2>2, <2>3, <2>4, Zenon
<1>7. ASSUME usage = "run", NEW v \in Arguments,
             more = List(Append(Append(list.args, <<"--cwd">>), v), list.binds, v, list.quiet)
      PROVE  Reads(usage, more.args) = Between(more)
  <2>1. Step(usage, Between(list), <<"--cwd">>) = At(list, "cwd", <<>>, Failure)
    BY <1>7, OptionTaken, OptionsAreArguments DEF Step
  <2>2. Reads(usage, Append(Append(list.args, <<"--cwd">>), v))
          = Step(usage, At(list, "cwd", <<>>, Failure), v)
    BY <1>0, <2>1, OptionsAreArguments, Zenon
  <2>3. At(list, "cwd", <<>>, Failure).expects = "cwd"
    BY AtFields
  <2>4. Step(usage, At(list, "cwd", <<>>, Failure), v) = TakeCwd(At(list, "cwd", <<>>, Failure), v)
    BY <1>7, <2>3 DEF Step, Take
  <2>5. TakeCwd(At(list, "cwd", <<>>, Failure), v) = Between(more)
    BY <1>7, ValuesTaken
  <2> QED
    BY <1>2, <1>7, <2>2, <2>4, <2>5
<1>8. ASSUME usage = "run", NEW a \in Arguments, BeginsWith(a, {"--cwd="}), Len(a) > 1,
             more = List(Append(list.args, a), list.binds, Tail(a), list.quiet)
      PROVE  Reads(usage, more.args) = Between(more)
  <2>1. Step(usage, Between(list), a) = TakeCwd(Between(list), Tail(a))
    BY <1>8, OptionTaken DEF Step
  <2>2. TakeCwd(Between(list), Tail(a)) = Between(more)
    BY <1>8, ValuesTaken DEF Between
  <2> QED
    BY <1>1, <1>2, <1>8, <2>1, <2>2
<1> QED
  BY <1>4, <1>5, <1>6, <1>7, <1>8 DEF GoesOn

(* After a list of the grammar the loop is between options.                *)
LEMMA ListIsRead ==
  ASSUME NEW usage \in {"run", "probe"}, NEW list \in Lists(usage)
  PROVE  Reads(usage, list.args) = Between(list)
<1> DEFINE S == {l \in Lists(usage) : Reads(usage, l.args) = Between(l)}
<1>1. NoOptions \in S
  <2>1. NoOptions.args = <<>> /\ Start = Between(NoOptions)
    BY DEF NoOptions, List, Start, Between, At
  <2>2. NoOptions \in Lists(usage) /\ Reads(usage, <<>>) = Start
    BY ListsGoOn, ReadsNext
  <2> QED
    BY <2>1, <2>2
<1>2. ASSUME NEW l \in S, NEW more \in More(usage, l), Len(more.args) <= MaxArgs PROVE more \in S
  <2>1. l.args \in Seq(Arguments) /\ more \in Lists(usage)
    BY <1>2, ListsGoOn
  <2>2. GoesOn(usage, l, more)
    BY <2>1, MoreAre
  <2> QED
    BY <2>1, <2>2, OptionIsRead
<1>3. Lists(usage) \subseteq S
  <2> HIDE DEF S
  <2> QED
    BY <1>1, <1>2, ListInduction
<1> QED
  BY <1>3

(* Once the parser has returned, it reads no further.                      *)
LEMMA NothingIsRead ==
  ASSUME NEW usage \in {"run", "probe"}, NEW args \in Seq(Arguments),
         Reads(usage, args).expects = "nothing", NEW rest \in Seq(Arguments)
  PROVE  Reads(usage, args \o rest) = Reads(usage, args)
<1> DEFINE S == {r \in Seq(Arguments) : Reads(usage, args \o r) = Reads(usage, args)}
<1>1. <<>> \in S
  <2>1. args \o <<>> = args /\ <<>> \in Seq(Arguments)
    OBVIOUS
  <2> QED
    BY <2>1
<1>2. ASSUME NEW r \in Seq(Arguments), NEW arg \in Arguments, r \in S PROVE Append(r, arg) \in S
  <2>1. args \o Append(r, arg) = Append(args \o r, arg)
    BY AddedArguments
  <2>2. args \o r \in Seq(Arguments) /\ Append(r, arg) \in Seq(Arguments)
    OBVIOUS
  <2>3. Reads(usage, Append(args \o r, arg)) = Step(usage, Reads(usage, args), arg)
    BY <1>2, <2>2, ReadsNext
  <2>4. Step(usage, Reads(usage, args), arg) = Reads(usage, args)
    BY DEF Step, Take, TakeForProbe
  <2> QED
    BY <2>1, <2>2, <2>3, <2>4
<1>3. Seq(Arguments) \subseteq S
  <2> HIDE DEF S
  <2> QED
    BY <1>1, <1>2, AppendInduction
<1> QED
  BY <1>3

(* The command takes all the arguments that follow it.                     *)
LEMMA CommandIsRead ==
  ASSUME NEW list, NEW args \in Seq(Arguments), NEW command \in Seq(Arguments),
         Reads("run", args) = At(list, "arguments", command, Failure), NEW rest \in Seq(Arguments)
  PROVE  Reads("run", args \o rest) = At(list, "arguments", command \o rest, Failure)
<1> DEFINE S == {r \in Seq(Arguments) :
                   Reads("run", args \o r) = At(list, "arguments", command \o r, Failure)}
<1>1. <<>> \in S
  <2>1. args \o <<>> = args /\ command \o <<>> = command /\ <<>> \in Seq(Arguments)
    OBVIOUS
  <2> QED
    BY <2>1
<1>2. ASSUME NEW r \in Seq(Arguments), NEW arg \in Arguments, r \in S PROVE Append(r, arg) \in S
  <2> DEFINE before == At(list, "arguments", command \o r, Failure)
             after  == At(list, "arguments", Append(command \o r, arg), Failure)
  <2>1. /\ args \o Append(r, arg) = Append(args \o r, arg)
        /\ command \o Append(r, arg) = Append(command \o r, arg)
    BY AddedArguments
  <2>2. args \o r \in Seq(Arguments) /\ Append(r, arg) \in Seq(Arguments)
    OBVIOUS
  <2>3. before.expects = "arguments" /\ TakeCommand(before, arg) = after
    BY AtFields, CommandTaken
  <2>4. Reads("run", args \o r) = before
    BY <1>2
  <2> HIDE DEF before, after
  <2>5. Reads("run", Append(args \o r, arg)) = Step("run", before, arg)
    BY <2>2, <2>4, ReadsNext
  <2>6. Step("run", before, arg) = TakeCommand(before, arg)
    BY <2>3 DEF Step, Take
  <2> QED
    BY <2>1, <2>2, <2>3, <2>5, <2>6 DEF after
<1>3. Seq(Arguments) \subseteq S
  <2> HIDE DEF S
  <2> QED
    BY <1>1, <1>2, AppendInduction
<1> QED
  BY <1>3

-------------------------------------------------------------------------------
(***************************************************************************)
(* What is read, the grammar says                                          *)
(***************************************************************************)

(* Where the parser can be in a command line of the grammar, unless it has *)
(* refused it.                                                             *)
BetweenOptions(usage, args, parser) ==
  \E list \in Lists(usage) : args = list.args /\ parser = Between(list)

InBind(usage, args, parser) ==
  \E list \in Lists(usage) :
    args = Append(list.args, <<"--bind">>) /\ parser = At(list, "bind", <<>>, Failure)

InCwd(usage, args, parser) ==
  /\ usage = "run"
  /\ \E list \in Lists(usage) :
       args = Append(list.args, <<"--cwd">>) /\ parser = At(list, "cwd", <<>>, Failure)

BeforeCommand(usage, args, parser) ==
  /\ usage = "run"
  /\ \E list \in Lists(usage) :
       args = Append(list.args, <<"--">>) /\ parser = At(list, "command", <<>>, Failure)

IsCommandOf(list, args, command) ==
  /\ command # <<>>
  /\ \/ args = list.args \o command /\ IsCommand(command)
     \/ args = Append(list.args, <<"--">>) \o command

InCommand(usage, args, parser) ==
  /\ usage = "run"
  /\ \E list \in Lists(usage), command \in Seq(Arguments) :
       IsCommandOf(list, args, command) /\ parser = At(list, "arguments", command, Failure)

HasEnded(usage, args, parser) ==
  /\ parser.expects = "nothing"
  /\ \E list \in Lists(usage), rest \in Seq(Arguments) :
       \/ args = Append(list.args, <<"--help">>) \o rest /\ parser.result = HelpResult
       \/ /\ usage = "run"
          /\ args = Append(list.args, <<"--version">>) \o rest /\ parser.result = VersionResult

HasRefused(parser) == parser.expects = "nothing" /\ parser.result = Failure

Place(usage, args, parser) ==
  \/ BetweenOptions(usage, args, parser) \/ InBind(usage, args, parser)
  \/ InCwd(usage, args, parser) \/ BeforeCommand(usage, args, parser)
  \/ InCommand(usage, args, parser) \/ HasEnded(usage, args, parser) \/ HasRefused(parser)

(* An option that is complete leads to between options again.              *)
LEMMA OptionEnds ==
  ASSUME NEW usage, NEW list \in Lists(usage), NEW more, GoesOn(usage, list, more),
         Len(more.args) <= MaxArgs
  PROVE  BetweenOptions(usage, more.args, Between(more))
<1>1. list.args \in Seq(Arguments)
  BY ListsGoOn
<1>2. more \in More(usage, list)
  BY <1>1, MoreAre
<1>3. more \in Lists(usage)
  BY <1>2, ListsGoOn
<1> QED
  BY <1>3 DEF BetweenOptions

(* So a value is taken, or refused.                                        *)
LEMMA BindEnds ==
  ASSUME NEW usage, NEW list \in Lists(usage), NEW args, Len(args) <= MaxArgs, NEW value, NEW what,
         LET more == List(args, Append(list.binds, BindOf(value)), list.cwd, list.quiet)
         IN IsBind(value) => GoesOn(usage, list, more)
  PROVE  Place(usage, args, TakeBind(At(list, what, <<>>, Failure), value))
<1> DEFINE more == List(args, Append(list.binds, BindOf(value)), list.cwd, list.quiet)
           next == TakeBind(At(list, what, <<>>, Failure), value)
<1>1. more.args = args
  BY DEF List
<1>2. CASE IsBind(value)
  <2>1. next = Between(more)
    BY <1>2, ValuesTaken
  <2>2. BetweenOptions(usage, more.args, Between(more))
    <3>1. GoesOn(usage, list, more)
      BY <1>2
    <3> HIDE DEF more
    <3> QED
      BY <1>1, <3>1, OptionEnds
  <2> QED
    BY <1>1, <2>1, <2>2 DEF Place
<1>3. CASE ~IsBind(value)
  <2>1. next = At(list, "nothing", <<>>, Failure)
    BY <1>3, ValuesTaken
  <2>2. HasRefused(At(list, "nothing", <<>>, Failure))
    BY AtFields DEF HasRefused
  <2> QED
    BY <2>1, <2>2 DEF Place
<1> QED
  BY <1>2, <1>3

LEMMA CwdEnds ==
  ASSUME NEW list \in Lists("run"), NEW args, Len(args) <= MaxArgs, NEW value, NEW what,
         GoesOn("run", list, List(args, list.binds, value, list.quiet))
  PROVE  Place("run", args, TakeCwd(At(list, what, <<>>, Failure), value))
<1> DEFINE more == List(args, list.binds, value, list.quiet)
<1>1. more.args = args
  BY DEF List
<1>2. TakeCwd(At(list, what, <<>>, Failure), value) = Between(more)
  BY ValuesTaken
<1>3. BetweenOptions("run", more.args, Between(more))
  <2> HIDE DEF more
  <2> QED
    BY <1>1, OptionEnds DEF more
<1> QED
  BY <1>1, <1>2, <1>3 DEF Place

(* The next argument of probe, between options.                            *)
LEMMA ProbeOptionPlace ==
  ASSUME NEW list \in Lists("probe"), NEW arg \in Arguments, Len(Append(list.args, arg)) <= MaxArgs
  PROVE  Place("probe", Append(list.args, arg), Step("probe", Between(list), arg))
<1> DEFINE args == Append(list.args, arg)
           next == TakeForProbe(Between(list), arg)
<1>1. Step("probe", Between(list), arg) = next
  BY DEF Step
<1>2. list.args \in Seq(Arguments) /\ args \in Seq(Arguments) /\ args = args \o <<>>
      /\ <<>> \in Seq(Arguments)
  BY ListsGoOn
<1>3. CASE arg = <<"--help">>
  <2>1. next = At(list, "nothing", <<>>, HelpResult)
    BY <1>3, ProbeOptionTaken
  <2>2. next.expects = "nothing" /\ next.result = HelpResult
    BY <2>1, AtFields
  <2>3. args = Append(list.args, <<"--help">>) \o <<>>
    BY <1>2, <1>3
  <2> HIDE DEF next, args
  <2>4. HasEnded("probe", args, next)
    BY <1>2, <2>2, <2>3 DEF HasEnded
  <2> QED
    BY <1>1, <2>4 DEF Place, args
<1>4. CASE arg = <<"--bind">>
  <2>1. next = At(list, "bind", <<>>, Failure)
    BY <1>4, ProbeOptionTaken
  <2> QED
    BY <1>1, <1>4, <2>1 DEF Place, InBind
<1>5. CASE BeginsWith(arg, {"--bind="})
  <2>1. next = TakeBind(At(list, "option", <<>>, Failure), Tail(arg))
    BY <1>5, ProbeOptionTaken DEF Between
  <2>2. IsBind(Tail(arg)) =>
          GoesOn("probe", list,
                 List(args, Append(list.binds, BindOf(Tail(arg))), list.cwd, list.quiet))
    BY <1>5 DEF GoesOn
  <2>3. Place("probe", args, TakeBind(At(list, "option", <<>>, Failure), Tail(arg)))
    <3> HIDE DEF args
    <3> QED
      BY <2>2, BindEnds DEF args
  <2> QED
    BY <1>1, <2>1, <2>3
<1>6. CASE next = At(list, "nothing", <<>>, Failure)
  <2>1. HasRefused(next)
    BY <1>6, AtFields DEF HasRefused
  <2> QED
    BY <1>1, <2>1 DEF Place
<1> QED
  BY <1>3, <1>4, <1>5, <1>6, ProbeOptionTaken

(* The next argument of run, between options.                              *)
LEMMA RunOptionPlace ==
  ASSUME NEW list \in Lists("run"), NEW arg \in Arguments, Len(Append(list.args, arg)) <= MaxArgs
  PROVE  Place("run", Append(list.args, arg), Step("run", Between(list), arg))
<1> DEFINE args == Append(list.args, arg)
           next == Take(Between(list), arg)
<1>1. Step("run", Between(list), arg) = next
  BY DEF Step
<1>2. list.args \in Seq(Arguments) /\ args \in Seq(Arguments) /\ args = args \o <<>>
      /\ <<>> \in Seq(Arguments)
  BY ListsGoOn
<1>3. CASE ~BeginsWith(arg, Dashed)
  <2>1. next = At(list, "arguments", <<arg>>, Failure)
    BY <1>3, OptionTaken
  <2>2. args = list.args \o <<arg>> /\ <<arg>> \in Seq(Arguments) /\ <<arg>> # <<>>
    BY <1>2, AddedArguments
  <2>3. IsCommand(<<arg>>)
    BY <1>3 DEF IsCommand
  <2> HIDE DEF next, args
  <2>4. IsCommandOf(list, args, <<arg>>)
    BY <2>2, <2>3 DEF IsCommandOf
  <2>5. InCommand("run", args, next)
    BY <2>1, <2>2, <2>4 DEF InCommand
  <2> QED
    BY <1>1, <2>5 DEF Place, args
<1>4. CASE arg = <<"--">>
  <2>1. next = At(list, "command", <<>>, Failure)
    BY <1>4, OptionTaken
  <2> QED
    BY <1>1, <1>4, <2>1 DEF Place, BeforeCommand
<1>5. CASE arg = <<"--help">>
  <2>1. next = At(list, "nothing", <<>>, HelpResult)
    BY <1>5, OptionTaken
  <2>2. next.expects = "nothing" /\ next.result = HelpResult
    BY <2>1, AtFields
  <2>3. args = Append(list.args, <<"--help">>) \o <<>>
    BY <1>2, <1>5
  <2> HIDE DEF next, args
  <2>4. HasEnded("run", args, next)
    BY <1>2, <2>2, <2>3 DEF HasEnded
  <2> QED
    BY <1>1, <2>4 DEF Place, args
<1>6. CASE arg = <<"--version">>
  <2>1. next = At(list, "nothing", <<>>, VersionResult)
    BY <1>6, OptionTaken
  <2>2. next.expects = "nothing" /\ next.result = VersionResult
    BY <2>1, AtFields
  <2>3. args = Append(list.args, <<"--version">>) \o <<>>
    BY <1>2, <1>6
  <2> HIDE DEF next, args
  <2>4. HasEnded("run", args, next)
    BY <1>2, <2>2, <2>3 DEF HasEnded
  <2> QED
    BY <1>1, <2>4 DEF Place, args
<1>7. CASE arg = <<"--quiet">>
  <2> DEFINE more == List(args, list.binds, list.cwd, TRUE)
  <2>1. next = Between(more)
    <3>1. next = [Between(list) EXCEPT !.quiet = TRUE]
      BY <1>7, OptionTaken
    <3>2. [Between(list) EXCEPT !.quiet = TRUE] = Between(more)
      BY QuietTaken
    <3> QED
      BY <3>1, <3>2
  <2>2. more.args = args
    BY DEF List
  <2>3. GoesOn("run", list, more)
    BY <1>7 DEF GoesOn
  <2> HIDE DEF more
  <2>4. BetweenOptions("run", more.args, Between(more))
    BY <2>2, <2>3, OptionEnds
  <2> QED
    BY <1>1, <2>1, <2>2, <2>4 DEF Place
<1>8. CASE arg = <<"--bind">>
  <2>1. next = At(list, "bind", <<>>, Failure)
    BY <1>8, OptionTaken
  <2> QED
    BY <1>1, <1>8, <2>1 DEF Place, InBind
<1>9. CASE arg = <<"--cwd">>
  <2>1. next = At(list, "cwd", <<>>, Failure)
    BY <1>9, OptionTaken
  <2> QED
    BY <1>1, <1>9, <2>1 DEF Place, InCwd
<1>10. CASE BeginsWith(arg, {"--bind="})
  <2>1. next = TakeBind(At(list, "option", <<>>, Failure), Tail(arg))
    BY <1>10, OptionTaken DEF Between
  <2>2. IsBind(Tail(arg)) =>
          GoesOn("run", list, List(args, Append(list.binds, BindOf(Tail(arg))), list.cwd, list.quiet))
    BY <1>10 DEF GoesOn
  <2>3. Place("run", args, TakeBind(At(list, "option", <<>>, Failure), Tail(arg)))
    <3> HIDE DEF args
    <3> QED
      BY <2>2, BindEnds DEF args
  <2> QED
    BY <1>1, <2>1, <2>3
<1>11. CASE BeginsWith(arg, {"--cwd="}) /\ Len(arg) > 1
  <2>1. next = TakeCwd(At(list, "option", <<>>, Failure), Tail(arg))
    BY <1>11, OptionTaken DEF Between
  <2>2. GoesOn("run", list, List(args, list.binds, Tail(arg), list.quiet))
    BY <1>11 DEF GoesOn
  <2>3. Place("run", args, TakeCwd(At(list, "option", <<>>, Failure), Tail(arg)))
    <3> HIDE DEF args
    <3> QED
      BY <2>2, CwdEnds DEF args
  <2> QED
    BY <1>1, <2>1, <2>3
<1>12. CASE next = At(list, "nothing", <<>>, Failure)
  <2>1. HasRefused(next)
    BY <1>12, AtFields DEF HasRefused
  <2> QED
    BY <1>1, <2>1 DEF Place
<1>13. \/ ~BeginsWith(arg, Dashed)
       \/ \E word \in Words : arg = <<word>>
       \/ BeginsWith(arg, {"--bind="})
       \/ BeginsWith(arg, {"--cwd="}) /\ Len(arg) > 1
       \/ next = At(list, "nothing", <<>>, Failure)
  BY OptionTaken
<1>14. (\E word \in Words : arg = <<word>>) =>
         \/ arg = <<"--">> \/ arg = <<"--help">> \/ arg = <<"--version">>
         \/ arg = <<"--quiet">> \/ arg = <<"--bind">> \/ arg = <<"--cwd">>
  BY DEF Words
<1> HIDE DEF next, args
<1> QED
  BY <1>3, <1>4, <1>5, <1>6, <1>7, <1>8, <1>9, <1>10, <1>11, <1>12, <1>13, <1>14, Zenon DEF args

(* One more argument leads from one place to another.                      *)
LEMMA NextPlace ==
  ASSUME NEW usage \in {"run", "probe"}, NEW args \in Seq(Arguments), NEW arg \in Arguments,
         Len(Append(args, arg)) <= MaxArgs, NEW parser, Place(usage, args, parser)
  PROVE  Place(usage, Append(args, arg), Step(usage, parser, arg))
<1> DEFINE all  == Append(args, arg)
           next == Step(usage, parser, arg)
<1>1. CASE BetweenOptions(usage, args, parser)
  <2>1. PICK list \in Lists(usage) : args = list.args /\ parser = Between(list)
    BY <1>1 DEF BetweenOptions
  <2>2. CASE usage = "run"
    BY <2>1, <2>2, RunOptionPlace
  <2>3. CASE usage = "probe"
    BY <2>1, <2>3, ProbeOptionPlace
  <2> QED
    BY <2>2, <2>3
<1>2. CASE InBind(usage, args, parser)
  <2>1. PICK list \in Lists(usage) :
          args = Append(list.args, <<"--bind">>) /\ parser = At(list, "bind", <<>>, Failure)
    BY <1>2 DEF InBind
  <2>2. parser.expects = "bind"
    BY <2>1, AtFields
  <2>3. next = TakeBind(parser, arg)
    BY <2>2 DEF Step, Take, TakeForProbe
  <2>4. IsBind(arg) =>
          GoesOn(usage, list, List(all, Append(list.binds, BindOf(arg)), list.cwd, list.quiet))
    BY <2>1 DEF GoesOn
  <2>5. Place(usage, all, TakeBind(At(list, "bind", <<>>, Failure), arg))
    <3> HIDE DEF all
    <3> QED
      BY <2>4, BindEnds DEF all
  <2> QED
    BY <2>1, <2>3, <2>5
<1>3. CASE InCwd(usage, args, parser)
  <2>1. PICK list \in Lists("run") :
          args = Append(list.args, <<"--cwd">>) /\ parser = At(list, "cwd", <<>>, Failure)
    BY <1>3 DEF InCwd
  <2>2. parser.expects = "cwd" /\ usage = "run"
    BY <1>3, <2>1, AtFields DEF InCwd
  <2>3. next = TakeCwd(parser, arg)
    BY <2>2 DEF Step, Take
  <2>4. GoesOn("run", list, List(all, list.binds, arg, list.quiet))
    BY <2>1 DEF GoesOn
  <2>5. Place("run", all, TakeCwd(At(list, "cwd", <<>>, Failure), arg))
    <3> HIDE DEF all
    <3> QED
      BY <2>4, CwdEnds DEF all
  <2> QED
    BY <2>1, <2>2, <2>3, <2>5
<1>4. CASE BeforeCommand(usage, args, parser)
  <2>1. PICK list \in Lists("run") :
          args = Append(list.args, <<"--">>) /\ parser = At(list, "command", <<>>, Failure)
    BY <1>4 DEF BeforeCommand
  <2>2. parser.expects = "command" /\ usage = "run"
    BY <1>4, <2>1, AtFields DEF BeforeCommand
  <2>3. next = TakeCommand(parser, arg)
    BY <2>2 DEF Step, Take
  <2>4. TakeCommand(parser, arg) = At(list, "arguments", <<arg>>, Failure)
    <3>1. <<arg>> = Append(<<>>, arg)
      OBVIOUS
    <3>2. ASSUME NEW none, none = <<>>
          PROVE  TakeCommand(At(list, "command", none, Failure), arg)
                   = At(list, "arguments", <<arg>>, Failure)
      <4>1. TakeCommand(At(list, "command", none, Failure), arg)
              = At(list, "arguments", Append(none, arg), Failure)
        BY CommandTaken
      <4> QED
        BY <3>1, <3>2, <4>1
    <3> QED
      BY <2>1, <3>2
  <2>5. all = args \o <<arg>> /\ <<arg>> \in Seq(Arguments) /\ <<arg>> # <<>>
    BY AddedArguments
  <2> HIDE DEF all, next
  <2>6. IsCommandOf(list, all, <<arg>>)
    BY <2>1, <2>5 DEF IsCommandOf
  <2>7. InCommand(usage, all, next)
    BY <2>2, <2>3, <2>4, <2>5, <2>6 DEF InCommand
  <2> QED
    BY <2>7 DEF Place, all, next
<1>5. CASE InCommand(usage, args, parser)
  <2>1. PICK list \in Lists("run"), command \in Seq(Arguments) :
          IsCommandOf(list, args, command) /\ parser = At(list, "arguments", command, Failure)
    BY <1>5 DEF InCommand
  <2> DEFINE more == Append(command, arg)
  <2>2. parser.expects = "arguments" /\ usage = "run"
    BY <1>5, <2>1, AtFields DEF InCommand
  <2>3. next = At(list, "arguments", more, Failure)
    <3>1. next = TakeCommand(parser, arg)
      BY <2>2 DEF Step, Take
    <3> QED
      BY <2>1, <3>1, CommandTaken
  <2>4. more \in Seq(Arguments) /\ more # <<>>
    BY AppendProperties
  <2>5. list.args \in Seq(Arguments) /\ Append(list.args, <<"--">>) \in Seq(Arguments)
    <3>1. list.args \in Seq(Arguments)
      BY ListsGoOn
    <3> QED
      BY <3>1, OptionsAreArguments, AppendProperties
  <2>8. \A s \in Seq(Arguments) : s \o more = Append(s \o command, arg)
    BY AddedArguments
  <2> HIDE DEF more
  <2>6. CASE args = list.args \o command /\ IsCommand(command) /\ command # <<>>
    <3>1. all = list.args \o more
      BY <2>5, <2>6, <2>8
    <3>2. Head(more) = Head(command)
      BY <2>6, HeadTailAppend DEF more
    <3>3. IsCommand(more)
      BY <2>4, <2>6, <3>2 DEF IsCommand
    <3> QED
      BY <2>2, <2>3, <2>4, <3>1, <3>3 DEF Place, InCommand, IsCommandOf
  <2>7. CASE args = Append(list.args, <<"--">>) \o command
    <3>1. all = Append(list.args, <<"--">>) \o more
      BY <2>5, <2>7, <2>8, Zenon
    <3> QED
      BY <2>2, <2>3, <2>4, <3>1 DEF Place, InCommand, IsCommandOf
  <2> QED
    BY <2>1, <2>6, <2>7 DEF IsCommandOf
<1>6. CASE HasEnded(usage, args, parser)
  <2>1. PICK list \in Lists(usage), rest \in Seq(Arguments) :
          \/ args = Append(list.args, <<"--help">>) \o rest /\ parser.result = HelpResult
          \/ /\ usage = "run"
             /\ args = Append(list.args, <<"--version">>) \o rest /\ parser.result = VersionResult
    BY <1>6 DEF HasEnded
  <2>2. next = parser /\ parser.expects = "nothing"
    BY <1>6 DEF HasEnded, Step, Take, TakeForProbe
  <2>3. /\ Append(list.args, <<"--help">>) \in Seq(Arguments)
        /\ Append(list.args, <<"--version">>) \in Seq(Arguments)
    <3>1. list.args \in Seq(Arguments)
      BY ListsGoOn
    <3> QED
      BY <3>1, OptionsAreArguments, AppendProperties
  <2>4. Append(rest, arg) \in Seq(Arguments)
    OBVIOUS
  <2>5. /\ Append(Append(list.args, <<"--help">>) \o rest, arg)
             = Append(list.args, <<"--help">>) \o Append(rest, arg)
        /\ Append(Append(list.args, <<"--version">>) \o rest, arg)
             = Append(list.args, <<"--version">>) \o Append(rest, arg)
    <3> DEFINE more == Append(rest, arg)
    <3>2. \A s \in Seq(Arguments) : s \o more = Append(s \o rest, arg)
      BY AddedArguments
    <3>1. \A s \in Seq(Arguments) : Append(s \o rest, arg) = s \o Append(rest, arg)
      BY <3>2, Zenon
    <3> QED
      BY <2>3, <3>1, Zenon
  <2>6. HasEnded(usage, all, next)
    <3> HIDE DEF next
    <3>1. CASE args = Append(list.args, <<"--help">>) \o rest /\ parser.result = HelpResult
      BY <2>2, <2>4, <2>5, <3>1 DEF HasEnded
    <3>2. CASE /\ usage = "run"
               /\ args = Append(list.args, <<"--version">>) \o rest /\ parser.result = VersionResult
      BY <2>2, <2>4, <2>5, <3>2 DEF HasEnded
    <3> QED
      BY <2>1, <3>1, <3>2
  <2> QED
    BY <2>6 DEF Place
<1>7. CASE HasRefused(parser)
  <2>1. next = parser
    BY <1>7 DEF HasRefused, Step, Take, TakeForProbe
  <2> QED
    BY <1>7, <2>1 DEF Place
<1> QED
  BY <1>1, <1>2, <1>3, <1>4, <1>5, <1>6, <1>7 DEF Place

(* So the parser always is in one of these places.                         *)
LEMMA EveryPlace ==
  ASSUME NEW usage \in {"run", "probe"}, NEW args \in Seq(Arguments), Len(args) <= MaxArgs
  PROVE  Place(usage, args, Reads(usage, args))
<1> DEFINE S == {a \in Seq(Arguments) : Len(a) <= MaxArgs => Place(usage, a, Reads(usage, a))}
<1>1. <<>> \in S
  <2>1. NoOptions \in Lists(usage)
    BY ListsGoOn
  <2>2. NoOptions.args = <<>>
    BY DEF NoOptions, List
  <2>3. Reads(usage, <<>>) = Between(NoOptions)
    BY <2>1, <2>2, ListIsRead
  <2>4. Place(usage, <<>>, Reads(usage, <<>>))
    BY <2>1, <2>2, <2>3 DEF Place, BetweenOptions
  <2> QED
    BY <2>4
<1>2. ASSUME NEW a \in Seq(Arguments), NEW arg \in Arguments, a \in S PROVE Append(a, arg) \in S
  <2>1. SUFFICES ASSUME Len(Append(a, arg)) <= MaxArgs
                 PROVE  Place(usage, Append(a, arg), Reads(usage, Append(a, arg)))
    BY AppendProperties
  <2>2. Len(a) <= MaxArgs
    <3>1. Len(a) \in Nat /\ Len(Append(a, arg)) = Len(a) + 1
      OBVIOUS
    <3> QED
      BY <2>1, <3>1, ArgumentsAssumption
  <2>3. Place(usage, a, Reads(usage, a))
    BY <1>2, <2>2
  <2>4. Reads(usage, Append(a, arg)) = Step(usage, Reads(usage, a), arg)
    BY ReadsNext
  <2> QED
    BY <2>1, <2>3, <2>4, NextPlace
<1>3. Seq(Arguments) \subseteq S
  <2> HIDE DEF S
  <2> QED
    BY <1>1, <1>2, AppendInduction
<1> QED
  BY <1>3

-------------------------------------------------------------------------------
(***************************************************************************)
(* The language                                                            *)
(***************************************************************************)

(* What may follow n arguments.                                            *)
LEMMA RestsAre ==
  ASSUME NEW n \in Nat, NEW args
  PROVE  args \in Rests(n) <=> args \in Seq(Arguments) /\ Len(args) + n <= MaxArgs
<1>1. ASSUME args \in Rests(n) PROVE args \in Seq(Arguments) /\ Len(args) + n <= MaxArgs
  <2>1. PICK k \in 0 .. MaxArgs - n : args \in [1 .. k -> Arguments]
    BY <1>1 DEF Rests
  <2>2. k \in Nat /\ k + n <= MaxArgs
    BY <2>1, ArgumentsAssumption
  <2>3. args \in Seq(Arguments) /\ Len(args) = k
    BY <2>1, <2>2
  <2> QED
    BY <2>2, <2>3
<1>2. ASSUME args \in Seq(Arguments), Len(args) + n <= MaxArgs PROVE args \in Rests(n)
  <2>1. Len(args) \in Nat /\ args \in [1 .. Len(args) -> Arguments]
    BY <1>2
  <2>2. Len(args) \in 0 .. MaxArgs - n
    BY <1>2, <2>1, ArgumentsAssumption
  <2> QED
    BY <2>1, <2>2 DEF Rests
<1> QED
  BY <1>1, <1>2

(* The parts of a sentence.                                                *)
LEMMA SentenceParts ==
  ASSUME NEW args, NEW result
  PROVE  Sentence(args, result).args = args /\ Sentence(args, result).result = result
BY DEF Sentence

(* The results differ.                                                     *)
LEMMA ResultsDiffer ==
  /\ HelpResult # Failure /\ VersionResult # Failure
  /\ \A binds : ProbeResult(binds) # Failure
  /\ \A binds, cwd, quiet, command : RunResult(binds, cwd, quiet, command) # Failure
<1>1. /\ Failure.kind = "error" /\ HelpResult.kind = "help" /\ VersionResult.kind = "version"
  BY DEF Failure, HelpResult, VersionResult
<1>2. \A binds : ProbeResult(binds).kind = "probe"
  BY DEF ProbeResult
<1>3. \A binds, cwd, quiet, command : RunResult(binds, cwd, quiet, command).kind = "run"
  BY DEF RunResult
<1> QED
  BY <1>1, <1>2, <1>3

(* What the parsers return from where they can be.                         *)
LEMMA EndsAt ==
  ASSUME NEW list, NEW command, NEW what
  PROVE  /\ what \in {"bind", "cwd", "nothing"} => RunEnds(At(list, what, command, Failure)) = Failure
         /\ what \in {"bind", "nothing"} => ProbeEnds(At(list, what, command, Failure)) = Failure
         /\ what \in {"option", "command", "arguments"} =>
              /\ list.binds = <<>> \/ command = <<>> =>
                   RunEnds(At(list, what, command, Failure)) = Failure
              /\ list.binds # <<>> /\ command # <<>> =>
                   RunEnds(At(list, what, command, Failure))
                     = RunResult(list.binds, list.cwd, list.quiet, command)
         /\ what = "option" =>
              /\ list.binds = <<>> => ProbeEnds(At(list, what, command, Failure)) = Failure
              /\ list.binds # <<>> =>
                   ProbeEnds(At(list, what, command, Failure)) = ProbeResult(list.binds)
<1> DEFINE parser == At(list, what, command, Failure)
<1>1. /\ parser.expects = what /\ parser.binds = list.binds /\ parser.cwd = list.cwd
      /\ parser.quiet = list.quiet /\ parser.command = command /\ parser.result = Failure
  BY AtFields
<1> HIDE DEF parser
<1>2. what \in {"bind", "cwd", "nothing"} => RunEnds(parser) = Failure
  BY <1>1 DEF RunEnds
<1>3. what \in {"bind", "nothing"} => ProbeEnds(parser) = Failure
  BY <1>1 DEF ProbeEnds
<1>4. what \in {"option", "command", "arguments"} =>
        /\ list.binds = <<>> \/ command = <<>> => RunEnds(parser) = Failure
        /\ list.binds # <<>> /\ command # <<>> =>
             RunEnds(parser) = RunResult(list.binds, list.cwd, list.quiet, command)
  BY <1>1 DEF RunEnds
<1>5. what = "option" =>
        /\ list.binds = <<>> => ProbeEnds(parser) = Failure
        /\ list.binds # <<>> => ProbeEnds(parser) = ProbeResult(list.binds)
  BY <1>1 DEF ProbeEnds
<1> QED
  BY <1>2, <1>3, <1>4, <1>5 DEF parser

(* A sentence that ends in --help or --version.                            *)
LEMMA EndSentences ==
  ASSUME NEW usage, NEW list \in Lists(usage), NEW arg \in Arguments, NEW result
  PROVE  /\ \A s \in Ends(list, arg, result) :
              \E rest \in Seq(Arguments) :
                LET args == Append(list.args, arg) \o rest
                IN s = Sentence(args, result) /\ args \in Seq(Arguments) /\ Len(args) <= MaxArgs
         /\ \A rest \in Seq(Arguments) :
              LET args == Append(list.args, arg) \o rest
              IN Len(args) <= MaxArgs => Sentence(args, result) \in Ends(list, arg, result)
<1>1. list.args \in Seq(Arguments) /\ Len(list.args) \in Nat
  BY ListsGoOn
<1>2. ASSUME NEW rest \in Seq(Arguments)
      PROVE  /\ Append(list.args, arg) \o rest \in Seq(Arguments)
             /\ Len(Append(list.args, arg) \o rest) = Len(rest) + (Len(list.args) + 1)
  <2>1. Append(list.args, arg) \in Seq(Arguments) /\ Len(Append(list.args, arg)) = Len(list.args) + 1
    BY <1>1, AppendProperties
  <2>2. Len(rest) \in Nat
    OBVIOUS
  <2> QED
    BY <1>1, <2>1, <2>2, ConcatProperties
<1>3. ASSUME NEW rest
      PROVE  rest \in Rests(Len(list.args) + 1) <=>
               /\ rest \in Seq(Arguments)
               /\ Len(Append(list.args, arg) \o rest) <= MaxArgs
  <2>1. Len(list.args) + 1 \in Nat
    BY <1>1
  <2>2. rest \in Rests(Len(list.args) + 1) <=>
          rest \in Seq(Arguments) /\ Len(rest) + (Len(list.args) + 1) <= MaxArgs
    BY <2>1, RestsAre
  <2> QED
    BY <1>2, <2>2
<1>4. \A s : s \in Ends(list, arg, result) <=>
        \E rest \in Rests(Len(list.args) + 1) : s = Sentence(Append(list.args, arg) \o rest, result)
  BY Zenon DEF Ends
<1> QED
  BY <1>2, <1>3, <1>4, Zenon

(* Only "probe" begins a command line of probe: no run of it is accepted.  *)
LEMMA ProbeIsNoCommand ==
  ASSUME NEW args \in Seq(Arguments), args # <<>>, Head(args) = <<"probe">>
  PROVE  RunEnds(Reads("run", args)) = Failure
<1>1. NoOptions \in Lists("run") /\ NoOptions.args = <<>> /\ NoOptions.binds = <<>>
  BY ListsGoOn DEF NoOptions, List
<1>2. Reads("run", <<>>) = Between(NoOptions)
  BY <1>1, ListIsRead
<1>3. ~BeginsWith(<<"probe">>, Dashed)
  <2>1. Head(<<"probe">>) = "probe"
    BY OptionsAreArguments, Spellings
  <2> QED
    BY <2>1 DEF BeginsWith, Dashed
<1>4. Take(Between(NoOptions), <<"probe">>) = At(NoOptions, "arguments", <<<<"probe">>>>, Failure)
  BY <1>3, OptionsAreArguments, OptionTaken
<1> DEFINE first == <<<<"probe">>>>
<1>5. first \in Seq(Arguments) /\ Append(<<>>, <<"probe">>) = first /\ <<>> \in Seq(Arguments)
  BY OptionsAreArguments
<1>6. Reads("run", first) = At(NoOptions, "arguments", first, Failure)
  <2>1. Reads("run", Append(<<>>, <<"probe">>)) = Step("run", Reads("run", <<>>), <<"probe">>)
    BY <1>5, OptionsAreArguments, ReadsNext
  <2> QED
    BY <1>2, <1>4, <1>5, <2>1 DEF Step
<1>7. Tail(args) \in Seq(Arguments) /\ args = first \o Tail(args)
  <2>1. Tail(args) \in Seq(Arguments)
    BY HeadTailProperties
  <2>2. args = <<Head(args)>> \o Tail(args)
    OBVIOUS
  <2> QED
    BY <2>1, <2>2
<1> HIDE DEF first
<1>8. Reads("run", args) = At(NoOptions, "arguments", first \o Tail(args), Failure)
  <2>1. \A rest \in Seq(Arguments) :
          Reads("run", first \o rest) = At(NoOptions, "arguments", first \o rest, Failure)
    BY <1>5, <1>6, CommandIsRead
  <2> QED
    BY <1>7, <2>1, Zenon
<1> QED
  BY <1>1, <1>8, EndsAt

(* What the loop of parse_run accepts is a sentence, and the other way.    *)
LEMMA RunIsSound ==
  ASSUME NEW args \in Seq(Arguments), Len(args) <= MaxArgs, RunEnds(Reads("run", args)) # Failure
  PROVE  Sentence(args, RunEnds(Reads("run", args))) \in RunLanguage
<1> DEFINE parser == Reads("run", args)
           s == Sentence(args, RunEnds(parser))
<1>1. Place("run", args, parser)
  BY EveryPlace
<1>2. SUFFICES \E list \in Lists("run") : s \in RunSentences(list)
  BY DEF RunLanguage
<1> HIDE DEF parser
<1>3. ~BetweenOptions("run", args, parser)
  <2>1. \A list : RunEnds(At(list, "option", <<>>, Failure)) = Failure
    BY EndsAt
  <2> QED
    BY <2>1 DEF BetweenOptions, Between, parser
<1>4. ~InBind("run", args, parser)
  BY EndsAt DEF InBind, parser
<1>5. ~InCwd("run", args, parser)
  BY EndsAt DEF InCwd, parser
<1>6. ~BeforeCommand("run", args, parser)
  BY EndsAt DEF BeforeCommand, parser
<1>7. ~HasRefused(parser)
  BY DEF HasRefused, RunEnds, parser
<1>8. CASE InCommand("run", args, parser)
  <2>1. PICK list \in Lists("run"), command \in Seq(Arguments) :
          IsCommandOf(list, args, command) /\ parser = At(list, "arguments", command, Failure)
    BY <1>8 DEF InCommand
  <2>2. command # <<>>
    BY <2>1 DEF IsCommandOf
  <2>3. /\ list.binds # <<>>
        /\ RunEnds(parser) = RunResult(list.binds, list.cwd, list.quiet, command)
    BY <2>1, <2>2, EndsAt DEF parser
  <2>4. list.args \in Seq(Arguments) /\ Len(list.args) \in Nat /\ Len(command) \in Nat
    BY ListsGoOn
  <2>5. s \in Commands(list)
    <3>1. CASE args = list.args \o command /\ IsCommand(command)
      <4>1. Len(args) = Len(command) + Len(list.args)
        BY <2>4, <3>1, ConcatProperties
      <4>2. command \in Rests(Len(list.args))
        BY <2>4, <4>1, RestsAre
      <4> QED
        BY <2>3, <3>1, <4>2 DEF Commands
    <3>2. CASE args = Append(list.args, <<"--">>) \o command
      <4>1. /\ Append(list.args, <<"--">>) \in Seq(Arguments)
            /\ Len(Append(list.args, <<"--">>)) = Len(list.args) + 1
        BY <2>4, OptionsAreArguments, AppendProperties
      <4>2. Len(args) = Len(command) + (Len(list.args) + 1)
        BY <2>4, <3>2, <4>1, ConcatProperties
      <4>3. command \in Rests(Len(list.args) + 1) \ {<<>>}
        <5>1. Len(list.args) + 1 \in Nat
          BY <2>4
        <5> QED
          BY <2>2, <4>2, <5>1, RestsAre
      <4> QED
        BY <2>3, <3>2, <4>3 DEF Commands
    <3> QED
      BY <2>1, <3>1, <3>2 DEF IsCommandOf
  <2> HIDE DEF s
  <2> QED
    BY <2>3, <2>5 DEF RunSentences
<1>9. CASE HasEnded("run", args, parser)
  <2>1. PICK list \in Lists("run"), rest \in Seq(Arguments) :
          \/ args = Append(list.args, <<"--help">>) \o rest /\ parser.result = HelpResult
          \/ args = Append(list.args, <<"--version">>) \o rest /\ parser.result = VersionResult
    BY <1>9 DEF HasEnded
  <2>2. RunEnds(parser) = parser.result
    BY <1>9 DEF HasEnded, RunEnds
  <2>3. CASE args = Append(list.args, <<"--help">>) \o rest /\ parser.result = HelpResult
    <3>1. s \in Ends(list, <<"--help">>, HelpResult)
      BY <2>2, <2>3, EndSentences, OptionsAreArguments
    <3> HIDE DEF s
    <3> QED
      BY <3>1 DEF RunSentences
  <2>4. CASE args = Append(list.args, <<"--version">>) \o rest /\ parser.result = VersionResult
    <3>1. s \in Ends(list, <<"--version">>, VersionResult)
      BY <2>2, <2>4, EndSentences, OptionsAreArguments
    <3> HIDE DEF s
    <3> QED
      BY <3>1 DEF RunSentences
  <2> QED
    BY <2>1, <2>3, <2>4
<1> QED
  BY <1>1, <1>3, <1>4, <1>5, <1>6, <1>7, <1>8, <1>9 DEF Place, parser

LEMMA ProbeIsSound ==
  ASSUME NEW args \in Seq(Arguments), Len(args) <= MaxArgs, ProbeEnds(Reads("probe", args)) # Failure
  PROVE  Sentence(args, ProbeEnds(Reads("probe", args))) \in ProbeLanguage
<1> DEFINE parser == Reads("probe", args)
           s == Sentence(args, ProbeEnds(parser))
<1>1. Place("probe", args, parser)
  BY EveryPlace
<1>2. SUFFICES \E list \in Lists("probe") : s \in ProbeSentences(list)
  BY DEF ProbeLanguage
<1> HIDE DEF parser
<1>3. ~InBind("probe", args, parser)
  BY EndsAt DEF InBind, parser
<1>4. /\ ~InCwd("probe", args, parser) /\ ~BeforeCommand("probe", args, parser)
      /\ ~InCommand("probe", args, parser)
  BY DEF InCwd, BeforeCommand, InCommand
<1>5. ~HasRefused(parser)
  BY DEF HasRefused, ProbeEnds, parser
<1>6. CASE BetweenOptions("probe", args, parser)
  <2>1. PICK list \in Lists("probe") : args = list.args /\ parser = At(list, "option", <<>>, Failure)
    BY <1>6 DEF BetweenOptions, Between
  <2>2. list.binds # <<>> /\ ProbeEnds(parser) = ProbeResult(list.binds)
    BY <2>1, EndsAt DEF parser
  <2> QED
    BY <2>1, <2>2 DEF ProbeSentences
<1>7. CASE HasEnded("probe", args, parser)
  <2>1. PICK list \in Lists("probe"), rest \in Seq(Arguments) :
          args = Append(list.args, <<"--help">>) \o rest /\ parser.result = HelpResult
    BY <1>7 DEF HasEnded
  <2>2. ProbeEnds(parser) = parser.result
    BY <1>7 DEF HasEnded, ProbeEnds
  <2>3. s \in Ends(list, <<"--help">>, HelpResult)
    BY <2>1, <2>2, EndSentences, OptionsAreArguments
  <2> HIDE DEF s
  <2> QED
    BY <2>3 DEF ProbeSentences
<1> QED
  BY <1>1, <1>3, <1>4, <1>5, <1>6, <1>7 DEF Place

(* The lists of options of a sentence, and what follows them, are read     *)
(* as the sentence says.                                                   *)
LEMMA EndIsRead ==
  ASSUME NEW usage \in {"run", "probe"}, NEW list \in Lists(usage), NEW arg \in Arguments,
         NEW result, Step(usage, Between(list), arg) = At(list, "nothing", <<>>, result),
         NEW s \in Ends(list, arg, result)
  PROVE  \E args \in Seq(Arguments) :
           /\ Len(args) <= MaxArgs /\ s = Sentence(args, result)
           /\ Reads(usage, args) = At(list, "nothing", <<>>, result)
<1>1. PICK rest \in Seq(Arguments) :
        /\ s = Sentence(Append(list.args, arg) \o rest, result)
        /\ Append(list.args, arg) \o rest \in Seq(Arguments)
        /\ Len(Append(list.args, arg) \o rest) <= MaxArgs
  BY EndSentences
<1>2. list.args \in Seq(Arguments) /\ Append(list.args, arg) \in Seq(Arguments)
  BY ListsGoOn, AppendProperties
<1>3. Reads(usage, Append(list.args, arg)) = At(list, "nothing", <<>>, result)
  BY <1>2, ListIsRead, ReadsNext
<1>4. At(list, "nothing", <<>>, result).expects = "nothing"
  BY AtFields
<1>5. Reads(usage, Append(list.args, arg) \o rest) = At(list, "nothing", <<>>, result)
  <2> DEFINE first == Append(list.args, arg)
  <2>1. first \in Seq(Arguments) /\ Reads(usage, first) = At(list, "nothing", <<>>, result)
    BY <1>2, <1>3
  <2> HIDE DEF first
  <2>2. Reads(usage, first).expects = "nothing"
    BY <1>4, <2>1
  <2>3. Reads(usage, first \o rest) = Reads(usage, first)
    BY <2>1, <2>2, NothingIsRead
  <2> QED
    BY <2>1, <2>3 DEF first
<1> QED
  BY <1>1, <1>5

LEMMA CommandSentenceIsRead ==
  ASSUME NEW list \in Lists("run"), NEW s \in Commands(list)
  PROVE  \E args \in Seq(Arguments), command \in Seq(Arguments) \ {<<>>} :
           /\ Len(args) <= MaxArgs
           /\ s = Sentence(args, RunResult(list.binds, list.cwd, list.quiet, command))
           /\ Reads("run", args) = At(list, "arguments", command, Failure)
<1>1. list.args \in Seq(Arguments) /\ Len(list.args) \in Nat /\ Reads("run", list.args) = Between(list)
  BY ListsGoOn, ListIsRead
<1>2. ASSUME NEW command \in Rests(Len(list.args)), IsCommand(command),
             s = Sentence(list.args \o command, RunResult(list.binds, list.cwd, list.quiet, command))
      PROVE  /\ command \in Seq(Arguments) \ {<<>>} /\ list.args \o command \in Seq(Arguments)
             /\ Len(list.args \o command) <= MaxArgs
             /\ Reads("run", list.args \o command) = At(list, "arguments", command, Failure)
  <2> DEFINE first == Head(command)
             rest  == Tail(command)
             start == Append(list.args, first)
  <2>1. /\ command \in Seq(Arguments) /\ Len(command) + Len(list.args) <= MaxArgs
        /\ command # <<>> /\ ~BeginsWith(Head(command), Dashed)
    BY <1>1, <1>2, RestsAre DEF IsCommand
  <2>2. first \in Arguments /\ rest \in Seq(Arguments) /\ <<first>> \in Seq(Arguments)
    BY <2>1, HeadTailProperties
  <2>3. command = <<first>> \o rest
    BY <2>1
  <2>4. Len(list.args \o command) <= MaxArgs /\ list.args \o command \in Seq(Arguments)
    <3>1. Len(command) \in Nat
      BY <2>1
    <3> QED
      BY <1>1, <2>1, <3>1, ConcatProperties
  <2> HIDE DEF first, rest
  <2>5. list.args \o command = start \o rest /\ start \in Seq(Arguments)
    <3>1. list.args \o (<<first>> \o rest) = (list.args \o <<first>>) \o rest
      <4>1. \A base \in Seq(Arguments) : base \o (<<first>> \o rest) = (base \o <<first>>) \o rest
        BY <2>2, ConcatAssociative
      <4> QED
        BY <1>1, <4>1, Zenon
    <3>2. start = list.args \o <<first>>
      BY <1>1, <2>2, AppendIsConcat
    <3>3. start \in Seq(Arguments)
      BY <1>1, <2>2, AppendProperties
    <3> QED
      BY <2>3, <3>1, <3>2, <3>3, Zenon
  <2>6. Reads("run", start) = At(list, "arguments", <<first>>, Failure)
    <3>1. Reads("run", start) = Step("run", Between(list), first)
      <4>1. \A base \in Seq(Arguments) :
              Reads("run", Append(base, first)) = Step("run", Reads("run", base), first)
        BY <2>2, ReadsNext
      <4> QED
        BY <1>1, <4>1
    <3>2. Take(Between(list), first) = At(list, "arguments", <<first>>, Failure)
      BY <2>1, <2>2, OptionTaken DEF first
    <3> QED
      BY <3>1, <3>2 DEF Step
  <2> HIDE DEF start
  <2>7. Reads("run", start \o rest) = At(list, "arguments", <<first>> \o rest, Failure)
    BY <2>2, <2>5, <2>6, CommandIsRead
  <2>8. Reads("run", list.args \o command) = At(list, "arguments", command, Failure)
    BY <2>3, <2>5, <2>7, Zenon
  <2> QED
    BY <2>1, <2>4, <2>8
<1>3. ASSUME NEW command \in Rests(Len(list.args) + 1), command # <<>>,
             s = Sentence(Append(list.args, <<"--">>) \o command,
                          RunResult(list.binds, list.cwd, list.quiet, command))
      PROVE  /\ command \in Seq(Arguments) \ {<<>>}
             /\ Append(list.args, <<"--">>) \o command \in Seq(Arguments)
             /\ Len(Append(list.args, <<"--">>) \o command) <= MaxArgs
             /\ Reads("run", Append(list.args, <<"--">>) \o command)
                  = At(list, "arguments", command, Failure)
  <2> DEFINE first == Head(command)
             rest  == Tail(command)
             start == Append(list.args, <<"--">>)
             all   == Append(start, first)
  <2>1. command \in Seq(Arguments) /\ Len(command) + (Len(list.args) + 1) <= MaxArgs
    <3>1. Len(list.args) + 1 \in Nat
      BY <1>1
    <3> QED
      BY <1>3, <3>1, RestsAre
  <2>2. first \in Arguments /\ rest \in Seq(Arguments) /\ <<first>> \in Seq(Arguments)
    BY <1>3, <2>1, HeadTailProperties
  <2>3. command = <<first>> \o rest
    BY <1>3, <2>1
  <2>4. start \in Seq(Arguments) /\ Len(start) = Len(list.args) + 1
    BY <1>1, OptionsAreArguments, AppendProperties
  <2>5. Reads("run", start) = At(list, "command", <<>>, Failure)
    <3>1. Reads("run", start) = Step("run", Between(list), <<"--">>)
      BY <1>1, OptionsAreArguments, ReadsNext
    <3>2. Take(Between(list), <<"--">>) = At(list, "command", <<>>, Failure)
      BY OptionsAreArguments, OptionTaken
    <3> QED
      BY <3>1, <3>2 DEF Step
  <2> HIDE DEF first, rest, start
  <2>6. start \o command \in Seq(Arguments) /\ Len(start \o command) <= MaxArgs
    <3>1. start \o command \in Seq(Arguments) /\ Len(start \o command) = Len(start) + Len(command)
      BY <2>1, <2>4, ConcatProperties
    <3>2. Len(command) \in Nat /\ Len(list.args) \in Nat
      BY <1>1, <2>1
    <3> QED
      BY <2>1, <2>4, <3>1, <3>2, ArgumentsAssumption
  <2>7. start \o command = all \o rest /\ all \in Seq(Arguments)
    <3>1. start \o (<<first>> \o rest) = (start \o <<first>>) \o rest
      BY <2>2, <2>4, ConcatAssociative
    <3>2. all = start \o <<first>>
      BY <2>2, <2>4, AppendIsConcat
    <3>3. all \in Seq(Arguments)
      BY <2>2, <2>4, AppendProperties
    <3> QED
      BY <2>3, <3>1, <3>2, <3>3, Zenon
  <2>8. Reads("run", all) = At(list, "arguments", <<first>>, Failure)
    <3>1. Reads("run", all) = Step("run", At(list, "command", <<>>, Failure), first)
      <4>1. \A base \in Seq(Arguments) :
              Reads("run", Append(base, first)) = Step("run", Reads("run", base), first)
        BY <2>2, ReadsNext
      <4> QED
        BY <2>4, <2>5, <4>1
    <3>2. Step("run", At(list, "command", <<>>, Failure), first)
            = TakeCommand(At(list, "command", <<>>, Failure), first)
      <4>1. At(list, "command", <<>>, Failure).expects = "command"
        BY AtFields
      <4> QED
        BY <4>1 DEF Step, Take
    <3>3. TakeCommand(At(list, "command", <<>>, Failure), first) = At(list, "arguments", <<first>>, Failure)
      <4>1. <<first>> = Append(<<>>, first)
        OBVIOUS
      <4>2. ASSUME NEW none, none = <<>>
            PROVE  TakeCommand(At(list, "command", none, Failure), first)
                     = At(list, "arguments", <<first>>, Failure)
        <5>1. TakeCommand(At(list, "command", none, Failure), first)
                = At(list, "arguments", Append(none, first), Failure)
          BY CommandTaken
        <5> QED
          BY <4>1, <4>2, <5>1
      <4> QED
        BY <4>2
    <3> QED
      BY <3>1, <3>2, <3>3
  <2> HIDE DEF all
  <2>9. Reads("run", all \o rest) = At(list, "arguments", <<first>> \o rest, Failure)
    BY <2>2, <2>7, <2>8, CommandIsRead
  <2>10. Reads("run", start \o command) = At(list, "arguments", command, Failure)
    BY <2>3, <2>7, <2>9, Zenon
  <2> QED
    BY <1>3, <2>1, <2>6, <2>10 DEF start
<1>4. \/ \E command \in Rests(Len(list.args)) :
           /\ IsCommand(command)
           /\ s = Sentence(list.args \o command, RunResult(list.binds, list.cwd, list.quiet, command))
      \/ \E command \in Rests(Len(list.args) + 1) :
           /\ command # <<>>
           /\ s = Sentence(Append(list.args, <<"--">>) \o command,
                           RunResult(list.binds, list.cwd, list.quiet, command))
  BY DEF Commands
<1> QED
  BY <1>2, <1>3, <1>4, Zenon

LEMMA RunIsComplete ==
  ASSUME NEW s \in RunLanguage
  PROVE  \E args \in Seq(Arguments) :
           /\ Len(args) <= MaxArgs
           /\ s = Sentence(args, RunEnds(Reads("run", args)))
           /\ RunEnds(Reads("run", args)) # Failure
<1>1. PICK list \in Lists("run") : s \in RunSentences(list)
  BY DEF RunLanguage
<1>2. CASE s \in Commands(list) /\ list.binds # <<>>
  <2>1. PICK args \in Seq(Arguments), command \in Seq(Arguments) \ {<<>>} :
          /\ Len(args) <= MaxArgs
          /\ s = Sentence(args, RunResult(list.binds, list.cwd, list.quiet, command))
          /\ Reads("run", args) = At(list, "arguments", command, Failure)
    BY <1>2, CommandSentenceIsRead
  <2>2. RunEnds(Reads("run", args)) = RunResult(list.binds, list.cwd, list.quiet, command)
    BY <1>2, <2>1, EndsAt
  <2> QED
    BY <2>1, <2>2, ResultsDiffer
<1>3. ASSUME NEW arg \in Arguments, NEW result, result # Failure,
             Take(Between(list), arg) = At(list, "nothing", <<>>, result), s \in Ends(list, arg, result)
      PROVE  \E args \in Seq(Arguments) :
               /\ Len(args) <= MaxArgs
               /\ s = Sentence(args, RunEnds(Reads("run", args)))
               /\ RunEnds(Reads("run", args)) # Failure
  <2>1. Step("run", Between(list), arg) = At(list, "nothing", <<>>, result)
    BY <1>3 DEF Step
  <2>2. PICK args \in Seq(Arguments) :
          /\ Len(args) <= MaxArgs /\ s = Sentence(args, result)
          /\ Reads("run", args) = At(list, "nothing", <<>>, result)
    BY <1>3, <2>1, EndIsRead
  <2>3. At(list, "nothing", <<>>, result).expects = "nothing"
        /\ At(list, "nothing", <<>>, result).result = result
    BY AtFields
  <2>4. RunEnds(Reads("run", args)) = result
    BY <2>2, <2>3 DEF RunEnds
  <2> QED
    BY <1>3, <2>2, <2>4
<1>4. CASE s \in Ends(list, <<"--help">>, HelpResult)
  <2>1. Take(Between(list), <<"--help">>) = At(list, "nothing", <<>>, HelpResult)
    BY OptionTaken, OptionsAreArguments
  <2> QED
    BY <1>3, <1>4, <2>1, ResultsDiffer, OptionsAreArguments
<1>5. CASE s \in Ends(list, <<"--version">>, VersionResult)
  <2>1. Take(Between(list), <<"--version">>) = At(list, "nothing", <<>>, VersionResult)
    BY OptionTaken, OptionsAreArguments
  <2> QED
    BY <1>3, <1>5, <2>1, ResultsDiffer, OptionsAreArguments
<1> QED
  BY <1>1, <1>2, <1>4, <1>5 DEF RunSentences

LEMMA ProbeIsComplete ==
  ASSUME NEW s \in ProbeLanguage
  PROVE  \E args \in Seq(Arguments) :
           /\ Len(args) <= MaxArgs
           /\ s = Sentence(args, ProbeEnds(Reads("probe", args)))
           /\ ProbeEnds(Reads("probe", args)) # Failure
<1>1. PICK list \in Lists("probe") : s \in ProbeSentences(list)
  BY DEF ProbeLanguage
<1>2. CASE s = Sentence(list.args, ProbeResult(list.binds)) /\ list.binds # <<>>
  <2>1. /\ list.args \in Seq(Arguments) /\ Len(list.args) <= MaxArgs
        /\ Reads("probe", list.args) = At(list, "option", <<>>, Failure)
    BY ListsGoOn, ListIsRead DEF Between
  <2>2. ProbeEnds(Reads("probe", list.args)) = ProbeResult(list.binds)
    BY <1>2, <2>1, EndsAt
  <2> QED
    BY <1>2, <2>1, <2>2, ResultsDiffer
<1>3. CASE s \in Ends(list, <<"--help">>, HelpResult)
  <2>1. Step("probe", Between(list), <<"--help">>) = At(list, "nothing", <<>>, HelpResult)
    BY ProbeOptionTaken, OptionsAreArguments DEF Step
  <2>2. PICK args \in Seq(Arguments) :
          /\ Len(args) <= MaxArgs /\ s = Sentence(args, HelpResult)
          /\ Reads("probe", args) = At(list, "nothing", <<>>, HelpResult)
    BY <1>3, <2>1, EndIsRead, OptionsAreArguments
  <2>3. At(list, "nothing", <<>>, HelpResult).expects = "nothing"
        /\ At(list, "nothing", <<>>, HelpResult).result = HelpResult
    BY AtFields
  <2>4. ProbeEnds(Reads("probe", args)) = HelpResult
    BY <2>2, <2>3 DEF ProbeEnds
  <2> QED
    BY <2>2, <2>4, ResultsDiffer
<1> QED
  BY <1>1, <1>2, <1>3 DEF ProbeSentences

(* The two usages share no command line.                                   *)
LEMMA ParserIsItsGrammar == ParsesItsGrammar
<1> DEFINE probe == <<<<"probe">>>>
           Accepted == {s \in {Sentence(args, Parse(args)) : args \in Rests(0)} : s.result # Failure}
           Probes == {Sentence(probe \o s.args, s.result) :
                        s \in {p \in ProbeLanguage : Len(p.args) < MaxArgs}}
<1>1. \A args : args \in Rests(0) <=> args \in Seq(Arguments) /\ Len(args) <= MaxArgs
  <2>1. ASSUME NEW args
        PROVE  args \in Rests(0) <=> args \in Seq(Arguments) /\ Len(args) <= MaxArgs
    <3>1. args \in Rests(0) <=> args \in Seq(Arguments) /\ Len(args) + 0 <= MaxArgs
      BY RestsAre
    <3>2. args \in Seq(Arguments) => Len(args) \in Nat /\ Len(args) + 0 = Len(args)
      OBVIOUS
    <3> QED
      BY <3>1, <3>2
  <2> QED
    BY <2>1
<1>2. \A s : s \in Accepted <=>
        \E args \in Rests(0) : s = Sentence(args, Parse(args)) /\ Parse(args) # Failure
  BY SentenceParts
<1>3. probe \in Seq(Arguments) /\ Len(probe) = 1 /\ Head(probe) = <<"probe">>
  BY OptionsAreArguments
<1>4. ASSUME NEW rest \in Seq(Arguments)
      PROVE  /\ probe \o rest \in Seq(Arguments) /\ Len(probe \o rest) = Len(rest) + 1
             /\ Len(rest) \in Nat
             /\ probe \o rest # <<>> /\ Head(probe \o rest) = <<"probe">> /\ Tail(probe \o rest) = rest
  <2>1. Len(rest) \in Nat /\ Len(probe \o rest) = Len(rest) + 1 /\ probe \o rest \in Seq(Arguments)
    BY <1>3, ConcatProperties
  <2>2. Head(probe \o rest) = <<"probe">> /\ Tail(probe \o rest) = rest
    OBVIOUS
  <2>3. probe \o rest # <<>>
    <3> HIDE DEF probe
    <3> QED
      BY <2>1, EmptySeq
  <2> QED
    BY <2>1, <2>2, <2>3
<1>5. ASSUME NEW args \in Seq(Arguments), args # <<>>, Head(args) = <<"probe">>
      PROVE  Tail(args) \in Seq(Arguments) /\ args = probe \o Tail(args)
  <2>1. args = <<Head(args)>> \o Tail(args) /\ Tail(args) \in Seq(Arguments)
    BY <1>5, HeadTailProperties
  <2> QED
    BY <1>5, <2>1, Zenon
<1> HIDE DEF probe
<1>6. ASSUME NEW args \in Rests(0), Parse(args) # Failure
      PROVE  Sentence(args, Parse(args)) \in RunLanguage \cup Probes
  <2>1. args \in Seq(Arguments) /\ Len(args) <= MaxArgs
    BY <1>1
  <2>2. CASE args # <<>> /\ Head(args) = <<"probe">>
    <3> DEFINE rest == Tail(args)
    <3>1. rest \in Seq(Arguments) /\ args = probe \o rest
      BY <1>5, <2>1, <2>2
    <3>2. Parse(args) = ProbeEnds(Reads("probe", rest))
      BY <2>2 DEF Parse
    <3> HIDE DEF rest
    <3>3. Len(rest) < MaxArgs /\ Len(rest) <= MaxArgs
      <4>1. Len(args) = Len(rest) + 1 /\ Len(rest) \in Nat
        BY <1>4, <3>1
      <4> QED
        BY <2>1, <4>1, ArgumentsAssumption
    <3> DEFINE s == Sentence(rest, ProbeEnds(Reads("probe", rest)))
    <3>4. s \in ProbeLanguage
      BY <1>6, <3>1, <3>2, <3>3, ProbeIsSound
    <3>5. s.args = rest /\ s.result = Parse(args)
      BY <3>2, SentenceParts
    <3> HIDE DEF s
    <3>6. s \in {p \in ProbeLanguage : Len(p.args) < MaxArgs}
      BY <3>3, <3>4, <3>5
    <3>7. Sentence(probe \o s.args, s.result) \in Probes
      BY <3>6
    <3>8. Sentence(probe \o s.args, s.result) = Sentence(args, Parse(args))
      BY <3>1, <3>5, Zenon
    <3> HIDE DEF Probes
    <3> QED
      BY <3>7, <3>8
  <2>3. CASE ~(args # <<>> /\ Head(args) = <<"probe">>)
    <3>1. Parse(args) = RunEnds(Reads("run", args))
      BY <2>3 DEF Parse
    <3> QED
      BY <1>6, <2>1, <3>1, RunIsSound
  <2> QED
    BY <2>2, <2>3
<1>7. ASSUME NEW s \in RunLanguage PROVE s \in Accepted
  <2>1. PICK args \in Seq(Arguments) :
          /\ Len(args) <= MaxArgs
          /\ s = Sentence(args, RunEnds(Reads("run", args)))
          /\ RunEnds(Reads("run", args)) # Failure
    BY <1>7, RunIsComplete
  <2>2. ~(args # <<>> /\ Head(args) = <<"probe">>)
    BY <2>1, ProbeIsNoCommand
  <2>3. Parse(args) = RunEnds(Reads("run", args))
    BY <2>2 DEF Parse
  <2> HIDE DEF Accepted
  <2> QED
    BY <1>1, <1>2, <2>1, <2>3
<1>8. ASSUME NEW s \in Probes PROVE s \in Accepted
  <2>1. PICK p \in ProbeLanguage : Len(p.args) < MaxArgs /\ s = Sentence(probe \o p.args, p.result)
    BY <1>8
  <2>2. PICK rest \in Seq(Arguments) :
          /\ p = Sentence(rest, ProbeEnds(Reads("probe", rest)))
          /\ ProbeEnds(Reads("probe", rest)) # Failure
    BY ProbeIsComplete
  <2>3. p.args = rest /\ p.result = ProbeEnds(Reads("probe", rest))
    BY <2>2, SentenceParts
  <2> DEFINE args == probe \o rest
  <2>4. /\ args \in Seq(Arguments) /\ Len(args) = Len(rest) + 1 /\ Len(rest) \in Nat
        /\ args # <<>> /\ Head(args) = <<"probe">> /\ Tail(args) = rest
    BY <1>4
  <2>5. s = Sentence(args, p.result)
    BY <2>1, <2>3
  <2> HIDE DEF args
  <2>6. Parse(args) = ProbeEnds(Reads("probe", rest))
    BY <2>4 DEF Parse
  <2>7. Len(args) <= MaxArgs
    BY <2>1, <2>3, <2>4, ArgumentsAssumption
  <2> HIDE DEF Accepted
  <2> QED
    BY <1>1, <1>2, <2>2, <2>3, <2>4, <2>5, <2>6, <2>7
<1>9. Accepted = RunLanguage \cup Probes
  <2> HIDE DEF Accepted, Probes
  <2> QED
    BY <1>2, <1>6, <1>7, <1>8
<1> QED
  BY <1>9 DEF ParsesItsGrammar, Language, probe

(* Every command line is accepted or refused as the grammar says, with the *)
(* meaning it has there, whatever the arguments and however many they are. *)
THEOREM AcceptsItsGrammar == Spec => []ParsesItsGrammarAtStart
<1>1. ParsesItsGrammarAtStart
  BY ParserIsItsGrammar DEF ParsesItsGrammarAtStart
<1> QED
  BY <1>1, PTL
===============================================================================
