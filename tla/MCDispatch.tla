----------------------------- MODULE MCDispatch -----------------------------
(* The source s over u/w and t over u/w/v.  The host has a tree of its own *)
(* at u/w, a FIFO in s and a link in t.                                    *)
EXTENDS Dispatch

MCNames == {"s", "t", "u", "w", "v", "f", "g", "l", "p"}
MCReserved == {}

MCView ==
  << [source |-> <<"t">>, destination |-> <<"u", "w", "v">>],
     [source |-> <<"s">>, destination |-> <<"u", "w">>] >>

MCTree ==
  [path \in {<<>>, <<"s">>, <<"t">>, <<"u">>, <<"u", "w">>} |-> Dir]
    @@ (<<"s", "f">> :> File(0)) @@ (<<"u", "w", "f">> :> File(0)) @@ (<<"s", "p">> :> Fifo)
    @@ (<<"t", "l">> :> Link([absolute |-> FALSE, path |-> <<"g">>]))

MCTrees == {MCTree}

On(op, path, flags) ==
  [op |-> op, path |-> path, to |-> Root, target |-> NoTarget, flags |-> flags]
Move(path, to, flags) == [On("rename", path, flags) EXCEPT !.to = to]
Symlink(target, path) == [On("symlink", path, {}) EXCEPT !.target = target]

MCCalls ==
  { On("open", <<"u", "w", "g">>, {"create", "excl"}),
    On("open", <<"u", "w", "p">>, {}),
    On("unlink", <<"u", "w", "g">>, {}),
    On("mkdir", <<"u", "w", "v", "g">>, {}),
    On("stat", <<"u", "w", "v", "l">>, {}),
    On("truncate", <<"u", "w", "l">>, {}),
    On("change", <<"u", "w", "l">>, {"nofollow"}),
    Move(<<"u", "w", "f">>, <<"u", "w", "g">>, {}),
    Move(<<"u", "w", "f">>, <<"u", "w", "v", "g">>, {}),
    Move(<<"s", "f">>, <<"t", "g">>, {}),
    Move(<<"u">>, <<"g">>, {}),
    Move(<<"u", "w", "f">>, <<"u", "w", "g">>, {"noreplace"}),
    Symlink([absolute |-> TRUE, path |-> <<"u", "w", "f">>], <<"u", "w", "l">>) }
=============================================================================
