----------------------------- MODULE MCCedoArgs -----------------------------
(***************************************************************************)
(* Command lines of a few arguments.                                       *)
(***************************************************************************)
EXTENDS CedoArgs

CONSTANT MaxArgs

AllParts == Options \cup {".", "/", "p", "q", "s"}

\* prog, prog.o, dir/prog.o, ./prog, an empty argument, and a symbol.
Plain  == {<<"p">>, <<"p", ".", "q">>, <<"q", "/", "p", ".", "q">>}
Dotted == {<<".", "/", "p">>}

Lines(paths) == BoundedSeq({<<o>> : o \in Options} \cup paths, MaxArgs)

AllLines    == Lines({<< >>} \cup {<<"p", ".", "q">>, <<".", "/", "p">>})
PathLines   == {<<<<"-S">>, <<"-s">>, <<"q">>, p>> : p \in Plain \cup Dotted}
CommandLines == AllLines \cup PathLines
==============================================================================
