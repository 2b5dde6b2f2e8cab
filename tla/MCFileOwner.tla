----------------------------- MODULE MCFileOwner -----------------------------
(***************************************************************************)
(* A few objects, one address more than is needed, and files that differ   *)
(* in what acceptor looks at.                                              *)
(***************************************************************************)
EXTENDS FileOwner

ELF == [size |-> 7, magic |-> TRUE, class |-> 2, data |-> 1]

Files == {ELF, [ELF EXCEPT !.size = 6], [ELF EXCEPT !.magic = FALSE], [ELF EXCEPT !.class = 3]}
==============================================================================
