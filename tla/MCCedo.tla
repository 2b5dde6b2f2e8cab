------------------------------- MODULE MCCedo -------------------------------
(***************************************************************************)
(* Worlds for the driver: one in which all goes well, and those in which   *)
(* the files, the symbols, or the end of the run do not.                   *)
(***************************************************************************)
EXTENDS Cedo

CONSTANT MaxSyms  \* symbols asked for

Lists == BoundedSeq(Names, MaxSyms) \ {<< >>}

Good ==
  [slash |-> TRUE, inPath |-> FALSE, named |-> "ok", hasMain |-> TRUE,
   type |-> [n \in Names |-> "good"], exported |-> Names,
   starts |-> "return", ends |-> "return", code |-> 0, threads |-> FALSE, writable |-> TRUE, room |-> TRUE]

FileWorlds ==
  {[Good EXCEPT !.slash = s, !.inPath = p, !.named = n, !.hasMain = m] :
     s \in BOOLEAN, p \in BOOLEAN, m \in BOOLEAN,
     n \in {"absent", "not_object", "no_debug_info", "bad_dwarf", "ok"}}

SymbolWorlds ==
  {[Good EXCEPT !.type = t, !.exported = e] : t \in [Names -> Types], e \in SUBSET Names}

EndWorlds ==
  {[Good EXCEPT !.ends = e, !.code = c, !.threads = t, !.writable = w, !.room = r] :
     e \in {"return", "exit", "abort"}, c \in {0, 3}, t \in BOOLEAN, w \in BOOLEAN, r \in BOOLEAN}
  \cup {[Good EXCEPT !.starts = s, !.code = c] : s \in {"exit", "abort"}, c \in {0, 3}}

AllWorlds == FileWorlds \cup SymbolWorlds \cup EndWorlds
==============================================================================
