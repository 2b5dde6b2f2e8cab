------------------------------ MODULE UnitBytes ------------------------------
(***************************************************************************)
(* Making compilation units: from the shapes of their DIEs, each a code    *)
(* and the number of marks after it, to entries and bytes.                 *)
(***************************************************************************)
EXTENDS CompileUnit, SequencesExt

\* The entry after e.
After(abbrevs, e, s) ==
  [at    |-> e.at + 1 + abbrevs[e.code].width + e.marks,
   depth |-> e.depth + (IF abbrevs[e.code].children THEN 1 ELSE 0) - e.marks,
   code  |-> s.code, marks |-> s.marks]

Root(m) == [at |-> 1, depth |-> 0, code |-> 1, marks |-> m]

EntriesOf(abbrevs, m, shapes) ==
  FoldLeft(LAMBDA es, s : Append(es, After(abbrevs, es[Len(es)], s)), <<Root(m)>>, shapes)

\* The bytes of a list of entries; attribute bytes hold `filler`.
Bytes(abbrevs, es, filler) ==
  FlattenSeq([i \in 1..Len(es) |->
    <<es[i].code>> \o [k \in 1..abbrevs[es[i].code].width |-> filler] \o [k \in 1..es[i].marks |-> 0]])

Unit(abbrevs, es, filler, beyond) ==
  LET bytes == Bytes(abbrevs, es, filler) IN
  [hasSections |-> TRUE, dwarf64 |-> FALSE, length |-> HeaderSize + Len(bytes),
   version |-> 4, addrSize |-> 8, abbrevs |-> abbrevs, entries |-> es,
   body |-> bytes, beyond |-> beyond]
==============================================================================
