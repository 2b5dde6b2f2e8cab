---------------------------- MODULE MCDWARFReader ----------------------------
(***************************************************************************)
(* Instances of the reader: every compilation unit of a few DIEs.          *)
(***************************************************************************)
EXTENDS DWARFReader, SequencesExt

CONSTANTS MaxEntries,  \* DIEs in a unit
          MaxMarks     \* end-of-children marks after one DIE

\* Four shapes of DIE: the unit itself, an inner DIE, a leaf with one byte of
\* attributes, and a leaf with none.
Abbrevs ==
  << [code |-> 1, tag |-> "compile_unit", children |-> TRUE, width |-> 1],
     [code |-> 2, tag |-> "structure_type", children |-> TRUE, width |-> 0],
     [code |-> 3, tag |-> "member", children |-> FALSE, width |-> 1],
     [code |-> 4, tag |-> "unspecified_parameters", children |-> FALSE, width |-> 0] >>

Shape == [code: 2..4, marks: 0..MaxMarks]

Build == INSTANCE UnitBytes

Unit(es, filler, beyond) == Build!Unit(Abbrevs, es, filler, beyond)

EntryLists ==
  {Build!EntriesOf(Abbrevs, s.m, s.shapes) : s \in [m: 0..1, shapes: BoundedSeq(Shape, MaxEntries - 1)]}

\* Attribute bytes are zero, the value of a mark, or a valid code.
Candidates == {Unit(es, f, b) : es \in {l \in EntryLists : \A i \in 1..Len(l) : l[i].depth >= 0},
                                f \in {0, 3}, b \in {0, 9}}

GoodUnits  == {u \in Candidates : WellFormed(u, 8)}
PlainUnits == {u \in GoodUnits : NoAdjacentMarks(u)}

Sample == Unit(<<Build!Root(1)>>, 3, 0)

\* Units the reader must refuse, or cannot read.
BadUnits ==
  {[Sample EXCEPT !.hasSections = FALSE], [Sample EXCEPT !.dwarf64 = TRUE],
   [Sample EXCEPT !.version = 5], [Sample EXCEPT !.addrSize = 4],
   [Sample EXCEPT !.length = HeaderSize - 1], [Sample EXCEPT !.length = 100],
   [Sample EXCEPT !.abbrevs = <<Abbrevs[2], Abbrevs[1]>>],
   [Sample EXCEPT !.body = <<7, 0, 0>>], [Sample EXCEPT !.body = <<1, 7, 3>>],
   [Sample EXCEPT !.length = HeaderSize + 20]}

AllUnits == GoodUnits \cup BadUnits
==============================================================================
