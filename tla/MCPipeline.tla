----------------------------- MODULE MCPipeline -----------------------------
(***************************************************************************)
(* Programs of two variables, of all the types the type reader tells       *)
(* apart, as units of debug information.                                   *)
(***************************************************************************)
EXTENDS Pipeline

Build == INSTANCE UnitBytes

Decl(c, t, kids) == [code |-> c, tag |-> t, children |-> kids, width |-> 1]

Abbrevs ==
  << Decl(1, "compile_unit", TRUE), Decl(2, "base_type", FALSE), Decl(3, "pointer_type", FALSE),
     Decl(4, "structure_type", TRUE), Decl(5, "member", FALSE), Decl(6, "array_type", TRUE),
     Decl(7, "subrange_type", FALSE), Decl(8, "typedef", FALSE), Decl(9, "const_type", FALSE),
     Decl(10, "structure_type", FALSE), Decl(11, "subprogram", TRUE), Decl(12, "variable", FALSE) >>

\* A DIE; `type` is the number of the entry referred to.
Row(c) == [code |-> c, marks |-> 0, name |-> "", type |-> Absent,
           byteSize |-> Absent, count |-> Absent, location |-> Absent]

Closing(row) == [row EXCEPT !.marks = @ + 1]

Sized(c, n)       == [Row(c) EXCEPT !.byteSize = n]
Refers(c, t)      == [Row(c) EXCEPT !.type = t]
Member(t, offset) == [Refers(5, t) EXCEPT !.location = offset]
Var(n, t)         == [Refers(12, t) EXCEPT !.name = n]

\* int, int *, void *, a declared structure, const int, an array of three int, a
\* structure with its members in any order, a typedef of it.
TypeRows ==
  << Sized(2, 4), Refers(3, 2), Row(3), Row(10), Refers(9, 2),
     Refers(6, 2), Closing([Row(7) EXCEPT !.count = 3]),
     Sized(4, 16), Member(3, 8), Closing(Member(2, 0)),
     Refers(8, 9) >>

\* The numbers of the types among the entries.
TypesOfVariables == {2, 3, 4, 5, 6, 7, 9, 12}

NoAttrs == [name |-> "", type |-> Absent, byteSize |-> Absent, count |-> Absent, location |-> Absent,
            children |-> << >>]

UnitOf(rows) ==
  LET es == Build!EntriesOf(Abbrevs, 0, rows)
      u  == Build!Unit(Abbrevs, es, 3, 0)
      Below(i) == SelectSeq([j \in 1..Len(es) |-> j], LAMBDA j : Build!IsParent(u, i, j))
      AttrsOf(i) ==
        LET row == IF i = 1 THEN Row(1) ELSE rows[i - 1] IN
        [name |-> row.name, type |-> IF row.type = Absent THEN Absent ELSE es[row.type].at,
         byteSize |-> row.byteSize, count |-> row.count, location |-> row.location,
         children |-> [k \in 1..Len(Below(i)) |-> es[Below(i)[k]].at]]
      attrs == [o \in 1..Len(u.body) |->
                  IF \E i \in 1..Len(es) : es[i].at = o THEN AttrsOf(CHOOSE i \in 1..Len(es) : es[i].at = o)
                  ELSE NoAttrs]
  IN  [hasSections |-> u.hasSections, dwarf64 |-> u.dwarf64, length |-> u.length, version |-> u.version,
       addrSize |-> u.addrSize, abbrevs |-> u.abbrevs, entries |-> u.entries, body |-> u.body, beyond |-> u.beyond,
       attrs |-> attrs]

\* b is a structure.
Program(a) == UnitOf(TypeRows \o <<Var("a", a), Closing(Var("b", 9))>>)

\* A function has a static variable of the same name.
Shadowing == UnitOf(TypeRows \o <<Row(11), Closing(Var("a", 7)), Var("a", 2), Closing(Var("b", 3))>>)

\* The structure comes last: its end and that of the unit are adjacent marks.
Adjacent ==
  UnitOf(<<Sized(2, 4), Refers(3, 2), Var("a", 3), Var("b", 6), Sized(4, 16), Member(3, 8),
           Closing(Closing(Member(2, 0)))>>)

OneVariable == UnitOf(TypeRows \o <<Closing(Var("b", 3))>>)

\* A structure with a pointer to such a structure.
List ==
  UnitOf(<<Sized(2, 4), Refers(3, 4), Sized(4, 16), Member(3, 8), Closing(Member(2, 0)),
           Var("a", 4), Closing(Var("b", 2))>>)

AllUnits ==
  {Program(a) : a \in TypesOfVariables}
  \cup {Shadowing, Adjacent, List, OneVariable,
        [OneVariable EXCEPT !.hasSections = FALSE], [OneVariable EXCEPT !.version = 5]}

IntType == [kind |-> "base", size |-> 4]
Ptr     == [kind |-> "pointer", size |-> 8]
Ints    == [kind |-> "array", size |-> 12, elem |-> IntType, num |-> 3]
Struct  == [kind |-> "compound", size |-> 16,
            members |-> <<[type |-> IntType, at |-> 0], [type |-> Ptr, at |-> 8]>>]

AllTypes == {IntType, Ptr, Ints, Struct}

Addresses == [n \in Names |-> IF n = "a" THEN 64 ELSE 128]

\* What dlsym finds, the code main returns, and whether the disk has room for the output.
Ends == {<<Names, 0, TRUE>>, <<Names, 3, TRUE>>, <<{"b"}, 0, TRUE>>, <<Names, 0, FALSE>>}

AllWorlds ==
  {[slash |-> TRUE, inPath |-> FALSE, named |-> n, hasMain |-> TRUE, type |-> t, exported |-> e[1],
    starts |-> "return", ends |-> "return", code |-> e[2], threads |-> FALSE, writable |-> TRUE, room |-> e[3]] :
     n \in {"no_debug_info", "bad_dwarf", "ok"}, t \in [Names -> Types], e \in Ends}

Lists == {<<"a", "b">>, <<"b", "a">>, <<"b">>}
=============================================================================
