---------------------------- MODULE MCDWARFType ----------------------------
(***************************************************************************)
(* The DIEs of a unit with one variable and three types, at the offsets    *)
(* 30, 40 and 50.  Values are made of types at higher offsets only, as C   *)
(* demands; pointers may point anywhere.                                   *)
(***************************************************************************)
EXTENDS DWARFType

Die(tag) == [tag |-> tag, offset |-> 0, childrenOffsets |-> << >>, named |-> FALSE,
             type |-> Absent, byteSize |-> Absent, count |-> Absent, location |-> Absent]

Variable(r)  == [Die("variable") EXCEPT !.named = TRUE, !.type = r]
Sized(tag, n) == [Die(tag) EXCEPT !.byteSize = n]
To(tag, r)   == [Die(tag) EXCEPT !.type = r]
Subrange(n)  == [Die("subrange_type") EXCEPT !.count = n]
Member(r, o) == [Die("member") EXCEPT !.type = r, !.location = o]

\* A DIE and its children.
Tree(die, kids) == [die |-> die, kids |-> kids]
Leaf(die)       == Tree(die, << >>)

\* They are written at an offset one after the other.
Placed(offset, tree) ==
  <<[tree.die EXCEPT !.offset = offset, !.childrenOffsets = [k \in 1..Len(tree.kids) |-> offset + k]]>>
  \o [k \in 1..Len(tree.kids) |-> [tree.kids[k] EXCEPT !.offset = offset + k]]

\* A unit with four children.
Unit(a, b, c, d) ==
  <<[Die("compile_unit") EXCEPT !.offset = 11, !.childrenOffsets = <<20, 30, 40, 50>>]>>
  \o Placed(20, a) \o Placed(30, b) \o Placed(40, c) \o Placed(50, d)

Scalar(n)  == Leaf(Sized("base_type", n))
Enum     == Leaf(Sized("enumeration_type", 4))
Scalars    == {Scalar(n) : n \in {1, 4, Absent}}
Opaque   == {Leaf(Sized("structure_type", n)) : n \in {0, Absent}}
Pointers == {Leaf(To("pointer_type", r)) : r \in {Absent, 30, 40, 50}}
Typedefs(refs) == {Leaf(To("typedef", r)) : r \in refs}

Counts == {<< >>, <<Subrange(2)>>, <<Subrange(Absent)>>, <<Subrange(2), Subrange(3)>>, <<Die("enumerator")>>}
Arrays(refs) == {Tree(To("array_type", r), kids) : r \in refs, kids \in Counts}

Fields(refs) ==
  {<<Die("subprogram")>>} \cup {<<Member(r, o)>> : r \in refs, o \in {0, Absent}}
  \cup {<<Member(r, p), Member(q, 0)>> : r \in refs, q \in refs, p \in {0, 4}}
Structs(refs) == {Tree(Sized("structure_type", 8), kids) : kids \in Fields(refs)}

Any(refs) == Typedefs(refs) \cup Arrays(refs) \cup Structs(refs) \cup Pointers
Last      == Scalars \cup Pointers \cup Opaque \cup {Enum}

AllInfos ==
  {Unit(Leaf(Variable(30)), t, f, v) : t \in Any({40, 50}), f \in Any({50}), v \in Last}
  \cup {Unit(Leaf(Variable(r)), Enum, f, v) : r \in {Absent, 40, 60}, f \in Any({Absent, 50}), v \in Last}

\* struct node { struct node *next; } a;
NodeInfos ==
  {Unit(Leaf(Variable(30)), Tree(Sized("structure_type", 8), <<Member(40, 0)>>),
        Leaf(To("pointer_type", 30)), Scalar(4))}

==============================================================================
