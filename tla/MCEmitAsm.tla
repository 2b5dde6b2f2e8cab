------------------------------ MODULE MCEmitAsm ------------------------------
(***************************************************************************)
(* Instances of the emitter: a program with a few types and four places    *)
(* for objects, two of which may have the same address.                    *)
(***************************************************************************)
EXTENDS EmitAsm, SequencesExt

CONSTANT MaxSyms  \* symbols requested

Base(n)         == [kind |-> "base", size |-> n]
Ptr             == [kind |-> "pointer", size |-> 8]
Array(t, n)     == [kind |-> "array", size |-> n * t.size, elem |-> t, num |-> n]
Compound(n, ms) == [kind |-> "compound", size |-> n, members |-> ms]
Member(t, o)    == [type |-> t, at |-> o]

Padded    == Compound(8, <<Member(Base(1), 0), Member(Base(4), 4)>>)     \* struct { char; int; }
Trailing  == Compound(4, <<Member(Base(2), 0), Member(Base(1), 2)>>)     \* padding at the end
Union     == Compound(4, <<Member(Base(1), 0), Member(Base(4), 0), Member(Array(Base(1), 4), 0)>>)
Empty     == Compound(0, << >>)
Node      == Compound(24, <<Member(Trailing, 0), Member(Ptr, 8), Member(Union, 16)>>)
\* Two bit-fields of one int, and an empty member before another.
Flags     == Compound(4, <<Member(Base(4), 0), Member(Base(4), 0)>>)
Tagged    == Compound(2, <<Member(Empty, 0), Member(Base(1), 0), Member(Base(1), 1)>>)
\* union { struct { char; int; } s; char raw[8]; }: s is chosen, raw[1..3] are its padding.
Raw       == Compound(8, <<Member(Padded, 0), Member(Array(Base(1), 8), 0)>>)

RECURSIVE Parts(_)
Parts(t) == {t} \cup
  (CASE t.kind = "array" -> Parts(t.elem)
     [] t.kind = "compound" -> UNION {Parts(t.members[i].type) : i \in 1..Len(t.members)}
     [] OTHER -> {})

Roots == {Base(1), Base(3), Base(16), Ptr, Padded, Union, Array(Base(2), 3), Array(Trailing, 2),
          Array(Empty, 2), Array(Base(1), 0), Node, Flags, Tagged, Array(Ptr, 2), Raw}

GoodTypes == UNION {Parts(t) : t \in Roots}

\* They are laid out as C demands, but for bit-fields.
ASSUME GoodTypesAssumption == \A t \in Types : t \in GoodTypes => LayoutOK(t)

Places == [a |-> 64, b |-> 96, alias |-> 96, c |-> 128]

Placed(roots) == {[name |-> n, type |-> t, addr |-> Places[n]] : n \in DOMAIN Places, t \in roots}

\* Lists of symbols of different names; a has any type, the others one of a few.
Lists(roots, few) ==
  {l \in BoundedSeq({s \in Placed(roots) : s.name = "a" \/ s.type \in few}, MaxSyms) :
     \A i, j \in 1..Len(l) : i # j => l[i].name # l[j].name}

GoodLists == Lists(Roots, {Ptr, Base(3)})

\* Where pointers may be: in a Ptr, an Array(Ptr, 2), or a Node at a or b.
PointerMaps ==
  {[p \in {64, 72, 96, 104} |-> IF p \in {64, 104} THEN v ELSE w] : v \in {0, 64, 96}, w \in {0, 96, 7}}
==============================================================================
