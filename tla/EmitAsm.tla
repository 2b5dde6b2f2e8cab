------------------------------- MODULE EmitAsm -------------------------------
(***************************************************************************)
(* AsmEmitter of lib/Backend/EmitAsm.cpp: the walk over the types of the   *)
(* requested symbols that turns their memory into assembler directives.    *)
(* One action per iteration of each loop; `calls` is the C++ call stack    *)
(* below emitOneSym.                                                       *)
(*                                                                         *)
(* The text of the assembly is abstracted to what the assembler makes of   *)
(* it: for every label an `image`, one cell per byte of the data section.  *)
(* A cell says which address of the program's memory it stands for and     *)
(* what is emitted for it: the byte found there, a zero of a .zero         *)
(* directive, or a part of a pointer, written as 0 or as a symbol's name.  *)
(***************************************************************************)
EXTENDS Integers, Sequences, FiniteSets

CONSTANTS Types,       \* the types of the program, closed under components
          Names,       \* symbol names
          NoName,      \* not a name
          SymLists,    \* lists of symbols the emitter may be given
          Memories,    \* pointer values the memory may hold, by address
          AddrSize     \* bytes in an address of the target, 4 or 8

Kinds == {"base", "pointer", "array", "compound"}

\* What Type.h fixes: an array is as large as its elements; a pointer takes 8 bytes.
ASSUME TypesAssumption ==
  \A t \in Types :
    /\ t.kind \in Kinds /\ t.size \in Nat
    /\ t.kind = "pointer" => t.size = 8
    /\ t.kind = "array" => t.elem \in Types /\ t.num \in Nat /\ t.size = t.num * t.elem.size
    /\ t.kind = "compound" => t.members \in Seq([type: Types, at: Nat])

\* The types whose objects are in an object of a type.
ComponentsOf(t) ==
  CASE t.kind = "array"    -> {t.elem}
    [] t.kind = "compound" -> {t.members[i].type : i \in 1..Len(t.members)}
    [] OTHER               -> {}

\* The types that nest at most n deep.
Nesting[n \in 0..Cardinality(Types)] ==
  IF n = 0 THEN {}
  ELSE LET shallower == Nesting[n - 1] IN {t \in Types : ComponentsOf(t) \subseteq shallower}

\* A Type is a finite tree: it owns its components and none contains itself.
ASSUME NestingAssumption == IsFiniteSet(Types) /\ Nesting[Cardinality(Types)] = Types

Syms == [name: Names, type: Types, addr: Nat \ {0}]

ASSUME EmitAssumption ==
  /\ NoName \notin Names
  /\ AddrSize \in {4, 8}
  /\ SymLists \subseteq Seq(Syms)
  /\ \A m \in Memories : m \in [DOMAIN m -> Nat]

VARIABLES syms,            \* the list of symbols, chosen once
          memory,          \* the pointers in memory when main has returned
          pc,              \* the function running, or how emission ended
          next,            \* index in syms of the next symbol of the loop running
          symbolizedAddrs, \* name of the symbol at an address
          calls,           \* emitObject and what it calls, innermost last
          output           \* one record per label emitted

vars == <<syms, memory, pc, next, symbolizedAddrs, calls, output>>

Init ==
  /\ syms \in SymLists /\ memory \in Memories
  /\ pc = "registerKnownSyms" /\ next = 1
  /\ symbolizedAddrs = << >>
  /\ calls = << >> /\ output = << >>

------------------------------------------------------------------------------
(* Cells, and the stack of calls *)

Run(what, name, from, n) ==
  [k \in 1..n |-> [what |-> what, name |-> name, of |-> from + k - 1]]

Byte(from, n) == Run("byte", NoName, from, n)
Zero(from, n) == Run("zero", NoName, from, n)

\* The first cell of a pointer names what it points to.
Pointer(name, from) ==
  [k \in 1..AddrSize |-> [what |-> IF k = 1 THEN "pointer" ELSE "rest", name |-> name, of |-> from + k - 1]]

Top == calls[Len(calls)]

Below == SubSeq(calls, 1, Len(calls) - 1)

\* A call to function fn for the object of a type at an address.  `end` is how
\* far into the object it has come, `todo` the offsets of the children to emit.
Call(fn, type, addr, todo) == [fn |-> fn, type |-> type, addr |-> addr, end |-> 0, todo |-> todo]

Running(fn, kinds) == pc = "emitAsm" /\ calls # << >> /\ Top.fn = fn /\ Top.type.kind \in kinds

\* The directives written belong to the label written last.
Emit(cells) == output' = [output EXCEPT ![Len(output)].image = @ \o cells]

------------------------------------------------------------------------------
(* emitAsm, registerKnownSyms, emitOneSym *)

\* Mutant of RegisterSym: every address gets the first name.
RegisterFirstName ==
  /\ pc = "registerKnownSyms" /\ next <= Len(syms)
  /\ symbolizedAddrs' = [a \in DOMAIN symbolizedAddrs \cup {syms[next].addr} |-> syms[1].name]
  /\ next' = next + 1
  /\ UNCHANGED <<syms, memory, pc, calls, output>>

\* A symbol registered later wins when two have one address.
RegisterSym ==
  /\ pc = "registerKnownSyms" /\ next <= Len(syms)
  /\ symbolizedAddrs' = [a \in DOMAIN symbolizedAddrs \cup {syms[next].addr} |->
                            IF a = syms[next].addr THEN syms[next].name ELSE symbolizedAddrs[a]]
  /\ next' = next + 1
  /\ UNCHANGED <<syms, memory, pc, calls, output>>

EmitFilePrologue ==
  /\ pc = "registerKnownSyms" /\ next > Len(syms)
  /\ pc' = "emitAsm" /\ next' = 1
  /\ UNCHANGED <<syms, memory, symbolizedAddrs, calls, output>>

\* The first divisor found of the address, which is 1 for every object of more than a byte.
findAlignment(sym) == IF sym.type.size > 1 THEN 1 ELSE sym.type.size

EmitOneSym ==
  /\ pc = "emitAsm" /\ calls = << >> /\ next <= Len(syms)
  /\ LET sym == syms[next] IN
       /\ output' = Append(output,
            [name |-> sym.name, align |-> findAlignment(sym), image |-> << >>,
             size |-> IF sym.type.kind = "pointer" THEN AddrSize ELSE sym.type.size])
       /\ calls' = <<Call("emitObject", sym.type, sym.addr, {})>>
  /\ next' = next + 1
  /\ UNCHANGED <<syms, memory, pc, symbolizedAddrs>>

\* Mutant of EmitFileEpilogue: the loop may stop before the last symbol.
EarlyEpilogue ==
  /\ pc = "emitAsm" /\ calls = << >> /\ next >= Len(syms)
  /\ pc' = "done"
  /\ UNCHANGED <<syms, memory, next, symbolizedAddrs, calls, output>>

EmitFileEpilogue ==
  /\ pc = "emitAsm" /\ calls = << >> /\ next > Len(syms)
  /\ pc' = "done"
  /\ UNCHANGED <<syms, memory, next, symbolizedAddrs, calls, output>>

------------------------------------------------------------------------------
(* emitPointerType *)

getPointerValue(a) == IF a \in DOMAIN memory THEN memory[a] ELSE 0

Unresolved(ptr) == ptr # 0 /\ ptr \notin DOMAIN symbolizedAddrs

EmitPointerType ==
  /\ Running("emitObject", {"pointer"})
  /\ LET ptr == getPointerValue(Top.addr) IN
       /\ ~Unresolved(ptr)
       /\ Emit(Pointer(IF ptr = 0 THEN NoName ELSE symbolizedAddrs[ptr], Top.addr))
  /\ calls' = Below
  /\ UNCHANGED <<syms, memory, pc, next, symbolizedAddrs>>

\* The assertion "Can only emit pointers to output symbols" fails.
UnresolvedPointer ==
  /\ Running("emitObject", {"pointer"}) /\ Unresolved(getPointerValue(Top.addr))
  /\ pc' = "abort"
  /\ UNCHANGED <<syms, memory, next, symbolizedAddrs, calls, output>>

------------------------------------------------------------------------------
(* emitValueForIntegralType *)

\* findLargestType: the largest directive for at most n bytes.
LargestDirective(n) ==
  CHOOSE s \in {1, 2, 4, 8} : /\ s <= n /\ s <= AddrSize
                              /\ \A r \in {1, 2, 4, 8} : r <= n /\ r <= AddrSize => r <= s

EmitChunk ==
  /\ Running("emitObject", {"base"}) /\ Top.end < Top.type.size
  /\ LET size == LargestDirective(Top.type.size - Top.end) IN
       /\ Emit(Byte(Top.addr + Top.end, size))
       /\ calls' = [calls EXCEPT ![Len(calls)].end = @ + size]
  /\ UNCHANGED <<syms, memory, pc, next, symbolizedAddrs>>

EndIntegralType ==
  /\ Running("emitObject", {"base"}) /\ Top.end >= Top.type.size
  /\ calls' = Below
  /\ UNCHANGED <<syms, memory, pc, next, symbolizedAddrs, output>>

------------------------------------------------------------------------------
(* getTypeChildren, emitTypeWithChildren *)

\* Mutant of Children: the elements of an array are counted from -1.
ChildrenTooEarly(t) ==
  IF t.kind = "compound" THEN t.members
  ELSE [i \in 1..t.num |-> [type |-> t.elem, at |-> (i - 2) * t.elem.size]]

\* The iterators of Type.h: the elements of an array, the members of a compound.
Children(t) ==
  IF t.kind = "compound" THEN t.members
  ELSE [i \in 1..(IF t.elem.size = 0 THEN 0 ELSE t.num) |-> [type |-> t.elem, at |-> (i - 1) * t.elem.size]]

Offsets(t) == {Children(t)[i].at : i \in 1..Len(Children(t))}

\* Mutant of Chosen: the smallest child.
ChosenSmallest(t, i) ==
  LET c == Children(t) IN
  \A j \in 1..Len(c) : c[j].at = c[i].at =>
    IF j < i THEN c[j].type.size > c[i].type.size ELSE c[j].type.size >= c[i].type.size

\* Of the children at one offset the first of the largest is emitted.
Chosen(t, i) ==
  LET c == Children(t) IN
  \A j \in 1..Len(c) : c[j].at = c[i].at =>
    IF j < i THEN c[j].type.size < c[i].type.size ELSE c[j].type.size <= c[i].type.size

EmitTypeWithChildren ==
  /\ Running("emitObject", {"array", "compound"})
  /\ calls' = [calls EXCEPT ![Len(calls)] =
                 Call("emitTypeWithChildren", Top.type, Top.addr, Offsets(Top.type))]
  /\ UNCHANGED <<syms, memory, pc, next, symbolizedAddrs, output>>

\* Mutants of PaddingTo: from the start of the object, and none.
PaddingFromStart(offset) == Zero(Top.addr, offset)
NoPadding(offset) == << >>

\* emitPaddingIfNecessary: zeros up to an offset; a negative count is written
\* too, and the assembler ignores it.
PaddingTo(offset) == Zero(Top.addr + Top.end, offset - Top.end)

\* The children are visited in the order of their offsets.
EmitChild ==
  /\ Running("emitTypeWithChildren", {"array", "compound"})
  /\ \E i \in 1..Len(Children(Top.type)) :
       LET child == Children(Top.type)[i] IN
       /\ child.at \in Top.todo /\ \A o \in Top.todo : child.at <= o
       /\ Chosen(Top.type, i)
       /\ Emit(PaddingTo(child.at))
       /\ calls' = Append([calls EXCEPT ![Len(calls)].todo = @ \ {child.at},
                                        ![Len(calls)].end = child.at + child.type.size],
                          Call("emitObject", child.type, Top.addr + child.at, {}))
  /\ UNCHANGED <<syms, memory, pc, next, symbolizedAddrs>>

EndChildren ==
  /\ Running("emitTypeWithChildren", {"array", "compound"}) /\ Top.todo = {}
  /\ Emit(PaddingTo(Top.type.size))
  /\ calls' = Below
  /\ UNCHANGED <<syms, memory, pc, next, symbolizedAddrs>>

------------------------------------------------------------------------------
Ended == {"done", "abort"}

Returned == pc \in Ended /\ UNCHANGED vars

Next ==
  \/ RegisterSym \/ EmitFilePrologue \/ EmitOneSym \/ EmitFileEpilogue
  \/ EmitPointerType \/ UnresolvedPointer
  \/ EmitChunk \/ EndIntegralType
  \/ EmitTypeWithChildren \/ EmitChild \/ EndChildren
  \/ Returned

Spec == Init /\ [][Next]_vars

------------------------------------------------------------------------------
(* Properties *)

Cell == [what: {"byte", "zero", "pointer", "rest"}, name: Names \cup {NoName}, of: Nat]

Labelled == [name: Names, align: Nat, size: Nat, image: Seq(Cell)]

Frame == [fn: {"emitObject", "emitTypeWithChildren"}, type: Types, addr: Nat, end: Nat, todo: SUBSET Nat]

\* The types of the fields of AsmEmitter and of the calls; something is walked
\* only below a label.
TypeOK ==
  /\ syms \in SymLists /\ memory \in Memories
  /\ pc \in {"registerKnownSyms", "emitAsm"} \cup Ended
  /\ next \in 1..(Len(syms) + 1)
  /\ symbolizedAddrs \in [DOMAIN symbolizedAddrs -> Names] /\ DOMAIN symbolizedAddrs \subseteq Nat
  /\ calls \in Seq(Frame)
  /\ output \in Seq(Labelled)
  /\ calls # << >> => output # << >>

\* A compound is laid out like a C struct: the children emitted do not overlap
\* and lie inside it.  (Bit-fields may break this.)
LayoutOK(t) ==
  t.kind = "compound" =>
    \A i \in 1..Len(t.members) : Chosen(t, i) =>
      /\ t.members[i].at + t.members[i].type.size <= t.size
      /\ \A j \in 1..Len(t.members) : t.members[i].at < t.members[j].at =>
           t.members[i].at + t.members[i].type.size <= t.members[j].at

\* The bytes of a type that belong to a scalar, and are not padding.
Live[t \in Types] ==
  IF t.kind \in {"base", "pointer"} THEN 0..(t.size - 1)
  ELSE UNION {{Children(t)[i].at + b : b \in Live[Children(t)[i].type]} : i \in 1..Len(Children(t))}

\* Of the members of a union, in all of a type, the largest have no padding where
\* another has a value.
UnionsCovered[t \in Types] ==
  /\ t.kind = "array" => UnionsCovered[t.elem]
  /\ t.kind = "compound" =>
       LET At(i)   == {j \in 1..Len(t.members) : t.members[j].at = t.members[i].at}
           Type(i) == t.members[i].type
       IN  \A i \in 1..Len(t.members) :
             /\ UnionsCovered[Type(i)]
             /\ (\A j \in At(i) : Type(j).size <= Type(i).size) =>
                  \A j \in At(i) : Live[Type(j)] \subseteq Live[Type(i)]

\* The whole object of label k has been emitted.
Finished(k) == k < Len(output) \/ calls = << >>

\* What is written below a label is the object at its address, byte for byte:
\* every directive lands at the offset of the memory it was made from, padding
\* included, however deep the type.
InPlace ==
  \A k \in 1..Len(output) : \A i \in 1..Len(output[k].image) :
    output[k].image[i].of = syms[k].addr + i - 1

\* The directives of a finished label add up to its .size.
SizeRight ==
  \A k \in 1..Len(output) : Finished(k) => Len(output[k].image) = output[k].size

\* No value is replaced by padding, in types whose unions allow for it.
NothingLost ==
  \A k \in 1..Len(output) : Finished(k) /\ UnionsCovered[syms[k].type] =>
    \A b \in Live[syms[k].type] :
      b + 1 \in 1..Len(output[k].image) /\ output[k].image[b + 1].what # "zero"

\* A pointer is written as 0 if it is null, else as the name of a requested
\* symbol that has the address it points to.
PointersRight ==
  \A k \in 1..Len(output) : \A i \in 1..Len(output[k].image) :
    LET cell == output[k].image[i] IN
    cell.what = "pointer" =>
      LET ptr == getPointerValue(cell.of) IN
      IF ptr = 0 THEN cell.name = NoName
      ELSE \E j \in 1..Len(syms) : syms[j].addr = ptr /\ syms[j].name = cell.name

\* Every name the output refers to is a label of the output.
LinksResolve ==
  pc = "done" =>
    \A k \in 1..Len(output) : \A i \in 1..Len(output[k].image) :
      output[k].image[i].name # NoName =>
        \E j \in 1..Len(output) : output[j].name = output[k].image[i].name
==============================================================================
