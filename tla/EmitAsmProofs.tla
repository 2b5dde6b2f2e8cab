---------------------------- MODULE EmitAsmProofs ----------------------------
(***************************************************************************)
(* Proofs about the emitter.  First its types, then the shape of the call  *)
(* stack with the position of the next directive, from which InPlace and   *)
(* SizeRight follow, the pointers, and last that no value is lost.         *)
(***************************************************************************)
EXTENDS EmitAsm, SequenceTheorems, FiniteSetTheorems, Induction, TLAPS

------------------------------------------------------------------------------
(* Types *)

Child == [type: Types, at: Nat]

\* What is in a symbol of the list.
LEMMA SymsType ==
  ASSUME TypeOK
  PROVE  /\ syms \in Seq(Syms) /\ Len(syms) \in Nat
         /\ \A i \in 1..Len(syms) : /\ syms[i].name \in Names /\ syms[i].type \in Types
                                    /\ syms[i].addr \in Nat \ {0}
<1>1. syms \in Seq(Syms)
  BY EmitAssumption DEF TypeOK
<1>2. \A i \in 1..Len(syms) : syms[i] \in Syms
  BY <1>1
<1> QED
  BY <1>1, <1>2 DEF Syms

\* The call running has a type of the program, and so have those below it.
LEMMA StackType ==
  ASSUME TypeOK, calls # << >>
  PROVE  /\ Len(calls) \in Nat \ {0} /\ Top \in Frame
         /\ Top.type \in Types /\ Top.addr \in Nat /\ Top.end \in Nat /\ Top.todo \in SUBSET Nat
         /\ Below \in Seq(Frame) /\ Len(Below) = Len(calls) - 1
         /\ \A k \in 1..(Len(calls) - 1) : Below[k] = calls[k]
<1>1. calls \in Seq(Frame) /\ Len(calls) \in Nat \ {0}
  BY DEF TypeOK
<1>2. Top \in Frame
  BY <1>1 DEF Top
<1>3. Top.type \in Types /\ Top.addr \in Nat /\ Top.end \in Nat /\ Top.todo \in SUBSET Nat
  BY <1>2 DEF Frame
<1> DEFINE m == Len(calls) - 1
<1>4. m \in Nat /\ \A i \in 1..m : calls[i] \in Frame
  BY <1>1
<1> HIDE DEF m
<1>5. /\ SubSeq(calls, 1, m) \in Seq(Frame)
      /\ Len(SubSeq(calls, 1, m)) = IF 1 <= m THEN m - 1 + 1 ELSE 0
      /\ \A i \in 1..(m - 1 + 1) : SubSeq(calls, 1, m)[i] = calls[1 + i - 1]
  BY <1>4, SubSeqProperties
<1>6. Len(SubSeq(calls, 1, m)) = m /\ \A i \in 1..m : SubSeq(calls, 1, m)[i] = calls[i]
  BY <1>4, <1>5
<1> QED
  BY <1>1, <1>2, <1>3, <1>5, <1>6 DEF Below, m

\* A run of cells: its length, and what each of its cells is.
LEMMA RunFacts ==
  ASSUME NEW what \in {"byte", "zero"}, NEW from \in Nat, NEW n \in Int
  PROVE  /\ Run(what, NoName, from, n) \in Seq(Cell)
         /\ n >= 0 => Len(Run(what, NoName, from, n)) = n
         /\ \A k \in 1..n : /\ Run(what, NoName, from, n)[k].of = from + k - 1
                            /\ Run(what, NoName, from, n)[k].name = NoName
                            /\ Run(what, NoName, from, n)[k].what = what
<1>1. \A k \in 1..n : [what |-> what, name |-> NoName, of |-> from + k - 1] \in Cell
  BY DEF Cell
<1>2. CASE n >= 0
  BY <1>1, <1>2 DEF Run
<1>3. CASE n < 0
  <2>1. 1..n = {}
    BY <1>3
  <2>2. Run(what, NoName, from, n) = << >>
    BY <2>1 DEF Run
  <2> QED
    BY <1>3, <2>1, <2>2
<1> QED
  BY <1>2, <1>3

\* Padding is a run of cells, empty if its count is negative.
LEMMA PaddingType ==
  ASSUME Top.addr \in Nat, Top.end \in Nat, NEW offset \in Nat
  PROVE  PaddingTo(offset) \in Seq(Cell)
<1> DEFINE from == Top.addr + Top.end
           n    == offset - Top.end
<1>1. from \in Nat /\ n \in Int
  OBVIOUS
<1> HIDE DEF from, n
<1>2. Run("zero", NoName, from, n) \in Seq(Cell)
  BY <1>1, RunFacts
<1> QED
  BY <1>2 DEF PaddingTo, Zero, from, n

\* A pointer takes as many cells as an address has bytes, of which the first names its target.
LEMMA PointerFacts ==
  ASSUME NEW name \in Names \cup {NoName}, NEW from \in Nat
  PROVE  /\ Pointer(name, from) \in Seq(Cell)
         /\ Len(Pointer(name, from)) = AddrSize
         /\ \A k \in 1..AddrSize : /\ Pointer(name, from)[k].of = from + k - 1
                                   /\ Pointer(name, from)[k].name = name
                                   /\ Pointer(name, from)[k].what = IF k = 1 THEN "pointer" ELSE "rest"
<1>1. AddrSize \in Nat
  BY EmitAssumption
<1>2. \A k \in 1..AddrSize :
        [what |-> IF k = 1 THEN "pointer" ELSE "rest", name |-> name, of |-> from + k - 1] \in Cell
  BY <1>1 DEF Cell
<1> QED
  BY <1>1, <1>2 DEF Pointer

\* findLargestType finds a directive for at most the bytes left.
LEMMA LargestDirectiveFits ==
  ASSUME NEW n \in Nat \ {0}
  PROVE  LargestDirective(n) \in 1..n
<1> DEFINE P(s) == /\ s <= n /\ s <= AddrSize
                   /\ \A r \in {1, 2, 4, 8} : r <= n /\ r <= AddrSize => r <= s
<1>1. \E s \in {1, 2, 4, 8} : P(s)
  <2>1. AddrSize \in {4, 8}
    BY EmitAssumption
  <2>2. CASE n >= 8 /\ AddrSize = 8
    <3>1. P(8)
      BY <2>2
    <3> QED
      BY <3>1
  <2>3. CASE n >= 4 /\ (n < 8 \/ AddrSize = 4)
    <3>1. P(4)
      BY <2>1, <2>3
    <3> QED
      BY <3>1
  <2>4. CASE n < 4 /\ n >= 2
    <3>1. P(2)
      BY <2>1, <2>4
    <3> QED
      BY <3>1
  <2>5. CASE n = 1
    <3>1. P(1)
      BY <2>1, <2>5
    <3> QED
      BY <3>1
  <2> QED
    BY <2>1, <2>2, <2>3, <2>4, <2>5
<1>2. LargestDirective(n) = CHOOSE s \in {1, 2, 4, 8} : P(s)
  BY DEF LargestDirective
<1> HIDE DEF P
<1>3. LargestDirective(n) \in {1, 2, 4, 8} /\ P(LargestDirective(n))
  BY <1>1, <1>2
<1> QED
  BY <1>3 DEF P

\* The size of an array is a number.
LEMMA ProductOfNats == ASSUME NEW a \in Nat, NEW b \in Nat PROVE a * b \in Nat
  OBVIOUS

\* The children of a type are types at offsets.
LEMMA ChildrenType ==
  ASSUME NEW t \in Types, t.kind \in {"array", "compound"}
  PROVE  /\ Children(t) \in Seq(Child) /\ Len(Children(t)) \in Nat
         /\ \A i \in 1..Len(Children(t)) : Children(t)[i].type \in Types /\ Children(t)[i].at \in Nat
         /\ Offsets(t) \in SUBSET Nat
<1>1. Children(t) \in Seq(Child)
  <2>1. CASE t.kind = "compound"
    BY <2>1, TypesAssumption DEF Children, Child
  <2>2. CASE t.kind = "array"
    <3>1. t.elem \in Types /\ t.num \in Nat /\ t.elem.size \in Nat
      BY <2>2, TypesAssumption
    <3> DEFINE m == IF t.elem.size = 0 THEN 0 ELSE t.num
    <3>2. m \in Nat
      BY <3>1
    <3>3. \A i \in 1..m : (i - 1) * t.elem.size \in Nat
      BY <3>1, <3>2, ProductOfNats
    <3>4. \A i \in 1..m : [type |-> t.elem, at |-> (i - 1) * t.elem.size] \in Child
      BY <3>1, <3>3 DEF Child
    <3>5. Children(t) = [i \in 1..m |-> [type |-> t.elem, at |-> (i - 1) * t.elem.size]]
      BY <2>2 DEF Children
    <3> HIDE DEF m
    <3> QED
      BY <3>2, <3>4, <3>5
  <2> QED
    BY <2>1, <2>2
<1>2. \A i \in 1..Len(Children(t)) : Children(t)[i] \in Child
  BY <1>1
<1>3. \A i \in 1..Len(Children(t)) : Children(t)[i].type \in Types /\ Children(t)[i].at \in Nat
  BY <1>2 DEF Child
<1> QED
  BY <1>1, <1>3 DEF Offsets

\* Directives go to the end of the last label.
LEMMA EmitEffect ==
  ASSUME TypeOK, calls # << >>, NEW cells \in Seq(Cell), Emit(cells)
  PROVE  /\ output' \in Seq(Labelled)
         /\ Len(output) \in Nat \ {0} /\ Len(output') = Len(output)
         /\ \A k \in 1..Len(output) : /\ output'[k].name = output[k].name
                                      /\ output'[k].size = output[k].size
                                      /\ k # Len(output) => output'[k] = output[k]
         /\ output'[Len(output)].image = output[Len(output)].image \o cells
         /\ output[Len(output)].image \in Seq(Cell)
<1> DEFINE L == Len(output)
           x == [output[L] EXCEPT !.image = @ \o cells]
<1>1. output \in Seq(Labelled) /\ L \in Nat \ {0} /\ L \in 1..L
  BY DEF TypeOK
<1>2. output[L] \in Labelled
  BY <1>1
<1>3. output[L].image \in Seq(Cell) /\ output[L].image \o cells \in Seq(Cell)
  BY <1>2 DEF Labelled
<1>4. /\ x \in Labelled /\ x.image = output[L].image \o cells
      /\ x.name = output[L].name /\ x.size = output[L].size
  <2> DEFINE y == output[L].image \o cells
  <2>1. y \in Seq(Cell)
    BY <1>3
  <2> HIDE DEF y
  <2>2. [output[L] EXCEPT !.image = y] \in Labelled
    BY <1>2, <2>1 DEF Labelled
  <2>3. /\ [output[L] EXCEPT !.image = y].image = y
        /\ [output[L] EXCEPT !.image = y].name = output[L].name
        /\ [output[L] EXCEPT !.image = y].size = output[L].size
    BY <1>2 DEF Labelled
  <2> QED
    BY <2>2, <2>3 DEF y
<1>5. output' = [output EXCEPT ![L] = x]
  BY DEF Emit
<1> HIDE DEF x
<1> QED
  BY <1>1, <1>3, <1>4, <1>5

\* A call pushed is a frame.
LEMMA CallType ==
  ASSUME NEW fn \in {"emitObject", "emitTypeWithChildren"}, NEW type \in Types, NEW addr \in Nat,
         NEW todo \in SUBSET Nat
  PROVE  /\ Call(fn, type, addr, todo) \in Frame
         /\ Call(fn, type, addr, todo).fn = fn /\ Call(fn, type, addr, todo).type = type
         /\ Call(fn, type, addr, todo).addr = addr /\ Call(fn, type, addr, todo).end = 0
         /\ Call(fn, type, addr, todo).todo = todo
  BY DEF Call, Frame

\* The first state has the types.
LEMMA TypeInit == Init => TypeOK
<1> SUFFICES ASSUME Init PROVE TypeOK
  OBVIOUS
<1>1. Len(syms) \in Nat
  <2>1. syms \in Seq(Syms)
    BY EmitAssumption DEF Init
  <2> QED
    BY <2>1
<1> QED
  BY <1>1 DEF Init, TypeOK, Ended

\* The steps of emitAsm itself, which write no directives.
LEMMA TypeLoops ==
  ASSUME TypeOK, RegisterSym \/ EmitFilePrologue \/ EmitOneSym \/ EmitFileEpilogue
                 \/ UnresolvedPointer \/ Returned \/ UNCHANGED vars
  PROVE  TypeOK'
<1>1. CASE RegisterSym
  BY <1>1, SymsType DEF RegisterSym, TypeOK, Ended
<1>2. CASE EmitFilePrologue
  BY <1>2, SymsType DEF EmitFilePrologue, TypeOK, Ended
<1>3. CASE EmitOneSym
  <2> DEFINE sym == syms[next]
             new == [name |-> sym.name, align |-> findAlignment(sym), image |-> << >>,
                     size |-> IF sym.type.kind = "pointer" THEN AddrSize ELSE sym.type.size]
  <2>1. next \in 1..Len(syms) /\ Len(syms) \in Nat /\ next' = next + 1
    BY <1>3, SymsType DEF EmitOneSym, TypeOK
  <2>2. sym.name \in Names /\ sym.type \in Types /\ sym.addr \in Nat /\ sym.type.size \in Nat
    BY <2>1, SymsType, TypesAssumption
  <2>3. new \in Labelled
    BY <2>2, EmitAssumption DEF Labelled, findAlignment
  <2>4. Call("emitObject", sym.type, sym.addr, {}) \in Frame
    BY <2>2, CallType
  <2>5. output' = Append(output, new) /\ calls' = <<Call("emitObject", sym.type, sym.addr, {})>>
    BY <1>3 DEF EmitOneSym
  <2> HIDE DEF sym, new
  <2>6. output' \in Seq(Labelled) /\ output' # << >>
    BY <2>3, <2>5, AppendProperties DEF TypeOK
  <2>7. calls' \in Seq(Frame)
    BY <2>4, <2>5
  <2> QED
    BY <1>3, <2>1, <2>6, <2>7 DEF EmitOneSym, TypeOK
<1>4. CASE EmitFileEpilogue
  BY <1>4 DEF EmitFileEpilogue, TypeOK, Ended
<1>5. CASE UnresolvedPointer
  BY <1>5 DEF UnresolvedPointer, TypeOK, Ended
<1>6. CASE Returned \/ UNCHANGED vars
  BY <1>6 DEF Returned, vars, TypeOK
<1> QED
  BY <1>1, <1>2, <1>3, <1>4, <1>5, <1>6

\* What a step of the walk does to the output and the stack, by action.
WalkStep == EmitPointerType \/ EmitChunk \/ EndIntegralType \/ EmitTypeWithChildren \/ EmitChild \/ EndChildren

\* The walk over a type keeps the types.
LEMMA TypeWalk ==
  ASSUME TypeOK, WalkStep
  PROVE  TypeOK'
<1>0. calls # << >> /\ pc = "emitAsm" /\ UNCHANGED <<syms, memory, pc, next, symbolizedAddrs>>
  BY DEF WalkStep, EmitPointerType, EmitChunk, EndIntegralType, EmitTypeWithChildren, EmitChild,
         EndChildren, Running
<1>1. /\ Len(calls) \in Nat \ {0} /\ Len(calls) \in 1..Len(calls) /\ calls \in Seq(Frame)
      /\ Top = calls[Len(calls)] /\ Top \in Frame
      /\ Top.type \in Types /\ Top.addr \in Nat /\ Top.end \in Nat /\ Top.todo \in SUBSET Nat
      /\ Top.type.size \in Nat
      /\ Below \in Seq(Frame)
  BY <1>0, StackType, TypesAssumption DEF TypeOK, Top
<1>2. ASSUME calls' \in Seq(Frame),
             output' = output \/ (\E cells \in Seq(Cell) : Emit(cells))
      PROVE  TypeOK'
  <2>1. output' \in Seq(Labelled) /\ output' # << >>
    <3>1. CASE output' = output
      BY <3>1, <1>0 DEF TypeOK
    <3>2. CASE \E cells \in Seq(Cell) : Emit(cells)
      <4>1. output' \in Seq(Labelled) /\ Len(output') \in Nat \ {0}
        BY <3>2, <1>0, EmitEffect
      <4> QED
        BY <4>1
    <3> QED
      BY <1>2, <3>1, <3>2
  <2> QED
    BY <1>0, <1>2, <2>1 DEF TypeOK
<1>3. CASE EmitPointerType
  <2> DEFINE ptr == getPointerValue(Top.addr)
             name == IF ptr = 0 THEN NoName ELSE symbolizedAddrs[ptr]
  <2>1. Emit(Pointer(name, Top.addr)) /\ calls' = Below /\ ~ Unresolved(ptr)
    BY <1>3 DEF EmitPointerType
  <2>2. name \in Names \cup {NoName}
    BY <2>1 DEF Unresolved, TypeOK
  <2> HIDE DEF name
  <2>3. Pointer(name, Top.addr) \in Seq(Cell)
    BY <2>2, <1>1, PointerFacts
  <2> QED
    BY <2>1, <2>3, <1>1, <1>2
<1>4. CASE EmitChunk
  <2> DEFINE size == LargestDirective(Top.type.size - Top.end)
  <2>1. Top.type.size - Top.end \in Nat \ {0}
    BY <1>4, <1>1 DEF EmitChunk
  <2>2. size \in Nat
    BY <2>1, LargestDirectiveFits
  <2>3. Emit(Byte(Top.addr + Top.end, size)) /\ calls' = [calls EXCEPT ![Len(calls)].end = @ + size]
    BY <1>4 DEF EmitChunk
  <2> HIDE DEF size
  <2>4. Byte(Top.addr + Top.end, size) \in Seq(Cell)
    <3>1. Top.addr + Top.end \in Nat /\ size \in Int
      BY <2>2, <1>1
    <3> QED
      BY <3>1, RunFacts DEF Byte
  <2>5. [Top EXCEPT !.end = Top.end + size] \in Frame
    <3>1. Top.end + size \in Nat
      BY <2>2, <1>1
    <3> QED
      BY <3>1, <1>1 DEF Frame
  <2>6. calls' = [calls EXCEPT ![Len(calls)] = [Top EXCEPT !.end = Top.end + size]]
    BY <2>3 DEF Top
  <2>7. calls' \in Seq(Frame)
    BY <2>5, <2>6, <1>1
  <2> QED
    BY <2>3, <2>4, <2>7, <1>2
<1>5. CASE EndIntegralType
  BY <1>5, <1>1, <1>2 DEF EndIntegralType
<1>6. CASE EmitTypeWithChildren
  <2>1. Offsets(Top.type) \in SUBSET Nat
    BY <1>6, <1>1, ChildrenType DEF EmitTypeWithChildren, Running
  <2>2. Call("emitTypeWithChildren", Top.type, Top.addr, Offsets(Top.type)) \in Frame
    BY <2>1, <1>1, CallType
  <2>3. calls' \in Seq(Frame)
    BY <2>2, <1>6, <1>1 DEF EmitTypeWithChildren
  <2> QED
    BY <2>3, <1>6, <1>2 DEF EmitTypeWithChildren
<1>7. CASE EmitChild
  <2>1. PICK i \in 1..Len(Children(Top.type)) :
          LET child == Children(Top.type)[i] IN
          /\ Emit(PaddingTo(child.at))
          /\ calls' = Append([calls EXCEPT ![Len(calls)].todo = @ \ {child.at},
                                           ![Len(calls)].end = child.at + child.type.size],
                             Call("emitObject", child.type, Top.addr + child.at, {}))
    BY <1>7 DEF EmitChild
  <2> DEFINE child == Children(Top.type)[i]
             top == [Top EXCEPT !.todo = Top.todo \ {child.at}, !.end = child.at + child.type.size]
             new == Call("emitObject", child.type, Top.addr + child.at, {})
  <2>2. child.type \in Types /\ child.at \in Nat /\ child.type.size \in Nat
    BY <1>7, <1>1, ChildrenType, TypesAssumption DEF EmitChild, Running
  <2>3. calls' = Append([calls EXCEPT ![Len(calls)] = top], new)
    BY <2>1 DEF Top
  <2>4. top \in Frame
    <3>1. Top.todo \ {child.at} \in SUBSET Nat /\ child.at + child.type.size \in Nat
      BY <2>2, <1>1, SMTT(30)
    <3> QED
      BY <3>1, <1>1 DEF Frame
  <2>5. new \in Frame
    BY <2>2, <1>1, CallType
  <2>6. PaddingTo(child.at) \in Seq(Cell)
    BY <2>2, <1>1, PaddingType
  <2>7. Emit(PaddingTo(child.at))
    BY <2>1
  <2> HIDE DEF top, new, child
  <2>8. calls' \in Seq(Frame)
    BY <2>3, <2>4, <2>5, <1>1
  <2> QED
    BY <2>6, <2>7, <2>8, <1>2
<1>8. CASE EndChildren
  <2>1. PaddingTo(Top.type.size) \in Seq(Cell)
    BY <1>1, PaddingType
  <2> QED
    BY <2>1, <1>8, <1>1, <1>2 DEF EndChildren
<1> QED
  BY <1>3, <1>4, <1>5, <1>6, <1>7, <1>8 DEF WalkStep

\* Every step keeps the types.
LEMMA TypeStep == TypeOK /\ [Next]_vars => TypeOK'
  BY TypeLoops, TypeWalk DEF Next, WalkStep

\* The emitter's variables keep their types.
THEOREM TypeCorrect == Spec => []TypeOK
  BY TypeInit, TypeStep, PTL DEF Spec

------------------------------------------------------------------------------
(* The position of the next directive *)

\* The types are laid out without overlap, for the only size Type.h gives pointers.
Laid == AddrSize = 8 /\ \A t \in Types : LayoutOK(t)

\* Children at later offsets start after the child emitted, which lies inside the object.
LEMMA LayoutFacts ==
  ASSUME NEW t \in Types, t.kind \in {"array", "compound"}, LayoutOK(t),
         NEW i \in 1..Len(Children(t)), Chosen(t, i)
  PROVE  LET c == Children(t) IN
         /\ c[i].at + c[i].type.size <= t.size
         /\ \A j \in 1..Len(c) : c[i].at < c[j].at => c[i].at + c[i].type.size <= c[j].at
<1>1. CASE t.kind = "compound"
  BY <1>1 DEF LayoutOK, Children
<1>2. CASE t.kind = "array"
  <2> DEFINE s == t.elem.size
             n == Len(Children(t))
  <2>1. t.num \in Nat /\ s \in Nat /\ t.elem \in Types /\ t.size = t.num * s
    BY <1>2, TypesAssumption
  <2>2. /\ n \in Nat /\ n <= t.num
        /\ \A j \in 1..n : Children(t)[j].type = t.elem /\ Children(t)[j].at = (j - 1) * s
    <3> DEFINE m == IF t.elem.size = 0 THEN 0 ELSE t.num
    <3>1. m \in Nat /\ m <= t.num
      BY <2>1
    <3>2. Children(t) = [j \in 1..m |-> [type |-> t.elem, at |-> (j - 1) * t.elem.size]]
      BY <1>2 DEF Children
    <3> HIDE DEF m
    <3> QED
      BY <3>1, <3>2
  <2> HIDE DEF s, n
  <2>3. \A a, b \in Nat : a <= b => a * s <= b * s
    BY <2>1
  <2>4. (i - 1) * s + s = i * s
    BY <2>1, <2>2 DEF n
  <2>5. i * s <= t.size
    BY <2>1, <2>2, <2>3 DEF n
  <2>6. ASSUME NEW j \in 1..n, (i - 1) * s < (j - 1) * s PROVE i * s <= (j - 1) * s
    <3>1. i \in Nat /\ i - 1 \in Nat /\ j - 1 \in Nat
      BY <2>2 DEF n
    <3>2. ~ (j - 1 <= i - 1)
      <4>1. j - 1 <= i - 1 => (j - 1) * s <= (i - 1) * s
        BY <2>3, <3>1
      <4>2. (j - 1) * s \in Nat /\ (i - 1) * s \in Nat
        BY <2>1, <3>1, ProductOfNats
      <4> QED
        BY <4>1, <4>2, <2>6
    <3>3. i <= j - 1
      BY <3>1, <3>2
    <3> QED
      BY <2>3, <3>1, <3>3
  <2> QED
    BY <2>2, <2>4, <2>5, <2>6 DEF n, s
<1> QED
  BY <1>1, <1>2

FrameOK(f) ==
  /\ f.end <= f.type.size
  /\ f.fn = "emitObject" /\ f.type.kind # "base" => f.end = 0
  /\ f.fn = "emitTypeWithChildren" =>
       /\ f.type.kind \in {"array", "compound"}
       /\ f.todo \subseteq Offsets(f.type)
       /\ \A o \in f.todo : f.end <= o

\* A stack s for the object of symbol sym when the next cell stands for address
\* pos: each call continues where the call above it will end.
Shape(s, sym, pos) ==
  /\ s[1].addr = sym.addr /\ s[1].type = sym.type
  /\ \A k \in 1..(Len(s) - 1) :
       /\ s[k].fn = "emitTypeWithChildren"
       /\ s[k].addr + s[k].end = s[k + 1].addr + s[k + 1].type.size
  /\ pos = s[Len(s)].addr + s[Len(s)].end
  /\ \A k \in 1..Len(s) : FrameOK(s[k])

L == Len(output)

Labels ==
  /\ IF pc = "registerKnownSyms" THEN output = << >> ELSE L = next - 1
  /\ \A k \in 1..L : /\ k \in 1..Len(syms)
                     /\ output[k].name = syms[k].name
                     /\ output[k].size = syms[k].type.size
  /\ pc \in {"registerKnownSyms", "done"} => calls = << >>
  /\ pc = "done" => next = Len(syms) + 1

PlaceInv ==
  /\ Labels /\ InPlace /\ SizeRight
  /\ calls # << >> => Shape(calls, syms[L], syms[L].addr + Len(output[L].image))

\* Cells for the addresses from `from` on.
Contiguous(cells, from) == \A k \in 1..Len(cells) : cells[k].of = from + k - 1

\* Contiguous cells keep InPlace, and move the position by their number.
LEMMA EmitInPlace ==
  ASSUME TypeOK, PlaceInv, calls # << >>, NEW cells \in Seq(Cell), Emit(cells), UNCHANGED syms,
         Contiguous(cells, Top.addr + Top.end)
  PROVE  /\ InPlace'
         /\ L' = L /\ Len(output'[L].image) = Len(output[L].image) + Len(cells)
         /\ Len(output[L].image) \in Nat /\ Len(cells) \in Nat
         /\ \A k \in 1..L : output'[k].name = output[k].name /\ output'[k].size = output[k].size
         /\ \A k \in 1..(L - 1) : Len(output'[k].image) = output[k].size
<1>1. /\ L \in Nat \ {0} /\ L' = L
      /\ \A k \in 1..L : /\ output'[k].name = output[k].name
                         /\ output'[k].size = output[k].size
                         /\ k # L => output'[k] = output[k]
      /\ output'[L].image = output[L].image \o cells
      /\ output[L].image \in Seq(Cell)
  BY EmitEffect DEF L
<1>2. /\ syms[L].addr + Len(output[L].image) = Top.addr + Top.end
      /\ syms[L].addr \in Nat /\ Top.addr \in Nat /\ Top.end \in Nat
  BY <1>1, SymsType, StackType DEF PlaceInv, Labels, Shape, Top
<1>3. /\ Len(output[L].image) \in Nat /\ Len(cells) \in Nat
      /\ Len(output'[L].image) = Len(output[L].image) + Len(cells)
      /\ \A i \in 1..Len(output[L].image) : output'[L].image[i] = output[L].image[i]
      /\ \A i \in 1..Len(cells) : output'[L].image[Len(output[L].image) + i] = cells[i]
  <2> DEFINE old == output[L].image
             new == old \o cells
  <2>1. old \in Seq(Cell) /\ Len(old) \in Nat /\ Len(cells) \in Nat
    BY <1>1
  <2> HIDE DEF old
  <2>2. /\ Len(new) = Len(old) + Len(cells)
        /\ \A i \in 1..Len(old) : new[i] = old[i]
        /\ \A i \in 1..Len(cells) : new[Len(old) + i] = cells[i]
    BY <2>1
  <2> HIDE DEF new
  <2>3. output'[L].image = new
    BY <1>1 DEF new, old
  <2> QED
    BY <2>1, <2>2, <2>3 DEF old
<1>4. ASSUME NEW i \in 1..Len(output'[L].image)
      PROVE  output'[L].image[i].of = syms[L].addr + i - 1
  <2>1. CASE i \in 1..Len(output[L].image)
    BY <2>1, <1>1, <1>3 DEF PlaceInv, InPlace, L
  <2>2. CASE i \notin 1..Len(output[L].image)
    <3> DEFINE j == i - Len(output[L].image)
    <3>1. j \in 1..Len(cells) /\ i = Len(output[L].image) + j
      BY <2>2, <1>3
    <3>2. output'[L].image[i] = cells[j]
      BY <3>1, <1>3
    <3>3. cells[j].of = Top.addr + Top.end + j - 1
      BY <3>1 DEF Contiguous
    <3> HIDE DEF j
    <3>4. Top.addr + Top.end + j - 1 = syms[L].addr + i - 1
      BY <3>1, <1>2, <1>3, SMTT(30)
    <3> QED
      BY <3>2, <3>3, <3>4
  <2> QED
    BY <2>1, <2>2
<1>5. InPlace'
  <2> SUFFICES ASSUME NEW k \in 1..L, NEW i \in 1..Len(output'[k].image)
               PROVE  output'[k].image[i].of = syms[k].addr + i - 1
    BY <1>1 DEF InPlace, L
  <2>1. CASE k = L
    BY <2>1, <1>4
  <2>2. CASE k # L
    BY <2>2, <1>1 DEF PlaceInv, InPlace, L
  <2> QED
    BY <2>1, <2>2
<1>6. \A k \in 1..(L - 1) : Len(output'[k].image) = output[k].size
  BY <1>1 DEF PlaceInv, SizeRight, Finished, L
<1> QED
  BY <1>1, <1>3, <1>5, <1>6

\* What a step of the walk has to show.
LEMMA WalkKeepsPlace ==
  ASSUME TypeOK, PlaceInv, calls # << >>, pc = "emitAsm",
         UNCHANGED <<syms, memory, pc, next, symbolizedAddrs>>,
         InPlace', L' = L,
         \A k \in 1..L : output'[k].name = output[k].name /\ output'[k].size = output[k].size,
         \A k \in 1..(L - 1) : Len(output'[k].image) = output[k].size,
         calls' # << >> => Shape(calls', syms[L], syms[L].addr + Len(output'[L].image)),
         calls' = << >> => Len(output'[L].image) = output[L].size
  PROVE  PlaceInv'
<1>1. L \in Nat \ {0} /\ Len(output') = L
  BY DEF TypeOK, L
<1>2. Labels'
  <2>1. Labels
    BY DEF PlaceInv
  <2> QED
    BY <2>1 DEF Labels
<1>3. SizeRight'
  <2> SUFFICES ASSUME NEW k \in 1..L, k < L \/ calls' = << >>
               PROVE  Len(output'[k].image) = output'[k].size
    BY <1>1 DEF SizeRight, Finished, L
  <2>1. CASE k = L
    BY <2>1, <1>1
  <2>2. CASE k < L
    BY <2>2, <1>1
  <2> QED
    BY <2>1, <2>2, <1>1
<1> QED
  BY <1>1, <1>2, <1>3 DEF PlaceInv

\* A step that writes nothing leaves the labels as they are.
LEMMA NothingEmitted ==
  ASSUME TypeOK, PlaceInv, calls # << >>, UNCHANGED <<syms, output>>
  PROVE  /\ InPlace' /\ L' = L
         /\ \A k \in 1..L : output'[k].name = output[k].name /\ output'[k].size = output[k].size
         /\ \A k \in 1..(L - 1) : Len(output'[k].image) = output[k].size
<1>1. L \in Nat \ {0}
  BY DEF TypeOK, L
<1> QED
  BY <1>1 DEF PlaceInv, InPlace, SizeRight, Finished, L

\* A call returns when the position is the end of its object.
LEMMA ReturnShape ==
  ASSUME TypeOK, PlaceInv, calls # << >>
  PROVE  LET pos == Top.addr + Top.type.size IN
         /\ Below # << >> => Shape(Below, syms[L], pos)
         /\ Below = << >> => pos = syms[L].addr + output[L].size
<1> DEFINE m == Len(calls)
           pos == Top.addr + Top.type.size
<1>1. /\ m \in Nat \ {0} /\ Top = calls[m] /\ Len(Below) = m - 1 /\ Below \in Seq(Frame)
      /\ \A k \in 1..(m - 1) : Below[k] = calls[k]
  BY StackType DEF Top
<1>2. Shape(calls, syms[L], syms[L].addr + Len(output[L].image))
  BY DEF PlaceInv
<1> HIDE DEF m
<1>3. ASSUME Below # << >> PROVE Shape(Below, syms[L], pos)
  <2>1. m - 1 \in 1..(m - 1)
    BY <1>1, <1>3
  <2>2. \A k \in 1..((m - 1) - 1) : Below[k] = calls[k] /\ Below[k + 1] = calls[k + 1]
                                    /\ k \in 1..(m - 1)
    BY <1>1
  <2>3. pos = Below[m - 1].addr + Below[m - 1].end
    <3>1. calls[m - 1].addr + calls[m - 1].end = calls[(m - 1) + 1].addr + calls[(m - 1) + 1].type.size
      BY <2>1, <1>2 DEF Shape, m
    <3>2. (m - 1) + 1 = m
      BY <1>1
    <3> QED
      BY <3>1, <3>2, <2>1, <1>1
  <2>4. \A k \in 1..((m - 1) - 1) :
          /\ Below[k].fn = "emitTypeWithChildren"
          /\ Below[k].addr + Below[k].end = Below[k + 1].addr + Below[k + 1].type.size
    BY <2>2, <1>2 DEF Shape, m
  <2>5. \A k \in 1..(m - 1) : FrameOK(Below[k])
    BY <1>1, <1>2 DEF Shape, m
  <2>6. Below[1].addr = syms[L].addr /\ Below[1].type = syms[L].type
    BY <2>1, <1>1, <1>2 DEF Shape
  <2> QED
    BY <1>1, <2>3, <2>4, <2>5, <2>6 DEF Shape
<1>4. ASSUME Below = << >> PROVE pos = syms[L].addr + output[L].size
  <2>1. m = 1
    BY <1>1, <1>4
  <2>2. L \in 1..L
    BY DEF TypeOK, L
  <2>3. output[L].size = syms[L].type.size
    BY <2>2 DEF PlaceInv, Labels
  <2> QED
    BY <2>1, <2>3, <1>1, <1>2 DEF Shape
<1> QED
  BY <1>3, <1>4

\* The same for a step that emits the rest of the object and returns.
LEMMA EmitAndReturn ==
  ASSUME TypeOK, PlaceInv, calls # << >>, pc = "emitAsm",
         UNCHANGED <<syms, memory, pc, next, symbolizedAddrs>>, calls' = Below,
         NEW cells \in Seq(Cell), Emit(cells),
         Contiguous(cells, Top.addr + Top.end),
         Top.end + Len(cells) = Top.type.size
  PROVE  PlaceInv'
<1>1. /\ InPlace'
      /\ L' = L /\ Len(output'[L].image) = Len(output[L].image) + Len(cells)
      /\ Len(output[L].image) \in Nat /\ Len(cells) \in Nat
      /\ \A k \in 1..L : output'[k].name = output[k].name /\ output'[k].size = output[k].size
      /\ \A k \in 1..(L - 1) : Len(output'[k].image) = output[k].size
  BY EmitInPlace
<1>2. /\ syms[L].addr + Len(output[L].image) = Top.addr + Top.end
      /\ L \in 1..L
  BY DEF PlaceInv, Shape, Top, TypeOK, L
<1>3. syms[L].addr \in Nat /\ Top.addr \in Nat /\ Top.end \in Nat
      /\ Top.type.size \in Nat /\ output[L].size \in Nat
  <2>1. output[L].size \in Nat
    <3>1. output[L] \in Labelled
      BY <1>2 DEF TypeOK, L
    <3> QED
      BY <3>1 DEF Labelled
  <2> QED
    BY <1>2, <2>1, StackType, SymsType, TypesAssumption DEF PlaceInv, Labels
<1>4. syms[L].addr + Len(output'[L].image) = Top.addr + Top.type.size
      /\ Len(output'[L].image) \in Nat
  <2> DEFINE a == syms[L].addr
             n == Len(output[L].image)
             c == Len(cells)
             b == Top.addr
             e == Top.end
             t == Top.type.size
  <2>1. /\ a + n = b + e /\ e + c = t
        /\ a \in Nat /\ n \in Nat /\ c \in Nat /\ b \in Nat /\ e \in Nat /\ t \in Nat
        /\ Len(output'[L].image) = n + c
    BY <1>1, <1>2, <1>3
  <2> HIDE DEF a, n, c, b, e, t
  <2>2. a + (n + c) = b + t /\ n + c \in Nat
    BY <2>1
  <2> QED
    BY <2>1, <2>2 DEF a, b, t
<1>5. /\ Below # << >> => Shape(Below, syms[L], syms[L].addr + Len(output'[L].image))
      /\ Below = << >> => Len(output'[L].image) = output[L].size
  <2>1. Below # << >> => Shape(Below, syms[L], Top.addr + Top.type.size)
    BY ReturnShape
  <2>2. Below = << >> => Top.addr + Top.type.size = syms[L].addr + output[L].size
    BY ReturnShape
  <2>3. Below = << >> => syms[L].addr + Len(output'[L].image) = syms[L].addr + output[L].size
    BY <2>2, <1>4
  <2> DEFINE a == syms[L].addr
             n == Len(output'[L].image)
             z == output[L].size
  <2>4. a \in Nat /\ n \in Nat /\ z \in Nat /\ (Below = << >> => a + n = a + z)
    BY <2>3, <1>3, <1>4
  <2> HIDE DEF a, n, z
  <2>5. Below = << >> => n = z
    BY <2>4
  <2> QED
    BY <2>1, <2>5, <1>4 DEF n, z
<1> QED
  BY <1>1, <1>5, WalkKeepsPlace

\* A run of cells stands for consecutive addresses.
LEMMA ContiguousRun ==
  ASSUME NEW what \in {"byte", "zero"}, NEW from \in Nat, NEW n \in Nat
  PROVE  /\ Run(what, NoName, from, n) \in Seq(Cell)
         /\ Len(Run(what, NoName, from, n)) = n
         /\ Contiguous(Run(what, NoName, from, n), from)
<1>1. n \in Int /\ n >= 0
  OBVIOUS
<1>2. /\ Run(what, NoName, from, n) \in Seq(Cell)
      /\ Len(Run(what, NoName, from, n)) = n
  BY <1>1, RunFacts
<1>3. \A k \in 1..n : Run(what, NoName, from, n)[k].of = from + k - 1
  BY DEF Run
<1> QED
  BY <1>2, <1>3 DEF Contiguous

\* The padding before an offset not yet reached.
LEMMA PaddingFacts ==
  ASSUME Top.addr \in Nat, Top.end \in Nat, NEW offset \in Nat, Top.end <= offset
  PROVE  /\ PaddingTo(offset) \in Seq(Cell)
         /\ Top.end + Len(PaddingTo(offset)) = offset
         /\ Contiguous(PaddingTo(offset), Top.addr + Top.end)
<1> DEFINE b == Top.addr
           e == Top.end
           from == b + e
           n    == offset - e
<1>1. from \in Nat /\ n \in Nat /\ e + n = offset
  <2>1. b \in Nat /\ e \in Nat /\ e <= offset
    OBVIOUS
  <2> HIDE DEF b, e
  <2> QED
    BY <2>1
<1>2. PaddingTo(offset) = Run("zero", NoName, from, n)
  BY DEF PaddingTo, Zero
<1> HIDE DEF from, n
<1>3. /\ Run("zero", NoName, from, n) \in Seq(Cell)
      /\ Len(Run("zero", NoName, from, n)) = n
      /\ Contiguous(Run("zero", NoName, from, n), from)
  BY <1>1, ContiguousRun
<1> QED
  BY <1>1, <1>2, <1>3 DEF from

\* What the shape of the stack says of the call running: the next directive
\* written stands for the address the call has come to.
LEMMA TopOK ==
  ASSUME TypeOK, PlaceInv, calls # << >>
  PROVE  /\ FrameOK(Top) /\ Top.type.size \in Nat
         /\ Shape(calls, syms[L], syms[L].addr + Len(output[L].image))
         /\ L \in 1..L
         /\ syms[L].addr \in Nat
         /\ Len(output[L].image) \in Nat
         /\ syms[L].addr + Len(output[L].image) = Top.addr + Top.end
<1>1. Shape(calls, syms[L], syms[L].addr + Len(output[L].image))
  BY DEF PlaceInv
<1>2. Len(calls) \in 1..Len(calls) /\ L \in 1..L
  BY DEF TypeOK, L
<1>3. FrameOK(Top) /\ syms[L].addr + Len(output[L].image) = Top.addr + Top.end
  BY <1>1, <1>2 DEF Shape, Top
<1>4. output[L] \in Labelled
  BY <1>2 DEF TypeOK, L
<1>5. Len(output[L].image) \in Nat
  BY <1>4 DEF Labelled
<1>6. syms[L].addr \in Nat
  BY <1>2, SymsType DEF PlaceInv, Labels
<1> QED
  BY <1>1, <1>2, <1>3, <1>5, <1>6, StackType, TypesAssumption

\* Replacing the innermost call by one for the same object keeps the shape.
LEMMA ReplaceTop ==
  ASSUME NEW s \in Seq(Frame), s # << >>, NEW sym, NEW pos, Shape(s, sym, pos),
         NEW f \in Frame, FrameOK(f), f.addr = s[Len(s)].addr, f.type = s[Len(s)].type,
         NEW new, new = f.addr + f.end
  PROVE  Shape([s EXCEPT ![Len(s)] = f], sym, new)
<1> DEFINE m == Len(s)
           t == [s EXCEPT ![m] = f]
<1>1. m \in Nat \ {0}
  OBVIOUS
<1>2. Len(t) = m /\ t[m] = f /\ \A k \in 1..(m - 1) : t[k] = s[k]
  BY <1>1
<1>0. f.addr = s[m].addr /\ f.type = s[m].type
  OBVIOUS
<1> HIDE DEF m, t
<1>3. \A k \in 1..m : t[k].addr = s[k].addr /\ t[k].type = s[k].type
  <2>1. \A k \in 1..m : k = m \/ k \in 1..(m - 1)
    BY <1>1
  <2> QED
    BY <2>1, <1>0, <1>2
<1>4. 1 \in 1..m /\ \A k \in 1..(m - 1) : k \in 1..m /\ k + 1 \in 1..m
  BY <1>1
<1>5. t[1].addr = sym.addr /\ t[1].type = sym.type
  BY <1>3, <1>4 DEF Shape
<1>6. \A k \in 1..(m - 1) : t[k].fn = "emitTypeWithChildren"
                          /\ t[k].addr + t[k].end = t[k + 1].addr + t[k + 1].type.size
  BY <1>2, <1>3, <1>4 DEF Shape, m
<1>7. \A k \in 1..m : FrameOK(t[k])
  BY <1>1, <1>2, <1>4 DEF Shape, m
<1> QED
  BY <1>2, <1>5, <1>6, <1>7 DEF Shape, m, t

\* The walk over a type keeps the shape of the stack and the place of the next directive.
LEMMA PlaceWalk ==
  ASSUME Laid, TypeOK, PlaceInv, WalkStep
  PROVE  PlaceInv'
<1>0. calls # << >> /\ pc = "emitAsm" /\ UNCHANGED <<syms, memory, pc, next, symbolizedAddrs>>
  BY DEF WalkStep, EmitPointerType, EmitChunk, EndIntegralType, EmitTypeWithChildren, EmitChild,
         EndChildren, Running
<1>1. /\ Len(calls) \in Nat \ {0} /\ calls \in Seq(Frame) /\ Top = calls[Len(calls)] /\ Top \in Frame
      /\ Top.type \in Types /\ Top.addr \in Nat /\ Top.end \in Nat /\ Top.todo \in SUBSET Nat
      /\ Top.type.size \in Nat
  BY <1>0, StackType, TypesAssumption DEF TypeOK, Top
<1>2. /\ FrameOK(Top) /\ L \in 1..L
      /\ Shape(calls, syms[L], syms[L].addr + Len(output[L].image))
      /\ syms[L].addr \in Nat /\ Len(output[L].image) \in Nat
      /\ syms[L].addr + Len(output[L].image) = Top.addr + Top.end
  BY <1>0, TopOK
\* A step that replaces the innermost call by f, and emits what f.end has moved over.
<1>3. ASSUME NEW f \in Frame, FrameOK(f), f.addr = Top.addr, f.type = Top.type,
             calls' = [calls EXCEPT ![Len(calls)] = f],
             \/ output' = output /\ f.end = Top.end
             \/ \E cells \in Seq(Cell) : /\ Emit(cells) /\ Contiguous(cells, Top.addr + Top.end)
                                         /\ f.end = Top.end + Len(cells)
      PROVE  PlaceInv'
  <2>1. /\ InPlace' /\ L' = L
        /\ \A k \in 1..L : output'[k].name = output[k].name /\ output'[k].size = output[k].size
        /\ \A k \in 1..(L - 1) : Len(output'[k].image) = output[k].size
        /\ syms[L].addr + Len(output'[L].image) = f.addr + f.end
    <3>1. CASE output' = output /\ f.end = Top.end
      BY <3>1, <1>0, <1>2, <1>3, NothingEmitted
    <3>2. CASE \E cells \in Seq(Cell) : /\ Emit(cells) /\ Contiguous(cells, Top.addr + Top.end)
                                        /\ f.end = Top.end + Len(cells)
      <4>1. PICK cells \in Seq(Cell) : /\ Emit(cells) /\ Contiguous(cells, Top.addr + Top.end)
                                       /\ f.end = Top.end + Len(cells)
        BY <3>2
      <4>2. /\ InPlace' /\ L' = L
            /\ Len(output'[L].image) = Len(output[L].image) + Len(cells) /\ Len(cells) \in Nat
            /\ \A k \in 1..L : output'[k].name = output[k].name /\ output'[k].size = output[k].size
            /\ \A k \in 1..(L - 1) : Len(output'[k].image) = output[k].size
        BY <4>1, <1>0, EmitInPlace
      <4> DEFINE a == syms[L].addr
                 n == Len(output[L].image)
                 c == Len(cells)
                 b == Top.addr
                 e == Top.end
      <4>3. /\ a + n = b + e
            /\ a \in Nat /\ n \in Nat /\ c \in Nat /\ b \in Nat /\ e \in Nat
            /\ Len(output'[L].image) = n + c
            /\ f.addr + f.end = b + (e + c)
        BY <4>1, <4>2, <1>1, <1>2, <1>3
      <4> HIDE DEF a, n, c, b, e
      <4>4. a + (n + c) = b + (e + c)
        BY <4>3
      <4>5. syms[L].addr + Len(output'[L].image) = f.addr + f.end
        BY <4>3, <4>4 DEF a
      <4> QED
        BY <4>2, <4>5
    <3> QED
      BY <1>3, <3>1, <3>2
  <2>2. Shape(calls', syms[L], syms[L].addr + Len(output'[L].image))
    <3> DEFINE pos == syms[L].addr + Len(output'[L].image)
               old == syms[L].addr + Len(output[L].image)
    <3>1. pos = f.addr + f.end /\ Shape(calls, syms[L], old)
      BY <2>1, <1>2
    <3>2. f.addr = calls[Len(calls)].addr /\ f.type = calls[Len(calls)].type
      BY <1>1, <1>3
    <3> HIDE DEF pos, old
    <3>3. Shape([calls EXCEPT ![Len(calls)] = f], syms[L], pos)
      BY <3>1, <3>2, <1>0, <1>1, <1>3, ReplaceTop
    <3> QED
      BY <3>3, <1>3 DEF pos
  <2>3. calls' # << >>
    <3>1. Len(calls') = Len(calls)
      BY <1>3, <1>1
    <3> QED
      BY <3>1, <1>1
  <2> QED
    BY <1>0, <2>1, <2>2, <2>3, WalkKeepsPlace
<1>4. CASE EmitPointerType
  <2> DEFINE ptr == getPointerValue(Top.addr)
             name == IF ptr = 0 THEN NoName ELSE symbolizedAddrs[ptr]
  <2>1. Emit(Pointer(name, Top.addr)) /\ calls' = Below /\ ~ Unresolved(ptr)
        /\ Top.fn = "emitObject" /\ Top.type.kind = "pointer"
    BY <1>4 DEF EmitPointerType, Running
  <2>2. name \in Names \cup {NoName}
    BY <2>1 DEF Unresolved, TypeOK
  <2>3. Top.end = 0 /\ Top.type.size = 8 /\ AddrSize = 8
    BY <2>1, <1>1, <1>2, TypesAssumption DEF FrameOK, Laid
  <2> HIDE DEF name
  <2>4. /\ Pointer(name, Top.addr) \in Seq(Cell) /\ Len(Pointer(name, Top.addr)) = 8
        /\ \A k \in 1..8 : Pointer(name, Top.addr)[k].of = Top.addr + k - 1
    <3> DEFINE b == Top.addr
    <3>1. b \in Nat
      BY <1>1
    <3> HIDE DEF b
    <3>2. Pointer(name, b) \in Seq(Cell) /\ Len(Pointer(name, b)) = AddrSize
      BY <2>2, <3>1, PointerFacts
    <3>3. \A k \in 1..8 : Pointer(name, b)[k].of = b + k - 1
      BY <2>3, <3>1 DEF Pointer
    <3> QED
      BY <3>2, <3>3, <2>3 DEF b
  <2>5. Top.addr + Top.end = Top.addr
    BY <2>3, <1>1
  <2>6. Contiguous(Pointer(name, Top.addr), Top.addr + Top.end)
    BY <2>4, <2>5 DEF Contiguous
  <2>7. Top.end + Len(Pointer(name, Top.addr)) = Top.type.size
    BY <2>3, <2>4
  <2> QED
    BY <2>1, <2>4, <2>6, <2>7, <1>0, EmitAndReturn
<1>5. CASE EmitChunk
  <2> DEFINE size == LargestDirective(Top.type.size - Top.end)
             cells == Byte(Top.addr + Top.end, size)
             f == [Top EXCEPT !.end = Top.end + size]
  <2>1. /\ Emit(cells) /\ Top.fn = "emitObject" /\ Top.type.kind = "base"
        /\ calls' = [calls EXCEPT ![Len(calls)] = f]
    BY <1>5 DEF EmitChunk, Running, Top
  <2>2. size \in Nat /\ Top.end + size <= Top.type.size
    <3> DEFINE r == Top.type.size - Top.end
    <3>1. r \in Nat \ {0}
      BY <1>5, <1>1 DEF EmitChunk
    <3>2. LargestDirective(r) \in 1..r
      BY <3>1, LargestDirectiveFits
    <3>3. size \in 1..r
      BY <3>2
    <3> HIDE DEF size
    <3> QED
      BY <3>3, <1>1
  <2>3. Top.addr + Top.end \in Nat /\ Top.end + size \in Nat
    BY <2>2, <1>1
  <2> HIDE DEF size
  <2>4. cells \in Seq(Cell) /\ Len(cells) = size /\ Contiguous(cells, Top.addr + Top.end)
    BY <2>2, <2>3, ContiguousRun DEF Byte
  <2>5. f \in Frame /\ f.addr = Top.addr /\ f.type = Top.type /\ f.end = Top.end + size /\ f.fn = Top.fn
    BY <2>3, <1>1 DEF Frame
  <2> HIDE DEF f, cells
  <2>6. FrameOK(f)
    BY <2>1, <2>2, <2>5 DEF FrameOK
  <2> QED
    BY <2>1, <2>4, <2>5, <2>6, <1>3
<1>6. CASE EndIntegralType
  <2>1. Top.end = Top.type.size /\ output' = output /\ calls' = Below
    BY <1>6, <1>1, <1>2 DEF EndIntegralType, FrameOK
  <2>2. syms[L].addr + Len(output[L].image) = Top.addr + Top.type.size
    BY <2>1, <1>2
  <2>3. /\ Below # << >> => Shape(Below, syms[L], syms[L].addr + Len(output[L].image))
        /\ Below = << >> => syms[L].addr + Len(output[L].image) = syms[L].addr + output[L].size
    BY <2>2, <1>0, ReturnShape
  <2>4. Below = << >> => Len(output[L].image) = output[L].size
    <3>1. output[L].size \in Nat
      <4>1. output[L] \in Labelled
        BY <1>2 DEF TypeOK, L
      <4> QED
        BY <4>1 DEF Labelled
    <3> DEFINE a == syms[L].addr
               n == Len(output[L].image)
               z == output[L].size
    <3>2. a \in Nat /\ n \in Nat /\ z \in Nat /\ (Below = << >> => a + n = a + z)
      BY <2>3, <3>1, <1>2
    <3> HIDE DEF a, n, z
    <3>3. Below = << >> => n = z
      BY <3>2
    <3> QED
      BY <3>3 DEF n, z
  <2> QED
    BY <2>1, <2>3, <2>4, <1>0, NothingEmitted, WalkKeepsPlace
<1>7. CASE EmitTypeWithChildren
  <2> DEFINE f == Call("emitTypeWithChildren", Top.type, Top.addr, Offsets(Top.type))
  <2>1. /\ Top.fn = "emitObject" /\ Top.type.kind \in {"array", "compound"} /\ output' = output
        /\ calls' = [calls EXCEPT ![Len(calls)] = f]
    BY <1>7 DEF EmitTypeWithChildren, Running
  <2>2. Offsets(Top.type) \in SUBSET Nat
    BY <2>1, <1>1, ChildrenType
  <2>3. /\ f \in Frame /\ f.fn = "emitTypeWithChildren" /\ f.type = Top.type /\ f.addr = Top.addr
        /\ f.end = 0 /\ f.todo = Offsets(Top.type)
    BY <2>2, <1>1, CallType
  <2>4. Top.end = 0
    BY <2>1, <1>2 DEF FrameOK
  <2> HIDE DEF f
  <2>5. \A o \in f.todo : f.end <= o
    BY <2>2, <2>3
  <2>6. f.end <= f.type.size
    BY <2>3, <1>1
  <2>7. FrameOK(f)
    BY <2>1, <2>3, <2>5, <2>6 DEF FrameOK
  <2> QED
    BY <2>1, <2>3, <2>4, <2>7, <1>3
<1>8. CASE EndChildren
  <2>1. Emit(PaddingTo(Top.type.size)) /\ calls' = Below
    BY <1>8 DEF EndChildren
  <2>2. Top.end <= Top.type.size
    BY <1>2 DEF FrameOK
  <2> QED
    BY <2>1, <2>2, <1>0, <1>1, PaddingFacts, EmitAndReturn
<1>9. CASE EmitChild
  <2>1. PICK i \in 1..Len(Children(Top.type)) :
          LET child == Children(Top.type)[i] IN
          /\ child.at \in Top.todo /\ \A o \in Top.todo : child.at <= o
          /\ Chosen(Top.type, i)
          /\ Emit(PaddingTo(child.at))
          /\ calls' = Append([calls EXCEPT ![Len(calls)].todo = @ \ {child.at},
                                           ![Len(calls)].end = child.at + child.type.size],
                             Call("emitObject", child.type, Top.addr + child.at, {}))
    BY <1>9 DEF EmitChild
  <2> DEFINE child == Children(Top.type)[i]
             top == [Top EXCEPT !.todo = Top.todo \ {child.at}, !.end = child.at + child.type.size]
             new == Call("emitObject", child.type, Top.addr + child.at, {})
             cells == PaddingTo(child.at)
             s == [calls EXCEPT ![Len(calls)] = top]
  <2>2. child.type \in Types /\ child.at \in Nat /\ child.type.size \in Nat
        /\ Top.type.kind \in {"array", "compound"} /\ Top.fn = "emitTypeWithChildren"
    BY <1>9, <1>1, ChildrenType, TypesAssumption DEF EmitChild, Running
  <2>3. calls' = Append(s, new)
    BY <2>1 DEF Top
  <2>4. /\ top \in Frame /\ top.fn = "emitTypeWithChildren" /\ top.type = Top.type /\ top.addr = Top.addr
        /\ top.end = child.at + child.type.size /\ top.todo = Top.todo \ {child.at}
    <3>1. Top.todo \ {child.at} \in SUBSET Nat /\ child.at + child.type.size \in Nat
      BY <2>2, <1>1
    <3> QED
      BY <3>1, <2>2, <1>1 DEF Frame
  <2>5. /\ new \in Frame /\ new.fn = "emitObject" /\ new.type = child.type
        /\ new.addr = Top.addr + child.at /\ new.end = 0
    <3>1. Top.addr + child.at \in Nat
      BY <2>2, <1>1
    <3> QED
      BY <3>1, <2>2, CallType
  <2>6. Top.todo \subseteq Offsets(Top.type) /\ Top.end <= child.at
    BY <2>1, <2>2, <1>2 DEF FrameOK
  <2>7. /\ cells \in Seq(Cell) /\ Contiguous(cells, Top.addr + Top.end) /\ Emit(cells)
        /\ Top.end + Len(cells) = child.at
    BY <2>1, <2>2, <2>6, <1>1, PaddingFacts
  <2>8. /\ child.at + child.type.size <= Top.type.size
        /\ \A j \in 1..Len(Children(Top.type)) : child.at < Children(Top.type)[j].at =>
             child.at + child.type.size <= Children(Top.type)[j].at
    BY <2>1, <2>2, <1>1, LayoutFacts DEF Laid
  <2> HIDE DEF top, new, child, cells, s
  <2>9. FrameOK(top)
    <3>1. ASSUME NEW o \in Top.todo, o # child.at PROVE child.at + child.type.size <= o
      <4>1. PICK j \in 1..Len(Children(Top.type)) : o = Children(Top.type)[j].at
        BY <2>6 DEF Offsets
      <4>2. child.at <= o /\ o \in Nat
        BY <2>1, <1>1 DEF child
      <4>3. child.at < o
        BY <3>1, <4>2, <2>2
      <4> QED
        BY <4>1, <4>3, <2>8
    <3> QED
      BY <3>1, <2>2, <2>4, <2>6, <2>8 DEF FrameOK
  <2>10. FrameOK(new)
    BY <2>2, <2>5 DEF FrameOK
  <2>11. /\ InPlace' /\ L' = L
         /\ Len(output'[L].image) = Len(output[L].image) + Len(cells) /\ Len(cells) \in Nat
         /\ \A k \in 1..L : output'[k].name = output[k].name /\ output'[k].size = output[k].size
         /\ \A k \in 1..(L - 1) : Len(output'[k].image) = output[k].size
    BY <2>7, <1>0, EmitInPlace
  <2> DEFINE pos == syms[L].addr + Len(output'[L].image)
             end == top.addr + top.end
             old == syms[L].addr + Len(output[L].image)
  <2>12. pos = new.addr + new.end
    <3> DEFINE a == syms[L].addr
               n == Len(output[L].image)
               c == Len(cells)
               b == Top.addr
               e == Top.end
               o == child.at
    <3>1. /\ a + n = b + e /\ e + c = o
          /\ a \in Nat /\ n \in Nat /\ c \in Nat /\ b \in Nat /\ e \in Nat /\ o \in Nat
          /\ pos = a + (n + c) /\ new.addr + new.end = b + o + 0
      BY <2>2, <2>5, <2>7, <2>11, <1>1, <1>2
    <3> HIDE DEF a, n, c, b, e, o, pos
    <3> QED
      BY <3>1
  <2>13. Shape(s, syms[L], end)
    <3>1. top.addr = calls[Len(calls)].addr /\ top.type = calls[Len(calls)].type
          /\ Shape(calls, syms[L], old)
      BY <2>4, <1>1, <1>2
    <3> HIDE DEF old
    <3> QED
      BY <3>1, <2>4, <2>9, <1>0, <1>1, ReplaceTop DEF s
  <2> DEFINE m == Len(calls)
  <2>14. /\ s \in Seq(Frame) /\ Len(s) = m /\ s[m] = top /\ m \in Nat \ {0}
         /\ Len(calls') = m + 1 /\ calls'[m + 1] = new /\ \A k \in 1..m : calls'[k] = s[k]
    <3>1. s \in Seq(Frame) /\ Len(s) = m /\ s[m] = top /\ m \in Nat \ {0}
      BY <2>4, <1>1 DEF s
    <3> QED
      BY <3>1, <2>3, <2>5, AppendProperties
  <2> HIDE DEF m, pos, end
  <2>15. \A k \in 1..m : calls'[k].fn = "emitTypeWithChildren"
                      /\ calls'[k].addr + calls'[k].end = calls'[k + 1].addr + calls'[k + 1].type.size
    <3> SUFFICES ASSUME NEW k \in 1..m
                 PROVE  calls'[k].fn = "emitTypeWithChildren"
                      /\ calls'[k].addr + calls'[k].end = calls'[k + 1].addr + calls'[k + 1].type.size
      OBVIOUS
    <3>1. CASE k = m
      <4> DEFINE b == Top.addr
                 o == child.at
                 z == child.type.size
      <4>1. b \in Nat /\ o \in Nat /\ z \in Nat
        BY <2>2, <1>1
      <4>2. /\ calls'[k].addr + calls'[k].end = b + (o + z)
            /\ calls'[k + 1].addr + calls'[k + 1].type.size = (b + o) + z
        BY <3>1, <2>4, <2>5, <2>14
      <4> HIDE DEF b, o, z
      <4>3. b + (o + z) = (b + o) + z
        BY <4>1
      <4> QED
        BY <3>1, <4>2, <4>3, <2>4, <2>14
    <3>2. CASE k \in 1..(m - 1)
      <4>1. calls'[k] = s[k] /\ calls'[k + 1] = s[k + 1]
        BY <3>2, <2>14
      <4> QED
        BY <3>2, <4>1, <2>13, <2>14 DEF Shape
    <3> QED
      BY <3>1, <3>2, <2>14
  <2>16. Shape(calls', syms[L], pos)
    <3>1. 1 \in 1..m /\ (m + 1) - 1 = m
      BY <2>14
    <3>2. calls'[1].addr = syms[L].addr /\ calls'[1].type = syms[L].type
      BY <3>1, <2>13, <2>14 DEF Shape
    <3>3. \A k \in 1..(m + 1) : FrameOK(calls'[k])
      <4>1. \A k \in 1..(m + 1) : k = m + 1 \/ k \in 1..m
        BY <2>14
      <4> QED
        BY <4>1, <2>10, <2>13, <2>14 DEF Shape
    <3> QED
      BY <3>1, <3>2, <3>3, <2>12, <2>14, <2>15 DEF Shape
  <2>17. calls' # << >>
    BY <2>14
  <2> QED
    BY <2>11, <2>16, <2>17, <1>0, WalkKeepsPlace DEF pos
<1> QED
  BY <1>4, <1>5, <1>6, <1>7, <1>8, <1>9 DEF WalkStep

\* The steps of emitAsm itself begin and end labels.
LEMMA PlaceLoops ==
  ASSUME Laid, TypeOK, PlaceInv,
         RegisterSym \/ EmitFilePrologue \/ EmitOneSym \/ EmitFileEpilogue
         \/ UnresolvedPointer \/ Returned \/ UNCHANGED vars
  PROVE  PlaceInv'
<1>1. CASE RegisterSym
  BY <1>1 DEF RegisterSym, PlaceInv, Labels, InPlace, SizeRight, Finished, Shape, L
<1>2. CASE EmitFilePrologue
  <2>1. output = << >> /\ calls = << >> /\ output' = output /\ calls' = calls /\ next' = 1 /\ pc' = "emitAsm"
    BY <1>2 DEF EmitFilePrologue, PlaceInv, Labels
  <2> QED
    BY <2>1 DEF PlaceInv, Labels, InPlace, SizeRight, L
<1>3. CASE EmitOneSym
  <2> DEFINE sym == syms[next]
             new == [name |-> sym.name, align |-> findAlignment(sym), image |-> << >>,
                     size |-> IF sym.type.kind = "pointer" THEN AddrSize ELSE sym.type.size]
             call == Call("emitObject", sym.type, sym.addr, {})
  <2>1. /\ next \in 1..Len(syms) /\ Len(syms) \in Nat /\ next' = next + 1 /\ calls = << >>
        /\ pc' = "emitAsm" /\ pc # "registerKnownSyms" /\ pc = "emitAsm" /\ syms' = syms
    BY <1>3, SymsType DEF EmitOneSym, TypeOK
  <2>2. sym.name \in Names /\ sym.type \in Types /\ sym.addr \in Nat /\ sym.type.size \in Nat
    BY <2>1, SymsType, TypesAssumption
  <2>3. new \in Labelled /\ new.image = << >> /\ new.name = sym.name
    BY <2>2, EmitAssumption DEF Labelled, findAlignment
  <2>4. new.size = sym.type.size
    BY <2>2, TypesAssumption DEF Laid
  <2>5. /\ call.addr = sym.addr /\ call.type = sym.type /\ call.fn = "emitObject" /\ call.end = 0
    BY <2>2, CallType
  <2>6. output' = Append(output, new) /\ calls' = <<call>>
    BY <1>3 DEF EmitOneSym
  <2> HIDE DEF sym, new, call
  <2>7. L = next - 1 /\ L \in Nat /\ output \in Seq(Labelled)
    BY <2>1 DEF PlaceInv, Labels, TypeOK, L
  <2>8. /\ L' = L + 1 /\ output'[L + 1] = new /\ \A k \in 1..L : output'[k] = output[k]
    BY <2>3, <2>6, <2>7, AppendProperties DEF L
  <2>9. L' = next /\ next \in Nat
    BY <2>1, <2>7, <2>8
  <2>10. \A k \in 1..L' : k = next \/ k \in 1..L
    <3> DEFINE l == L
    <3>1. l \in Nat /\ next = l + 1 /\ L' = next
      BY <2>7, <2>9
    <3> HIDE DEF l
    <3>2. \A k \in 1..next : k = next \/ k \in 1..l
      BY <3>1
    <3> QED
      BY <3>1, <3>2 DEF l
  <2>11. output'[next] = new /\ L + 1 = next
    BY <2>1, <2>7, <2>8
  <2>12. Labels'
    <3>1. \A k \in 1..L' : /\ k \in 1..Len(syms) /\ output'[k].name = syms[k].name
                           /\ output'[k].size = syms[k].type.size
      BY <2>1, <2>3, <2>4, <2>8, <2>10, <2>11 DEF PlaceInv, Labels, sym
    <3>2. L' = next' - 1
      BY <2>1, <2>9
    <3> QED
      BY <2>1, <3>1, <3>2 DEF Labels
  <2>13. InPlace'
    <3> SUFFICES ASSUME NEW k \in 1..L', NEW i \in 1..Len(output'[k].image)
                 PROVE  output'[k].image[i].of = syms[k].addr + i - 1
      BY <2>1 DEF InPlace, L
    <3>1. k # next
      BY <2>3, <2>11
    <3> QED
      BY <3>1, <2>8, <2>10 DEF PlaceInv, InPlace, L
  <2>14. SizeRight'
    <3> SUFFICES ASSUME NEW k \in 1..L', k < L' PROVE Len(output'[k].image) = output'[k].size
      BY <2>6 DEF SizeRight, Finished, L
    <3>1. k \in 1..L
      BY <2>9, <2>10
    <3> QED
      BY <3>1, <2>1, <2>8 DEF PlaceInv, SizeRight, Finished, L
  <2>15. Shape(calls', syms[next], syms[next].addr + Len(output'[next].image))
    <3>1. Len(calls') = 1 /\ calls'[1] = call
      BY <2>6
    <3>2. FrameOK(call)
      BY <2>5, <2>2, TypesAssumption DEF FrameOK, sym
    <3>3. syms[next].addr + Len(output'[next].image) = call.addr + call.end
      BY <2>2, <2>3, <2>5, <2>11 DEF sym
    <3> QED
      BY <3>1, <3>2, <3>3, <2>5 DEF Shape, sym
  <2> QED
    BY <2>1, <2>9, <2>12, <2>13, <2>14, <2>15 DEF PlaceInv
<1>4. CASE EmitFileEpilogue
  <2>1. /\ UNCHANGED <<syms, next, calls, output>> /\ pc' = "done" /\ pc = "emitAsm" /\ calls = << >>
        /\ next = Len(syms) + 1
    BY <1>4, SymsType DEF EmitFileEpilogue, TypeOK
  <2> QED
    BY <2>1 DEF PlaceInv, Labels, InPlace, SizeRight, Finished, L
<1>5. CASE UnresolvedPointer
  <2>1. UNCHANGED <<syms, next, calls, output>> /\ pc' = "abort" /\ pc = "emitAsm"
    BY <1>5 DEF UnresolvedPointer, Running
  <2> QED
    BY <2>1 DEF PlaceInv, Labels, InPlace, SizeRight, Finished, L
<1>6. CASE Returned \/ UNCHANGED vars
  BY <1>6 DEF Returned, vars, PlaceInv, Labels, InPlace, SizeRight, Finished, L
<1> QED
  BY <1>1, <1>2, <1>3, <1>4, <1>5, <1>6

\* Nothing is running and nothing is written at first.
LEMMA PlaceInit == Init => PlaceInv
  BY DEF Init, PlaceInv, Labels, InPlace, SizeRight, L

\* Every step keeps the shape, for types that are laid out.
LEMMA PlaceStep ==
  ASSUME Laid
  PROVE  TypeOK /\ PlaceInv /\ [Next]_vars => PlaceInv'
  BY PlaceLoops, PlaceWalk DEF Next, WalkStep

\* Laid-out types are emitted byte for byte where they are: no directive moves
\* the bytes after it, whatever the nesting of arrays and compounds.
THEOREM AlwaysInPlace ==
  ASSUME Laid
  PROVE  Spec => []InPlace
<1>1. PlaceInv => InPlace
  BY DEF PlaceInv
<1> QED
  BY TypeCorrect, PlaceInit, PlaceStep, <1>1, PTL DEF Spec

\* The directives below every finished label add up to the .size it is given.
THEOREM AlwaysSizeRight ==
  ASSUME Laid
  PROVE  Spec => []SizeRight
<1>1. PlaceInv => SizeRight
  BY DEF PlaceInv
<1> QED
  BY TypeCorrect, PlaceInit, PlaceStep, <1>1, PTL DEF Spec

------------------------------------------------------------------------------
(* Pointers, for types laid out in any way *)

\* The names registered are those of symbols at their addresses.
Registered ==
  \A a \in DOMAIN symbolizedAddrs :
    \E j \in 1..Len(syms) : syms[j].addr = a /\ syms[j].name = symbolizedAddrs[a]

\* What PointersRight says of one cell, and that a name is a symbol's.
CellRight(cell) ==
  /\ cell.what = "pointer" =>
       LET ptr == getPointerValue(cell.of) IN
       IF ptr = 0 THEN cell.name = NoName
       ELSE \E j \in 1..Len(syms) : syms[j].addr = ptr /\ syms[j].name = cell.name
  /\ cell.name # NoName => \E j \in 1..Len(syms) : syms[j].name = cell.name

AllRight(cells) == \A i \in 1..Len(cells) : CellRight(cells[i])

\* The labels written so far are the first symbols.
Named ==
  /\ IF pc = "registerKnownSyms" THEN output = << >> ELSE L = next - 1
  /\ \A k \in 1..L : output[k].name = syms[k].name
  /\ pc \in {"registerKnownSyms", "done"} => calls = << >>
  /\ pc = "done" => next = Len(syms) + 1

PointerInv == Registered /\ Named /\ \A k \in 1..L : AllRight(output[k].image)

\* Bytes and padding name nothing.
LEMMA RunRight ==
  ASSUME NEW what \in {"byte", "zero"}, NEW from \in Nat, NEW n \in Int
  PROVE  AllRight(Run(what, NoName, from, n))
<1> DEFINE r == Run(what, NoName, from, n)
<1>1. \A k \in 1..n : r[k].name = NoName /\ r[k].what = what
  BY DEF Run
<1>2. n >= 0 => Len(r) = n
  BY RunFacts
<1>3. ASSUME n < 0 PROVE Len(r) = 0
  <2>1. 1..n = {}
    BY <1>3
  <2>2. r = << >>
    BY <2>1 DEF Run
  <2> QED
    BY <2>2
<1>4. \A k \in 1..Len(r) : k \in 1..n
  BY <1>2, <1>3
<1> HIDE DEF r
<1>5. \A k \in 1..Len(r) : CellRight(r[k])
  BY <1>1, <1>4 DEF CellRight
<1> QED
  BY <1>5 DEF AllRight, r

\* Padding has no pointers in it.
LEMMA PaddingRight ==
  ASSUME Top.addr \in Nat, Top.end \in Nat, NEW offset \in Nat
  PROVE  AllRight(PaddingTo(offset))
<1> DEFINE b == Top.addr
           e == Top.end
<1>1. b \in Nat /\ e \in Nat
  OBVIOUS
<1> HIDE DEF b, e
<1>2. b + e \in Nat /\ offset - e \in Int
  BY <1>1
<1>3. AllRight(Run("zero", NoName, b + e, offset - e))
  BY <1>2, RunRight
<1> QED
  BY <1>3 DEF PaddingTo, Zero, b, e

\* A step that only emits good cells keeps PointerInv.
LEMMA EmitRight ==
  ASSUME TypeOK, PointerInv, calls # << >>, pc = "emitAsm",
         UNCHANGED <<syms, memory, pc, next, symbolizedAddrs>>,
         NEW cells \in Seq(Cell), AllRight(cells), Emit(cells)
  PROVE  PointerInv'
<1>1. /\ L \in Nat \ {0} /\ L' = L
      /\ \A k \in 1..L : output'[k].name = output[k].name /\ (k # L => output'[k] = output[k])
      /\ output'[L].image = output[L].image \o cells
      /\ output[L].image \in Seq(Cell)
  BY EmitEffect DEF L
<1>2. \A c : CellRight(c) => CellRight(c)'
  BY DEF CellRight, getPointerValue
<1> DEFINE old == output[L].image
<1>3. old \in Seq(Cell) /\ AllRight(old) /\ output'[L].image = old \o cells
  BY <1>1 DEF PointerInv
<1> HIDE DEF old
<1>4. AllRight(old \o cells)
  <2>1. /\ Len(old) \in Nat /\ Len(cells) \in Nat /\ Len(old \o cells) = Len(old) + Len(cells)
        /\ \A i \in 1..Len(old) : (old \o cells)[i] = old[i]
        /\ \A i \in 1..Len(cells) : (old \o cells)[Len(old) + i] = cells[i]
    BY <1>3
  <2> SUFFICES ASSUME NEW i \in 1..Len(old \o cells) PROVE CellRight((old \o cells)[i])
    BY DEF AllRight
  <2>2. CASE i \in 1..Len(old)
    BY <2>1, <2>2, <1>3 DEF AllRight
  <2>3. CASE i \notin 1..Len(old)
    <3> DEFINE j == i - Len(old)
    <3>1. j \in 1..Len(cells) /\ i = Len(old) + j
      BY <2>1, <2>3
    <3> HIDE DEF j
    <3> QED
      BY <2>1, <3>1 DEF AllRight
  <2> QED
    BY <2>2, <2>3
<1>5. \A k \in 1..L' : \A i \in 1..Len(output'[k].image) : CellRight(output'[k].image[i])
  <2> SUFFICES ASSUME NEW k \in 1..L, NEW i \in 1..Len(output'[k].image)
               PROVE  CellRight(output'[k].image[i])
    BY <1>1
  <2>1. CASE k = L
    BY <2>1, <1>3, <1>4 DEF AllRight
  <2>2. CASE k # L
    BY <2>2, <1>1 DEF PointerInv, AllRight
  <2> QED
    BY <2>1, <2>2
<1>6. \A k \in 1..L' : AllRight(output[k].image)'
  BY <1>2, <1>5 DEF AllRight
<1>7. Registered' /\ Named'
  BY <1>1 DEF PointerInv, Registered, Named, L
<1> QED
  BY <1>6, <1>7 DEF PointerInv

\* The walk over a type writes pointers by the names registered for them.
LEMMA PointerWalk ==
  ASSUME TypeOK, PointerInv, WalkStep
  PROVE  PointerInv'
<1>0. calls # << >> /\ pc = "emitAsm" /\ UNCHANGED <<syms, memory, pc, next, symbolizedAddrs>>
  BY DEF WalkStep, EmitPointerType, EmitChunk, EndIntegralType, EmitTypeWithChildren, EmitChild,
         EndChildren, Running
<1>1. Top.type \in Types /\ Top.addr \in Nat /\ Top.end \in Nat /\ Top.type.size \in Nat
  BY <1>0, StackType, TypesAssumption
<1>2. ASSUME output' = output PROVE PointerInv'
  BY <1>0, <1>2 DEF PointerInv, Registered, Named, AllRight, CellRight, getPointerValue, L
<1>3. CASE EmitPointerType
  <2> DEFINE ptr == getPointerValue(Top.addr)
             name == IF ptr = 0 THEN NoName ELSE symbolizedAddrs[ptr]
  <2>1. Emit(Pointer(name, Top.addr)) /\ ~ Unresolved(ptr)
    BY <1>3 DEF EmitPointerType
  <2>2. name \in Names \cup {NoName}
    BY <2>1 DEF Unresolved, TypeOK
  <2>3. IF ptr = 0 THEN name = NoName
        ELSE \E j \in 1..Len(syms) : syms[j].addr = ptr /\ syms[j].name = name
    BY <2>1 DEF Unresolved, PointerInv, Registered
  <2> HIDE DEF name
  <2>4. /\ Pointer(name, Top.addr) \in Seq(Cell) /\ Len(Pointer(name, Top.addr)) = AddrSize
        /\ \A k \in 1..AddrSize :
             /\ Pointer(name, Top.addr)[k].name = name
             /\ Pointer(name, Top.addr)[k].what = "pointer" => Pointer(name, Top.addr)[k].of = Top.addr
    <3> DEFINE b == Top.addr
    <3>1. b \in Nat
      BY <1>1
    <3> HIDE DEF b
    <3>2. /\ Pointer(name, b) \in Seq(Cell) /\ Len(Pointer(name, b)) = AddrSize
          /\ \A k \in 1..AddrSize : /\ Pointer(name, b)[k].of = b + k - 1
                                     /\ Pointer(name, b)[k].name = name
                                     /\ Pointer(name, b)[k].what = IF k = 1 THEN "pointer" ELSE "rest"
      <4>1. Pointer(name, b) \in Seq(Cell) /\ Len(Pointer(name, b)) = AddrSize
        BY <2>2, <3>1, PointerFacts
      <4> QED
        BY <4>1 DEF Pointer
    <3>3. b + 1 - 1 = b
      BY <3>1
    <3>4. \A k \in 1..AddrSize : Pointer(name, b)[k].what = "pointer" => k = 1
      BY <3>2
    <3> QED
      BY <3>2, <3>3, <3>4 DEF b
  <2>5. AllRight(Pointer(name, Top.addr))
    BY <2>3, <2>4 DEF AllRight, CellRight
  <2> QED
    BY <2>1, <2>4, <2>5, <1>0, EmitRight
<1>4. CASE EmitChunk
  <2> DEFINE size == LargestDirective(Top.type.size - Top.end)
             cells == Byte(Top.addr + Top.end, size)
  <2>1. Top.type.size - Top.end \in Nat \ {0}
    BY <1>4, <1>1 DEF EmitChunk
  <2>2. size \in Int /\ Top.addr + Top.end \in Nat
    BY <2>1, <1>1, LargestDirectiveFits
  <2> HIDE DEF size
  <2>3. cells \in Seq(Cell) /\ AllRight(cells)
    BY <2>2, RunFacts, RunRight DEF Byte
  <2>4. Emit(cells)
    BY <1>4 DEF EmitChunk, size
  <2> HIDE DEF cells
  <2> QED
    BY <2>3, <2>4, <1>0, EmitRight
<1>5. CASE EndIntegralType \/ EmitTypeWithChildren
  BY <1>5, <1>2 DEF EndIntegralType, EmitTypeWithChildren
<1>6. CASE EmitChild
  <2>1. PICK i \in 1..Len(Children(Top.type)) : Emit(PaddingTo(Children(Top.type)[i].at))
    BY <1>6 DEF EmitChild
  <2>2. Children(Top.type)[i].at \in Nat
    BY <1>6, <1>1, ChildrenType DEF EmitChild, Running
  <2> QED
    BY <2>1, <2>2, <1>0, <1>1, PaddingType, PaddingRight, EmitRight
<1>7. CASE EndChildren
  BY <1>7, <1>0, <1>1, PaddingType, PaddingRight, EmitRight DEF EndChildren
<1> QED
  BY <1>3, <1>4, <1>5, <1>6, <1>7 DEF WalkStep

\* The two loops over the symbols register names, and write each as a label.
LEMMA PointerLoops ==
  ASSUME TypeOK, PointerInv,
         RegisterSym \/ EmitFilePrologue \/ EmitOneSym \/ EmitFileEpilogue
         \/ UnresolvedPointer \/ Returned \/ UNCHANGED vars
  PROVE  PointerInv'
<1>1. CASE RegisterSym
  <2>1. /\ next \in 1..Len(syms) /\ output = << >> /\ calls = << >> /\ pc = "registerKnownSyms"
        /\ UNCHANGED <<syms, pc, calls, output>>
    BY <1>1, SymsType DEF RegisterSym, TypeOK, PointerInv, Named
  <2>2. Registered'
    BY <1>1, <2>1 DEF RegisterSym, PointerInv, Registered
  <2> QED
    BY <2>1, <2>2 DEF PointerInv, Named, L
<1>2. CASE EmitFilePrologue
  <2>1. /\ output = << >> /\ calls = << >> /\ next' = 1 /\ pc' = "emitAsm"
        /\ UNCHANGED <<syms, symbolizedAddrs, calls, output>>
    BY <1>2 DEF EmitFilePrologue, PointerInv, Named
  <2> QED
    BY <2>1 DEF PointerInv, Named, Registered, L
<1>3. CASE EmitOneSym
  <2> DEFINE new == [name |-> syms[next].name, align |-> findAlignment(syms[next]), image |-> << >>,
                     size |-> IF syms[next].type.kind = "pointer" THEN AddrSize
                              ELSE syms[next].type.size]
             l == L
  <2>1. /\ next \in 1..Len(syms) /\ Len(syms) \in Nat /\ next' = next + 1 /\ calls = << >>
        /\ pc' = "emitAsm" /\ pc = "emitAsm" /\ UNCHANGED <<syms, memory, symbolizedAddrs>>
    BY <1>3, SymsType DEF EmitOneSym, TypeOK
  <2>2. new \in Labelled /\ new.image = << >> /\ new.name = syms[next].name
    BY <2>1, SymsType, TypesAssumption, EmitAssumption DEF Labelled, findAlignment
  <2>3. output' = Append(output, new)
    BY <1>3 DEF EmitOneSym
  <2> HIDE DEF new
  <2>4. l = next - 1 /\ l \in Nat /\ output \in Seq(Labelled) /\ l = Len(output)
    BY <2>1 DEF PointerInv, Named, TypeOK, L
  <2> HIDE DEF l
  <2>5. Len(output') = next /\ output'[next] = new /\ \A k \in 1..l : output'[k] = output[k]
    <3>1. l + 1 = next
      BY <2>1, <2>4
    <3> QED
      BY <2>2, <2>3, <2>4, <3>1, AppendProperties
  <2>6. \A k \in 1..next : k = next \/ k \in 1..l
    BY <2>1, <2>4
  <2>7. Named'
    <3>1. \A k \in 1..next : output'[k].name = syms[k].name
      BY <2>2, <2>5, <2>6 DEF PointerInv, Named, l
    <3>2. next = next' - 1
      BY <2>1
    <3> QED
      BY <2>1, <2>5, <3>1, <3>2 DEF Named, L
  <2>8. ASSUME NEW k \in 1..next PROVE AllRight(output[k].image)'
    <3>1. CASE k = next
      <4>1. Len(output'[k].image) = 0
        BY <3>1, <2>2, <2>5
      <4> QED
        BY <4>1 DEF AllRight
    <3>2. CASE k \in 1..l
      <4>1. AllRight(output[k].image)
        BY <3>2 DEF PointerInv, l
      <4>2. output'[k] = output[k]
        BY <3>2, <2>5
      <4>3. \A i \in 1..Len(output'[k].image) : CellRight(output'[k].image[i])
        BY <4>1, <4>2 DEF AllRight
      <4>4. \A c : CellRight(c) => CellRight(c)'
        BY <2>1 DEF CellRight, getPointerValue
      <4> QED
        BY <4>3, <4>4 DEF AllRight
    <3> QED
      BY <3>1, <3>2, <2>6
  <2> QED
    BY <2>1, <2>5, <2>7, <2>8 DEF PointerInv, Registered, L
<1>4. CASE EmitFileEpilogue
  <2>1. /\ UNCHANGED <<syms, memory, symbolizedAddrs, next, calls, output>>
        /\ pc' = "done" /\ pc = "emitAsm" /\ calls = << >> /\ next = Len(syms) + 1
    BY <1>4, SymsType DEF EmitFileEpilogue, TypeOK
  <2> QED
    BY <2>1 DEF PointerInv, Named, Registered, AllRight, CellRight, getPointerValue, L
<1>5. CASE UnresolvedPointer
  <2>1. /\ UNCHANGED <<syms, memory, symbolizedAddrs, next, calls, output>>
        /\ pc' = "abort" /\ pc = "emitAsm"
    BY <1>5 DEF UnresolvedPointer, Running
  <2> QED
    BY <2>1, SMTT(30) DEF PointerInv, Named, Registered, AllRight, CellRight, getPointerValue, L
<1>6. CASE Returned \/ UNCHANGED vars
  <2>1. UNCHANGED vars
    BY <1>6 DEF Returned
  <2> QED
    BY <2>1 DEF vars, PointerInv, Named, Registered, AllRight, CellRight, getPointerValue, L
<1> QED
  BY <1>1, <1>2, <1>3, <1>4, <1>5, <1>6

\* No name is registered at first.
LEMMA PointerInit == Init => PointerInv
  BY DEF Init, PointerInv, Registered, Named, L

\* Every step keeps the names right.
LEMMA PointerStep == TypeOK /\ PointerInv /\ [Next]_vars => PointerInv'
  BY PointerLoops, PointerWalk DEF Next, WalkStep

\* A pointer is never written as the name of another object, and never as null
\* unless it is null.
THEOREM PointersAlwaysRight == Spec => []PointersRight
<1>1. PointerInv => PointersRight
  BY DEF PointerInv, AllRight, CellRight, PointersRight, L
<1> QED
  BY TypeCorrect, PointerInit, PointerStep, <1>1, PTL DEF Spec

\* The file emitted defines every name it refers to, so that it links by itself.
THEOREM LinksAlwaysResolve == Spec => []LinksResolve
<1>1. PointerInv /\ TypeOK => LinksResolve
  <2> SUFFICES ASSUME PointerInv, TypeOK, pc = "done", NEW k \in 1..L,
                      NEW i \in 1..Len(output[k].image), output[k].image[i].name # NoName
               PROVE  \E j \in 1..L : output[j].name = output[k].image[i].name
    BY DEF LinksResolve, L
  <2>1. PICK j \in 1..Len(syms) : syms[j].name = output[k].image[i].name
    BY DEF PointerInv, AllRight, CellRight
  <2>2. L = Len(syms)
    BY SymsType DEF PointerInv, Named
  <2> QED
    BY <2>1, <2>2 DEF PointerInv, Named
<1> QED
  BY TypeCorrect, PointerInit, PointerStep, <1>1, PTL DEF Spec

------------------------------------------------------------------------------
(* Functions defined by recursion over the types *)

\* The children of a type are components of it.
LEMMA ChildIsComponent ==
  ASSUME NEW t \in Types, t.kind \in {"array", "compound"}, NEW i \in 1..Len(Children(t))
  PROVE  Children(t)[i].type \in ComponentsOf(t)
<1>1. CASE t.kind = "compound"
  BY <1>1 DEF Children, ComponentsOf
<1>2. CASE t.kind = "array"
  <2> DEFINE m == IF t.elem.size = 0 THEN 0 ELSE t.num
  <2>1. Children(t) = [j \in 1..m |-> [type |-> t.elem, at |-> (j - 1) * t.elem.size]] /\ m \in Nat
    BY <1>2, TypesAssumption DEF Children
  <2> HIDE DEF m
  <2>2. Children(t)[i].type = t.elem
    BY <2>1
  <2> QED
    BY <2>2, <1>2 DEF ComponentsOf
<1> QED
  BY <1>1, <1>2

LEMMA ComponentsAreTypes == ASSUME NEW t \in Types PROVE ComponentsOf(t) \subseteq Types
<1>1. CASE t.kind = "compound"
  <2>1. ComponentsOf(t) = {t.members[i].type : i \in 1..Len(t.members)}
    BY <1>1 DEF ComponentsOf
  <2>2. \A i \in 1..Len(t.members) : t.members[i].type \in Types
    <3>1. Children(t) = t.members
      BY <1>1 DEF Children
    <3> QED
      BY <1>1, <3>1, ChildrenType
  <2> QED
    BY <2>1, <2>2
<1>2. CASE t.kind = "array"
  BY <1>2, TypesAssumption DEF ComponentsOf
<1>3. CASE t.kind \in {"base", "pointer"}
  BY <1>3 DEF ComponentsOf
<1> QED
  BY <1>1, <1>2, <1>3, TypesAssumption DEF Kinds

\* What Nesting says of the types that nest at most n deep.
LEMMA NestingUnfolds ==
  /\ Cardinality(Types) \in Nat
  /\ Nesting[0] = {}
  /\ \A n \in 1..Cardinality(Types) :
       Nesting[n] = {t \in Types : ComponentsOf(t) \subseteq Nesting[n - 1]}
<1> DEFINE C == Cardinality(Types)
           V == SUBSET Types
           Deeper(x) == {t \in Types : ComponentsOf(t) \subseteq x}
           step == [p \in V \X (1..C) |-> Deeper(p[1])]
<1>1. C \in Nat
  BY NestingAssumption, FS_CardinalityType
<1> HIDE DEF C
<1>2. \A x : Deeper(x) \in V
  OBVIOUS
<1>3. {} \in V
  OBVIOUS
<1> HIDE DEF V, Deeper
<1>4. step \in [V \X (1..C) -> V] /\ \A x \in V, n \in 1..C : step[<<x, n>>] = Deeper(x)
  BY <1>2
<1> HIDE DEF step
<1>5. PICK g \in [0..C -> V] : Recursion(g, {}, step, C)
  BY <1>1, <1>3, <1>4, RecursionExists
<1>6. g = [n \in 0..C |-> IF n = 0 THEN {} ELSE Deeper(g[n - 1])]
  <2>1. ASSUME NEW n \in 1..C PROVE g[n] = Deeper(g[n - 1])
    <3>1. n - 1 \in 0..C
      BY <1>1
    <3>2. g[n] = step[<<g[n - 1], n>>] /\ g[n - 1] \in V
      BY <3>1, <1>5 DEF Recursion
    <3> QED
      BY <3>2, <1>4
  <2>2. g[0] = {}
    BY <1>5 DEF Recursion
  <2>3. \A n \in 0..C : n = 0 \/ n \in 1..C
    BY <1>1
  <2> QED
    BY <2>1, <2>2, <2>3
<1>7. Nesting = [n \in 0..C |-> IF n = 0 THEN {} ELSE Deeper(Nesting[n - 1])]
  BY <1>6, Zenon DEF Nesting, C, Deeper
<1>8. \A n \in 0..C : Nesting[n] = IF n = 0 THEN {} ELSE Deeper(Nesting[n - 1])
  BY <1>7, Zenon
<1>9. 0 \in 0..C /\ \A n \in 1..C : n \in 0..C /\ n # 0
  BY <1>1
<1>10. Nesting[0] = {} /\ \A n \in 1..C : Nesting[n] = Deeper(Nesting[n - 1])
  BY <1>8, <1>9, Zenon
<1> QED
  BY <1>1, <1>10 DEF C, Deeper

\* A function of the types whose value at each is computed from the values at its components.
LEMMA TypeRecursion ==
  ASSUME NEW G, NEW F, Computes(F, G, Types, [t \in Types |-> ComponentsOf(t)])
  PROVE  \E f \in G : f = F[f]
<1> DEFINE parts == [t \in Types |-> ComponentsOf(t)]
           C == Cardinality(Types)
<1>1. C \in Nat /\ Nesting[0] = {} /\ Nesting[C] = Types
  BY NestingUnfolds, NestingAssumption
<1>2. ASSUME NEW i \in 1..C, NEW t \in Nesting[i]
      PROVE  t \in Types /\ parts[t] \subseteq Nesting[i - 1]
  BY NestingUnfolds
<1>3. Computes(F, G, Types, parts)
  OBVIOUS
<1> HIDE DEF parts, C
<1>4. Nest(Types, parts, Nesting, C)
  BY <1>1, <1>2 DEF Nest
<1> QED
  BY <1>1, <1>3, <1>4, FixpointExists

LiveOf(f, t) ==
  IF t.kind \in {"base", "pointer"} THEN 0..(t.size - 1)
  ELSE UNION {{Children(t)[i].at + b : b \in f[Children(t)[i].type]} : i \in 1..Len(Children(t))}

\* The live bytes of a type with children are those of its children, moved to where each is.
LEMMA LiveOfChildren ==
  ASSUME NEW t \in Types, t.kind \in {"array", "compound"}, NEW f, NEW x
  PROVE  x \in LiveOf(f, t) <=>
           \E i \in 1..Len(Children(t)) : \E b \in f[Children(t)[i].type] : x = Children(t)[i].at + b
<1> DEFINE Shifted(i) == {Children(t)[i].at + b : b \in f[Children(t)[i].type]}
<1>1. LiveOf(f, t) = UNION {Shifted(i) : i \in 1..Len(Children(t))}
  <2>1. t.kind \notin {"base", "pointer"}
    OBVIOUS
  <2> QED
    BY <2>1, Zenon DEF LiveOf
<1>2. \A i : x \in Shifted(i) <=> \E b \in f[Children(t)[i].type] : x = Children(t)[i].at + b
  BY Zenon
<1> HIDE DEF Shifted
<1> QED
  BY <1>1, <1>2, Zenon

\* Live is what its definition says of it.
LEMMA LiveUnfolds ==
  /\ Live \in [Types -> SUBSET Nat]
  /\ \A t \in Types : Live[t] = LiveOf(Live, t)
<1> DEFINE G == [Types -> SUBSET Nat]
           F == [g \in G |-> [t \in Types |-> LiveOf(g, t)]]
<1>1. ASSUME NEW g, NEW t \in Types,
             t.kind \in {"array", "compound"} => \A p \in ComponentsOf(t) : g[p] \in SUBSET Nat
      PROVE  LiveOf(g, t) \in SUBSET Nat
  <2>1. CASE t.kind \in {"base", "pointer"}
    BY <2>1, TypesAssumption DEF LiveOf
  <2>2. CASE t.kind \in {"array", "compound"}
    <3>1. ASSUME NEW i \in 1..Len(Children(t)), NEW b \in g[Children(t)[i].type]
          PROVE  Children(t)[i].at + b \in Nat
      <4>1. Children(t)[i].type \in ComponentsOf(t) /\ Children(t)[i].at \in Nat
        BY <2>2, ChildrenType, ChildIsComponent
      <4>2. b \in Nat
        BY <1>1, <2>2, <4>1
      <4> QED
        BY <4>1, <4>2
    <3> QED
      BY <2>2, <3>1, LiveOfChildren
  <2> QED
    BY <2>1, <2>2, TypesAssumption DEF Kinds
<1>2. F \in [G -> G] /\ \A g \in G, t \in Types : F[g][t] = LiveOf(g, t)
  <2>1. ASSUME NEW g \in G PROVE [t \in Types |-> LiveOf(g, t)] \in G
    <3>1. ASSUME NEW t \in Types PROVE LiveOf(g, t) \in SUBSET Nat
      <4>1. t.kind \in {"array", "compound"} => \A p \in ComponentsOf(t) : p \in Types
        BY ComponentsAreTypes
      <4> QED
        BY <4>1, <1>1
    <3> QED
      BY <3>1
  <2> HIDE DEF G
  <2> QED
    BY <2>1
<1>3. \A g, h \in G : (\A t \in Types : g[t] = h[t]) => g = h
  OBVIOUS
<1>4. G # {}
  <2>1. [t \in Types |-> {}] \in G
    OBVIOUS
  <2> QED
    BY <2>1
<1>5. ASSUME NEW g, NEW h, NEW t \in Types, \A p \in ComponentsOf(t) : g[p] = h[p]
      PROVE  LiveOf(g, t) = LiveOf(h, t)
  <2>1. CASE t.kind \in {"base", "pointer"}
    BY <2>1 DEF LiveOf
  <2>2. CASE t.kind \in {"array", "compound"}
    <3>1. \A i \in 1..Len(Children(t)) : g[Children(t)[i].type] = h[Children(t)[i].type]
      BY <2>2, <1>5, ChildIsComponent
    <3>2. \A x : x \in LiveOf(g, t) <=> x \in LiveOf(h, t)
      BY <2>2, <3>1, LiveOfChildren
    <3> QED
      BY <3>2
  <2> QED
    BY <2>1, <2>2, TypesAssumption DEF Kinds
<1> HIDE DEF G, F
<1>6. ASSUME NEW g \in G, NEW h \in G, NEW t \in Types, \A p \in ComponentsOf(t) : g[p] = h[p]
      PROVE  F[g][t] = F[h][t]
  BY <1>2, <1>5, <1>6
<1>7. Computes(F, G, Types, [t \in Types |-> ComponentsOf(t)])
  BY <1>2, <1>3, <1>4, <1>6 DEF Computes
<1>8. PICK f \in G : f = F[f]
  BY <1>7, TypeRecursion
<1>9. f = [t \in Types |-> LiveOf(f, t)]
  BY <1>8 DEF F
<1>10. Live = [t \in Types |-> LiveOf(Live, t)]
  BY <1>9, ZenonT(40) DEF Live, LiveOf
<1>11. \A t \in Types : Live[t] = LiveOf(Live, t)
  BY <1>10, Zenon
<1>12. \A t \in Types : Live[t] \in SUBSET Nat
  <2> DEFINE C == Cardinality(Types)
             Typed == {n \in 0..C : \A t \in Nesting[n] : Live[t] \in SUBSET Nat}
  <2>1. C \in Nat /\ 0 \in Typed
    BY NestingUnfolds
  <2>2. ASSUME NEW n \in 0..(C - 1), n \in Typed PROVE n + 1 \in Typed
    <3>1. n + 1 \in 1..C /\ n + 1 \in 0..C /\ (n + 1) - 1 = n
      BY <2>1
    <3>2. ASSUME NEW t \in Nesting[n + 1] PROVE Live[t] \in SUBSET Nat
      <4>1. t \in Types /\ ComponentsOf(t) \subseteq Nesting[n]
        BY <3>1, NestingUnfolds
      <4>2. \A p \in ComponentsOf(t) : Live[p] \in SUBSET Nat
        BY <4>1, <2>2
      <4> QED
        BY <4>1, <4>2, <1>1, <1>11
    <3> QED
      BY <3>1, <3>2
  <2> HIDE DEF Typed
  <2>3. C \in Typed
    BY <2>1, <2>2, InductionUpTo
  <2> QED
    BY <2>3, NestingAssumption DEF Typed
<1> QED
  BY <1>10, <1>11, <1>12 DEF G

\* What a union demands of a child of the largest size at its offset.
LargestCovers(t, i) ==
  LET At(k)   == {j \in 1..Len(t.members) : t.members[j].at = t.members[k].at}
      Type(k) == t.members[k].type
  IN  (\A j \in At(i) : Type(j).size <= Type(i).size) =>
        \A j \in At(i) : Live[Type(j)] \subseteq Live[Type(i)]

CoveredOf(f, t) ==
  /\ t.kind = "array" => f[t.elem]
  /\ t.kind = "compound" => \A i \in 1..Len(t.members) :
                              /\ f[t.members[i].type]
                              /\ LargestCovers(t, i)

\* UnionsCovered is what its definition says of it.
LEMMA UnionsUnfold == \A t \in Types : UnionsCovered[t] <=> CoveredOf(UnionsCovered, t)
<1> DEFINE G == [Types -> BOOLEAN]
           F == [g \in G |-> [t \in Types |-> CoveredOf(g, t)]]
<1>1. \A g, t : CoveredOf(g, t) \in BOOLEAN
  BY Zenon DEF CoveredOf
<1>2. F \in [G -> G] /\ \A g \in G, t \in Types : F[g][t] = CoveredOf(g, t)
  <2>1. \A g \in G : [t \in Types |-> CoveredOf(g, t)] \in G
    BY <1>1, Zenon
  <2> HIDE DEF G
  <2> QED
    BY <2>1, Zenon
<1>3. \A g, h \in G : (\A t \in Types : g[t] = h[t]) => g = h
  OBVIOUS
<1>4. G # {}
  <2>1. [t \in Types |-> TRUE] \in G
    OBVIOUS
  <2> QED
    BY <2>1
<1>5. ASSUME NEW g \in G, NEW h \in G, NEW t \in Types, \A p \in ComponentsOf(t) : g[p] = h[p]
      PROVE  CoveredOf(g, t) <=> CoveredOf(h, t)
  <2>1. CASE t.kind = "compound"
    <3>1. \A i \in 1..Len(t.members) : g[t.members[i].type] = h[t.members[i].type]
      BY <2>1, <1>5 DEF ComponentsOf
    <3>2. t.kind # "array"
      BY <2>1
    <3> QED
      BY <3>1, <3>2, Zenon DEF CoveredOf
  <2>2. CASE t.kind = "array"
    <3>1. g[t.elem] = h[t.elem] /\ t.kind # "compound"
      BY <2>2, <1>5 DEF ComponentsOf
    <3> QED
      BY <3>1, Zenon DEF CoveredOf
  <2>3. CASE t.kind \notin {"array", "compound"}
    BY <2>3, Zenon DEF CoveredOf
  <2> QED
    BY <2>1, <2>2, <2>3
<1> HIDE DEF G, F
<1>6. ASSUME NEW g \in G, NEW h \in G, NEW t \in Types, \A p \in ComponentsOf(t) : g[p] = h[p]
      PROVE  F[g][t] = F[h][t]
  <2>1. CoveredOf(g, t) <=> CoveredOf(h, t)
    BY <1>5, <1>6
  <2>2. F[g][t] = CoveredOf(g, t) /\ F[h][t] = CoveredOf(h, t)
    BY <1>2, Zenon
  <2>3. CoveredOf(g, t) \in BOOLEAN /\ CoveredOf(h, t) \in BOOLEAN
    BY <1>1, Zenon
  <2> QED
    BY <2>1, <2>2, <2>3, Zenon
<1>7. Computes(F, G, Types, [t \in Types |-> ComponentsOf(t)])
  BY <1>2, <1>3, <1>4, <1>6 DEF Computes
<1>8. PICK f \in G : f = F[f]
  BY <1>7, TypeRecursion
<1>9. f = [t \in Types |-> CoveredOf(f, t)]
  BY <1>8, Zenon DEF F
<1>10. UnionsCovered = CHOOSE g : g = [t \in Types |-> CoveredOf(g, t)]
  BY Zenon DEF UnionsCovered, CoveredOf, LargestCovers
<1>11. UnionsCovered = [t \in Types |-> CoveredOf(UnionsCovered, t)]
  BY <1>9, <1>10, Zenon
<1> QED
  BY <1>11, Zenon

\* The children of a type whose unions allow for it: so do theirs, and the child
\* chosen at an offset covers the others there.
LEMMA ChosenCovers ==
  ASSUME NEW t \in Types, t.kind \in {"array", "compound"}, UnionsCovered[t],
         NEW i \in 1..Len(Children(t)), Chosen(t, i)
  PROVE  /\ UnionsCovered[Children(t)[i].type]
         /\ \A j \in 1..Len(Children(t)) : Children(t)[j].at = Children(t)[i].at =>
              Live[Children(t)[j].type] \subseteq Live[Children(t)[i].type]
<1>1. CASE t.kind = "compound"
  <2>1. Children(t) = t.members
    BY <1>1 DEF Children
  <2>2. UnionsCovered[t.members[i].type] /\ LargestCovers(t, i)
    BY <1>1, <2>1, UnionsUnfold, Zenon DEF CoveredOf
  <2>3. \A j \in 1..Len(t.members) : t.members[j].at = t.members[i].at =>
          t.members[j].type.size <= t.members[i].type.size
    <3>1. \A j \in 1..Len(t.members) : t.members[j].type.size \in Nat
      BY <2>1, ChildrenType, TypesAssumption
    <3> QED
      BY <3>1, <2>1 DEF Chosen
  <2>4. \A j \in 1..Len(t.members) : t.members[j].at = t.members[i].at =>
          Live[t.members[j].type] \subseteq Live[t.members[i].type]
    BY <2>2, <2>3, Zenon DEF LargestCovers
  <2> QED
    BY <2>1, <2>2, <2>4, Zenon
<1>2. CASE t.kind = "array"
  <2>1. \A j \in 1..Len(Children(t)) : Children(t)[j].type = t.elem
    <3>1. \A j \in 1..Len(Children(t)) : Children(t)[j].type \in ComponentsOf(t)
      BY ChildIsComponent
    <3> QED
      BY <3>1, <1>2 DEF ComponentsOf
  <2>2. UnionsCovered[t.elem]
    BY <1>2, UnionsUnfold, Zenon DEF CoveredOf
  <2> QED
    BY <2>1, <2>2, Zenon
<1> QED
  BY <1>1, <1>2

------------------------------------------------------------------------------
(* What is written of the values *)

\* The cells have the value at an address, and no zero instead of it.
Kept(cells, a) == \E i \in 1..Len(cells) : cells[i].of = a /\ cells[i].what # "zero"

\* They have every value of the object of a type at an address.
ObjectKept(cells, addr, t) == \A b \in Live[t] : Kept(cells, addr + b)

\* The values of child c of call f are among those that call g is to write.
InCall(f, c, g) == f.addr + c.at = g.addr /\ Live[c.type] \subseteq Live[g.type]

\* Call k of the stack s has lost nothing yet: a scalar as far as it has come, of
\* an object the children no longer to do, of which one may be running.
CallKept(cells, s, k) ==
  /\ UnionsCovered[s[k].type]
  /\ s[k].fn = "emitObject" /\ s[k].type.kind = "base" =>
       \A b \in 0..(s[k].end - 1) : Kept(cells, s[k].addr + b)
  /\ s[k].fn = "emitTypeWithChildren" =>
       \A i \in 1..Len(Children(s[k].type)) :
         \/ Children(s[k].type)[i].at \in s[k].todo
         \/ ObjectKept(cells, s[k].addr + Children(s[k].type)[i].at, Children(s[k].type)[i].type)
         \/ k < Len(s) /\ InCall(s[k], Children(s[k].type)[i], s[k + 1])

StackKept(cells, s) == \A k \in 1..Len(s) : CallKept(cells, s, k)

\* No label whose unions allow for it has lost a value.
KeepInv ==
  \A k \in 1..L : UnionsCovered[syms[k].type] =>
    IF Finished(k) THEN ObjectKept(output[k].image, syms[k].addr, syms[k].type)
    ELSE StackKept(output[k].image, calls)

\* Cells that have all the values other cells have.
Extends(more, cells) == \A a : Kept(cells, a) => Kept(more, a)

\* Writing more directives loses none.
LEMMA WritingKeeps ==
  ASSUME NEW cells \in Seq(Cell), NEW more \in Seq(Cell)
  PROVE  Extends(cells \o more, cells)
<1>1. \A i \in 1..Len(cells) : i \in 1..Len(cells \o more) /\ (cells \o more)[i] = cells[i]
  OBVIOUS
<1> QED
  BY <1>1 DEF Extends, Kept

\* The values written last.
LEMMA WrittenKept ==
  ASSUME NEW cells \in Seq(Cell), NEW more \in Seq(Cell), NEW from, Contiguous(more, from),
         \A k \in 1..Len(more) : more[k].what # "zero",
         NEW k \in 1..Len(more)
  PROVE  Kept(cells \o more, from + k - 1)
<1> DEFINE n == Len(cells)
<1>1. n + k \in 1..Len(cells \o more) /\ (cells \o more)[n + k] = more[k]
  OBVIOUS
<1>2. more[k].of = from + k - 1 /\ more[k].what # "zero"
  BY DEF Contiguous
<1> HIDE DEF n
<1> QED
  BY <1>1, <1>2 DEF Kept

\* A stack that has lost nothing has lost nothing when more is written.
LEMMA StackStaysKept ==
  ASSUME NEW s, NEW cells, NEW more, Extends(more, cells), StackKept(cells, s)
  PROVE  StackKept(more, s)
<1>1. \A addr, t : ObjectKept(cells, addr, t) => ObjectKept(more, addr, t)
  BY DEF Extends, ObjectKept
<1> SUFFICES ASSUME NEW k \in 1..Len(s) PROVE CallKept(more, s, k)
  BY DEF StackKept
<1>2. CallKept(cells, s, k)
  BY DEF StackKept
<1> QED
  BY <1>1, <1>2 DEF CallKept, Extends

\* A call moves on, over the same object.
LEMMA StackMovesOn ==
  ASSUME NEW s \in Seq(Frame), s # << >>, NEW cells, StackKept(cells, s),
         NEW f \in Frame, f.addr = s[Len(s)].addr, f.type = s[Len(s)].type,
         NEW t, t = [s EXCEPT ![Len(s)] = f],
         CallKept(cells, t, Len(s))
  PROVE  StackKept(cells, t)
<1> DEFINE m == Len(s)
<1>1. m \in Nat \ {0} /\ Len(t) = m /\ t[m] = f /\ \A k \in 1..(m - 1) : t[k] = s[k]
  OBVIOUS
<1>2. f.addr = s[m].addr /\ f.type = s[m].type /\ CallKept(cells, t, m)
  OBVIOUS
<1>3. \A k \in 1..m : CallKept(cells, s, k)
  BY DEF StackKept
<1>4. Len(s) = m
  OBVIOUS
<1> HIDE DEF m
<1>5. ASSUME NEW k \in 1..(m - 1) PROVE CallKept(cells, t, k)
  <2>1. k \in 1..m /\ k + 1 \in 1..m /\ t[k] = s[k]
    BY <1>1
  <2>2. t[k + 1].addr = s[k + 1].addr /\ t[k + 1].type = s[k + 1].type
    <3>1. k + 1 = m \/ k + 1 \in 1..(m - 1)
      BY <1>1
    <3> QED
      BY <3>1, <1>1, <1>2
  <2>3. \A c : InCall(s[k], c, s[k + 1]) => InCall(t[k], c, t[k + 1])
    BY <2>1, <2>2 DEF InCall
  <2>4. CallKept(cells, s, k)
    BY <1>3, <2>1
  <2> QED
    BY <2>1, <2>3, <2>4, <1>1, <1>4 DEF CallKept
<1>6. \A k \in 1..m : k = m \/ k \in 1..(m - 1)
  BY <1>1
<1> QED
  BY <1>1, <1>2, <1>5, <1>6 DEF StackKept

\* A call that has written every value of its object returns.
LEMMA StackReturns ==
  ASSUME TypeOK, PlaceInv, calls # << >>,
         NEW cells, StackKept(cells, calls), ObjectKept(cells, Top.addr, Top.type)
  PROVE  /\ Below # << >> => StackKept(cells, Below)
         /\ Below = << >> => ObjectKept(cells, syms[L].addr, syms[L].type)
<1> DEFINE m == Len(calls)
<1>1. /\ m \in Nat \ {0} /\ Top = calls[m] /\ Len(Below) = m - 1
      /\ \A k \in 1..(m - 1) : Below[k] = calls[k]
  BY StackType DEF Top
<1>2. \A k \in 1..m : CallKept(cells, calls, k)
  BY DEF StackKept
<1>3. Len(calls) = m
  OBVIOUS
<1> HIDE DEF m
<1>4. \A c : InCall(calls[m - 1], c, Top) => ObjectKept(cells, calls[m - 1].addr + c.at, c.type)
  BY DEF InCall, ObjectKept
<1>5. ASSUME NEW k \in 1..(m - 1) PROVE CallKept(cells, Below, k)
  <2>1. k \in 1..m /\ Below[k] = calls[k] /\ CallKept(cells, calls, k)
    BY <1>1, <1>2
  <2>2. CASE k = m - 1
    <3>1. calls[k + 1] = Top
      BY <2>2, <1>1
    <3> QED
      BY <2>1, <2>2, <3>1, <1>4 DEF CallKept
  <2>3. CASE k # m - 1
    <3>1. k < m - 1 /\ Below[k + 1] = calls[k + 1]
      BY <2>3, <1>1
    <3> QED
      BY <2>1, <3>1, <1>1 DEF CallKept
  <2> QED
    BY <2>2, <2>3
<1>6. ASSUME Below = << >> PROVE ObjectKept(cells, syms[L].addr, syms[L].type)
  <2>1. m = 1
    BY <1>1, <1>6
  <2>2. Top.addr = syms[L].addr /\ Top.type = syms[L].type
    BY <2>1, <1>1 DEF PlaceInv, Shape
  <2> QED
    BY <2>2
<1> QED
  BY <1>1, <1>5, <1>6 DEF StackKept

\* What a step of the walk has to show, which writes below the last label only.
LEMMA WalkKeepsValues ==
  ASSUME TypeOK, KeepInv, calls # << >>, UNCHANGED syms, L' = L,
         \A k \in 1..(L - 1) : output'[k] = output[k],
         UnionsCovered[syms[L].type] /\ StackKept(output[L].image, calls) =>
           /\ calls' # << >> => StackKept(output'[L].image, calls')
           /\ calls' = << >> => ObjectKept(output'[L].image, syms[L].addr, syms[L].type)
  PROVE  KeepInv'
<1>1. L \in Nat \ {0} /\ L \in 1..L
  BY DEF TypeOK, L
<1>2. ASSUME NEW k \in 1..L, UnionsCovered[syms[k].type]
      PROVE  IF k < L \/ calls' = << >> THEN ObjectKept(output'[k].image, syms[k].addr, syms[k].type)
             ELSE StackKept(output'[k].image, calls')
  <2>1. CASE k = L
    <3>1. StackKept(output[L].image, calls)
      BY <1>1, <1>2, <2>1 DEF KeepInv, Finished, L
    <3> QED
      BY <1>1, <1>2, <2>1, <3>1
  <2>2. CASE k \in 1..(L - 1)
    <3>1. k < L /\ output'[k] = output[k]
      BY <2>2, <1>1
    <3>2. ObjectKept(output[k].image, syms[k].addr, syms[k].type)
      BY <1>2, <3>1 DEF KeepInv, Finished, L
    <3> QED
      BY <3>1, <3>2
  <2> QED
    BY <1>1, <2>1, <2>2
<1>3. \A k : Finished(k)' <=> k < L \/ calls' = << >>
  BY DEF Finished, L
<1> QED
  BY <1>2, <1>3 DEF KeepInv

\* The walk over a type loses no value.
LEMMA KeepWalk ==
  ASSUME Laid, TypeOK, PlaceInv, KeepInv, WalkStep
  PROVE  KeepInv'
<1> DEFINE m == Len(calls)
           was == output[L].image
<1>0. calls # << >> /\ UNCHANGED <<syms, memory, pc, next, symbolizedAddrs>>
  BY DEF WalkStep, EmitPointerType, EmitChunk, EndIntegralType, EmitTypeWithChildren, EmitChild,
         EndChildren, Running
<1>1. /\ m \in Nat \ {0} /\ calls \in Seq(Frame) /\ Top = calls[m] /\ Top \in Frame
      /\ Top.type \in Types /\ Top.addr \in Nat /\ Top.end \in Nat /\ Top.todo \in SUBSET Nat
      /\ Top.type.size \in Nat /\ Below \in Seq(Frame)
  BY <1>0, StackType, TypesAssumption DEF TypeOK, Top
<1>2. FrameOK(Top) /\ L \in 1..L /\ L \in Nat
  BY <1>0, TopOK DEF TypeOK, L
<1>3. was \in Seq(Cell)
  <2>1. output[L] \in Labelled
    BY <1>2 DEF TypeOK, L
  <2> QED
    BY <2>1 DEF Labelled
<1>4. StackKept(was, calls) => CallKept(was, calls, m)
  BY <1>1 DEF StackKept
<1> HIDE DEF was
\* A step that writes nothing.
<1>5. ASSUME output' = output,
             StackKept(was, calls) =>
               /\ calls' # << >> => StackKept(was, calls')
               /\ calls' = << >> => ObjectKept(was, syms[L].addr, syms[L].type)
      PROVE  KeepInv'
  <2>1. L' = L /\ output'[L].image = was /\ \A k \in 1..(L - 1) : output'[k] = output[k]
    BY <1>5 DEF L, was
  <2> QED
    BY <1>0, <1>5, <2>1, WalkKeepsValues DEF was
\* A step that writes more cells.
<1>6. ASSUME NEW more \in Seq(Cell), Emit(more),
             StackKept(was, calls) =>
               /\ calls' # << >> => StackKept(was \o more, calls')
               /\ calls' = << >> => ObjectKept(was \o more, syms[L].addr, syms[L].type)
      PROVE  KeepInv'
  <2>1. /\ L' = L /\ output'[L].image = was \o more
        /\ \A k \in 1..L : k # L => output'[k] = output[k]
    BY <1>0, <1>6, EmitEffect DEF L, was
  <2>2. \A k \in 1..(L - 1) : k \in 1..L /\ k # L
    BY <1>2
  <2> QED
    BY <1>0, <1>6, <2>1, <2>2, WalkKeepsValues DEF was
<1>7. CASE EmitPointerType
  <2> DEFINE ptr == getPointerValue(Top.addr)
             name == IF ptr = 0 THEN NoName ELSE symbolizedAddrs[ptr]
             more == Pointer(name, Top.addr)
  <2>1. /\ Emit(more) /\ calls' = Below /\ ~ Unresolved(ptr)
        /\ Top.fn = "emitObject" /\ Top.type.kind = "pointer"
    BY <1>7 DEF EmitPointerType, Running
  <2>2. name \in Names \cup {NoName}
    BY <2>1 DEF Unresolved, TypeOK
  <2>3. Top.type.size = 8 /\ AddrSize = 8
    BY <2>1, <1>1, TypesAssumption DEF Laid
  <2> HIDE DEF name
  <2> DEFINE a == Top.addr
  <2>4. a \in Nat
    BY <1>1
  <2>5. more = Pointer(name, a)
    OBVIOUS
  <2> HIDE DEF a, more
  <2>6. /\ more \in Seq(Cell) /\ Len(more) = 8
        /\ Contiguous(more, a)
        /\ \A k \in 1..Len(more) : more[k].what # "zero"
    <3>1. more \in Seq(Cell) /\ Len(more) = 8
      BY <2>2, <2>3, <2>4, <2>5, PointerFacts
    <3>2. \A k \in 1..8 : more[k].of = a + k - 1 /\ more[k].what \in {"pointer", "rest"}
      BY <2>3, <2>4, <2>5 DEF Pointer
    <3> QED
      BY <3>1, <3>2 DEF Contiguous
  <2>7. ObjectKept(was \o more, a, Top.type)
    <3>1. Live[Top.type] = 0..7
      <4>1. LiveOf(Live, Top.type) = 0..(Top.type.size - 1)
        BY <2>1 DEF LiveOf
      <4>2. Live[Top.type] = LiveOf(Live, Top.type)
        BY <1>1, LiveUnfolds, Zenon
      <4>3. Top.type.size - 1 = 7
        BY <2>3
      <4> QED
        BY <4>1, <4>2, <4>3, Zenon
    <3>2. ASSUME NEW b \in 0..7 PROVE Kept(was \o more, a + b)
      <4>1. b + 1 \in 1..Len(more) /\ a + (b + 1) - 1 = a + b
        BY <2>4, <2>6
      <4>2. Kept(was \o more, a + (b + 1) - 1)
        BY <4>1, <1>3, <2>6, WrittenKept
      <4> QED
        BY <4>1, <4>2
    <3> QED
      BY <3>1, <3>2 DEF ObjectKept
  <2>8. ASSUME StackKept(was, calls)
        PROVE  /\ Below # << >> => StackKept(was \o more, Below)
               /\ Below = << >> => ObjectKept(was \o more, syms[L].addr, syms[L].type)
    <3>1. StackKept(was \o more, calls)
      BY <2>8, <2>6, <1>3, WritingKeeps, StackStaysKept
    <3> QED
      BY <3>1, <2>7, <1>0, StackReturns DEF a
  <2> QED
    BY <2>1, <2>6, <2>8, <1>6
<1>8. CASE EmitChunk
  <2> DEFINE size == LargestDirective(Top.type.size - Top.end)
             more == Byte(Top.addr + Top.end, size)
             f == [Top EXCEPT !.end = Top.end + size]
             from == Top.addr + Top.end
  <2>1. /\ Emit(more) /\ Top.fn = "emitObject" /\ Top.type.kind = "base"
        /\ calls' = [calls EXCEPT ![m] = f]
    BY <1>8 DEF EmitChunk, Running, Top
  <2>2. size \in Nat
    <3> DEFINE r == Top.type.size - Top.end
    <3>1. r \in Nat \ {0}
      <4>1. Top.end < Top.type.size
        BY <1>8 DEF EmitChunk
      <4> QED
        BY <4>1, <1>1
    <3>2. LargestDirective(r) \in 1..r
      BY <3>1, LargestDirectiveFits
    <3> QED
      BY <3>1, <3>2
  <2>3. from \in Nat /\ Top.end + size \in Nat
    BY <2>2, <1>1
  <2> HIDE DEF size, from
  <2>4. /\ more \in Seq(Cell) /\ Len(more) = size /\ Contiguous(more, from)
        /\ \A k \in 1..Len(more) : more[k].what # "zero"
    <3>1. more = Run("byte", NoName, from, size)
      BY DEF Byte, from
    <3>2. \A k \in 1..size : Run("byte", NoName, from, size)[k].what = "byte"
      BY <2>2 DEF Run
    <3>3. /\ Run("byte", NoName, from, size) \in Seq(Cell)
          /\ Len(Run("byte", NoName, from, size)) = size
          /\ Contiguous(Run("byte", NoName, from, size), from)
      BY <2>2, <2>3, ContiguousRun
    <3>4. "byte" # "zero"
      OBVIOUS
    <3> HIDE DEF more
    <3> QED
      BY <3>1, <3>2, <3>3, <3>4
  <2>5. f \in Frame /\ f.addr = Top.addr /\ f.type = Top.type /\ f.end = Top.end + size /\ f.fn = Top.fn
    BY <2>3, <1>1 DEF Frame
  <2> HIDE DEF f, more
  <2>6. ASSUME StackKept(was, calls) PROVE StackKept(was \o more, calls')
    <3>1. StackKept(was \o more, calls) /\ Extends(was \o more, was)
      BY <2>6, <2>4, <1>3, WritingKeeps, StackStaysKept
    <3>2. /\ UnionsCovered[Top.type]
          /\ \A b \in 0..(Top.end - 1) : Kept(was, Top.addr + b)
      BY <2>6, <1>4, <2>1, <1>1 DEF CallKept
    <3>3. ASSUME NEW b \in 0..(f.end - 1) PROVE Kept(was \o more, f.addr + b)
      <4>1. CASE b < Top.end
        <5>1. b \in 0..(Top.end - 1)
          BY <4>1, <1>1
        <5> QED
          BY <5>1, <3>1, <3>2, <2>5 DEF Extends
      <4>2. CASE b >= Top.end
        <5> DEFINE e == Top.end
                   k == b - e + 1
                   a == Top.addr
        <5>1. a \in Nat /\ e \in Nat /\ size \in Nat /\ b \in 0..(e + size - 1) /\ b >= e /\ from = a + e
          BY <4>2, <1>1, <2>2, <2>5, <3>3 DEF from
        <5> HIDE DEF a, e
        <5>2. k \in 1..size /\ from + k - 1 = a + b
          BY <5>1
        <5> HIDE DEF k
        <5>3. Kept(was \o more, from + k - 1)
          BY <5>2, <1>3, <2>4, WrittenKept
        <5> QED
          BY <5>2, <5>3, <2>5 DEF a
      <4> QED
        BY <4>1, <4>2, <1>1, <2>3, <2>5
    <3> DEFINE t == [calls EXCEPT ![m] = f]
    <3>4. t[m] = f /\ t = calls'
      BY <1>1, <2>1
    <3> HIDE DEF t
    <3>5. CallKept(was \o more, t, m)
      BY <3>2, <3>3, <3>4, <2>1, <2>5 DEF CallKept
    <3>6. f.addr = calls[m].addr /\ f.type = calls[m].type
      BY <1>1, <2>5
    <3> HIDE DEF m
    <3>7. StackKept(was \o more, t)
      BY <3>1, <3>5, <3>6, <2>5, <1>0, <1>1, StackMovesOn DEF t, m
    <3> QED
      BY <3>4, <3>7
  <2>7. calls' # << >>
    <3>1. Len([calls EXCEPT ![m] = f]) = m
      BY <1>1
    <3> QED
      BY <3>1, <2>1, <1>1
  <2> QED
    BY <2>1, <2>4, <2>6, <2>7, <1>6
<1>9. CASE EndIntegralType
  <2>1. /\ output' = output /\ calls' = Below /\ Top.end = Top.type.size
        /\ Top.fn = "emitObject" /\ Top.type.kind = "base"
    BY <1>9, <1>1, <1>2 DEF EndIntegralType, Running, FrameOK
  <2>2. Live[Top.type] = 0..(Top.end - 1)
    <3>1. LiveOf(Live, Top.type) = 0..(Top.type.size - 1)
      BY <2>1 DEF LiveOf
    <3> QED
      BY <3>1, <2>1, <1>1, LiveUnfolds
  <2>3. ASSUME StackKept(was, calls) PROVE ObjectKept(was, Top.addr, Top.type)
    BY <2>3, <1>4, <2>1, <2>2, <1>1 DEF CallKept, ObjectKept
  <2> QED
    BY <2>1, <2>3, <1>0, <1>5, StackReturns
<1>10. CASE EmitTypeWithChildren
  <2> DEFINE f == Call("emitTypeWithChildren", Top.type, Top.addr, Offsets(Top.type))
             t == [calls EXCEPT ![m] = f]
  <2>1. /\ Top.fn = "emitObject" /\ Top.type.kind \in {"array", "compound"} /\ output' = output
        /\ calls' = t
    BY <1>10 DEF EmitTypeWithChildren, Running
  <2>2. Offsets(Top.type) \in SUBSET Nat
    BY <2>1, <1>1, ChildrenType
  <2>3. /\ f \in Frame /\ f.fn = "emitTypeWithChildren" /\ f.type = Top.type /\ f.addr = Top.addr
        /\ f.todo = Offsets(Top.type)
    BY <2>2, <1>1, CallType
  <2> HIDE DEF f
  <2>4. t[m] = f /\ Len(t) = m
    BY <1>1
  <2>5. \A i \in 1..Len(Children(f.type)) : Children(f.type)[i].at \in f.todo
    BY <2>3 DEF Offsets
  <2>6. ASSUME StackKept(was, calls) PROVE StackKept(was, t)
    <3>1. UnionsCovered[f.type]
      BY <2>6, <1>4, <1>1, <2>3 DEF CallKept
    <3> HIDE DEF t
    <3>2. CallKept(was, t, m)
      BY <3>1, <2>3, <2>4, <2>5 DEF CallKept
    <3>3. f.addr = calls[m].addr /\ f.type = calls[m].type
      BY <1>1, <2>3
    <3> QED
      BY <3>2, <3>3, <2>3, <2>6, <1>0, <1>1, StackMovesOn DEF t
  <2>7. calls' # << >>
    BY <2>1, <2>4, <1>1
  <2> QED
    BY <2>1, <2>6, <2>7, <1>5
<1>11. CASE EndChildren
  <2> DEFINE more == PaddingTo(Top.type.size)
  <2>1. /\ Emit(more) /\ calls' = Below /\ Top.todo = {}
        /\ Top.fn = "emitTypeWithChildren" /\ Top.type.kind \in {"array", "compound"}
    BY <1>11 DEF EndChildren, Running
  <2>2. more \in Seq(Cell)
    BY <1>1, PaddingType
  <2> HIDE DEF more
  <2>3. ASSUME StackKept(was, calls) PROVE ObjectKept(was, Top.addr, Top.type)
    <3> DEFINE c == Children(Top.type)
               a == Top.addr
    <3>1. \A i \in 1..Len(c) : ObjectKept(was, a + c[i].at, c[i].type)
      BY <2>3, <1>4, <2>1, <1>1 DEF CallKept
    <3>2. a \in Nat /\ \A i \in 1..Len(c) : c[i].type \in Types /\ c[i].at \in Nat
      BY <2>1, <1>1, ChildrenType
    <3>3. \A x \in Live[Top.type] : \E i \in 1..Len(c) : \E b \in Live[c[i].type] : x = c[i].at + b
      <4>1. Live[Top.type] = LiveOf(Live, Top.type)
        BY <1>1, LiveUnfolds, Zenon
      <4>2. ASSUME NEW x \in LiveOf(Live, Top.type)
            PROVE  \E i \in 1..Len(c) : \E b \in Live[c[i].type] : x = c[i].at + b
        <5> DEFINE t == Top.type
        <5>1. t \in Types /\ t.kind \in {"array", "compound"} /\ x \in LiveOf(Live, t)
          BY <2>1, <1>1
        <5>2. c = Children(t)
          OBVIOUS
        <5> HIDE DEF t, c
        <5> QED
          BY <5>1, <5>2, LiveOfChildren
      <4> QED
        BY <4>1, <4>2, Zenon
    <3>4. ASSUME NEW x \in Live[Top.type] PROVE Kept(was, a + x)
      <4>1. PICK i \in 1..Len(c) : \E b \in Live[c[i].type] : x = c[i].at + b
        BY <3>3
      <4>2. PICK b \in Live[c[i].type] : x = c[i].at + b
        BY <4>1
      <4> DEFINE o == c[i].at
      <4>3. o \in Nat /\ b \in Nat
        BY <3>2, LiveUnfolds
      <4>4. Kept(was, (a + o) + b)
        BY <3>1 DEF ObjectKept
      <4>5. x = o + b
        BY <4>2
      <4> HIDE DEF a, o, c
      <4>6. (a + o) + b = a + x
        BY <4>3, <4>5, <3>2
      <4> QED
        BY <4>4, <4>6
    <3> QED
      BY <3>4 DEF ObjectKept
  <2>4. ASSUME StackKept(was, calls)
        PROVE  StackKept(was \o more, calls) /\ ObjectKept(was \o more, Top.addr, Top.type)
    <3>1. Extends(was \o more, was)
      BY <2>2, <1>3, WritingKeeps
    <3> QED
      BY <3>1, <2>3, <2>4, StackStaysKept DEF ObjectKept, Extends
  <2> QED
    BY <2>1, <2>2, <2>4, <1>0, <1>6, StackReturns
<1>12. CASE EmitChild
  <2>1. PICK i \in 1..Len(Children(Top.type)) :
          LET child == Children(Top.type)[i] IN
          /\ Chosen(Top.type, i)
          /\ Emit(PaddingTo(child.at))
          /\ calls' = Append([calls EXCEPT ![Len(calls)].todo = @ \ {child.at},
                                           ![Len(calls)].end = child.at + child.type.size],
                             Call("emitObject", child.type, Top.addr + child.at, {}))
    BY <1>12 DEF EmitChild
  <2> DEFINE child == Children(Top.type)[i]
             top == [Top EXCEPT !.todo = Top.todo \ {child.at}, !.end = child.at + child.type.size]
             new == Call("emitObject", child.type, Top.addr + child.at, {})
             more == PaddingTo(child.at)
             s == [calls EXCEPT ![m] = top]
  <2>2. child.type \in Types /\ child.at \in Nat /\ child.type.size \in Nat
        /\ Top.type.kind \in {"array", "compound"} /\ Top.fn = "emitTypeWithChildren"
    BY <1>12, <1>1, ChildrenType, TypesAssumption DEF EmitChild, Running
  <2>3. calls' = Append(s, new) /\ Emit(more)
    BY <2>1 DEF Top
  <2>4. /\ top \in Frame /\ top.fn = "emitTypeWithChildren" /\ top.type = Top.type /\ top.addr = Top.addr
        /\ top.todo = Top.todo \ {child.at}
    <3>1. Top.todo \ {child.at} \in SUBSET Nat /\ child.at + child.type.size \in Nat
      BY <2>2, <1>1, SMTT(30)
    <3> QED
      BY <3>1, <2>2, <1>1 DEF Frame
  <2>5. /\ new \in Frame /\ new.fn = "emitObject" /\ new.type = child.type
        /\ new.addr = Top.addr + child.at /\ new.end = 0
    <3>1. Top.addr + child.at \in Nat
      BY <2>2, <1>1, SMTT(30)
    <3> QED
      BY <3>1, <2>2, CallType
  <2>6. more \in Seq(Cell)
    BY <2>2, <1>1, PaddingType
  <2> HIDE DEF top, new, child, more
  <2>7. /\ s \in Seq(Frame) /\ Len(s) = m /\ s[m] = top /\ \A k \in 1..(m - 1) : s[k] = calls[k]
        /\ Len(calls') = m + 1 /\ calls'[m + 1] = new /\ \A k \in 1..m : calls'[k] = s[k]
    <3>1. s \in Seq(Frame) /\ Len(s) = m /\ s[m] = top /\ \A k \in 1..(m - 1) : s[k] = calls[k]
      BY <2>4, <1>1
    <3> HIDE DEF s
    <3> QED
      BY <3>1, <2>3, <2>5, <1>1, AppendProperties
  <2>0. Len(calls) = m
    OBVIOUS
  <2> HIDE DEF s, m
  <2>8. ASSUME StackKept(was, calls) PROVE StackKept(was \o more, calls')
    <3> DEFINE cells == was \o more
               c == Children(Top.type)
    <3>1. StackKept(cells, calls)
      BY <2>8, <2>6, <1>3, WritingKeeps, StackStaysKept
    <3> HIDE DEF cells
    <3>2. \A k \in 1..m : CallKept(cells, calls, k)
      BY <3>1 DEF StackKept, m
    <3>3. UnionsCovered[Top.type]
      BY <2>8, <1>4, <1>1 DEF CallKept
    <3>4. /\ UnionsCovered[child.type]
          /\ \A j \in 1..Len(c) : c[j].at = child.at => Live[c[j].type] \subseteq Live[child.type]
      BY <3>3, <2>1, <2>2, <1>1, ChosenCovers DEF child
    <3>5. \A j \in 1..Len(c) : \/ c[j].at \in Top.todo
                               \/ ObjectKept(cells, Top.addr + c[j].at, c[j].type)
      <4>1. CallKept(cells, calls, m) /\ ~ (m < Len(calls))
        BY <3>2, <1>1 DEF m
      <4> QED
        BY <4>1, <2>2, <1>1 DEF CallKept
    <3>6. CallKept(cells, calls', m + 1)
      BY <2>5, <2>7, <3>4 DEF CallKept
    <3>7. CallKept(cells, calls', m)
      <4>1. m \in 1..m /\ m < Len(calls')
        BY <2>7, <1>1
      <4>2. calls'[m] = top /\ calls'[m + 1] = new
        BY <4>1, <2>7
      <4>3. \A j \in 1..Len(c) : c[j].at = child.at => InCall(top, c[j], new)
        BY <3>4, <2>4, <2>5 DEF InCall
      <4>4. \A j \in 1..Len(c) : \/ c[j].at \in top.todo
                                 \/ ObjectKept(cells, top.addr + c[j].at, c[j].type)
                                 \/ InCall(top, c[j], new)
        BY <4>3, <3>5, <2>4
      <4> QED
        BY <4>1, <4>2, <4>4, <3>3, <2>4 DEF CallKept
    <3>8. ASSUME NEW k \in 1..(m - 1) PROVE CallKept(cells, calls', k)
      <4>1. k \in 1..m /\ k + 1 \in 1..m /\ k < Len(calls) /\ k < Len(calls')
        BY <1>1, <2>0, <2>7, SMTT(30)
      <4>2. calls'[k] = calls[k]
        BY <4>1, <2>7
      <4>3. calls'[k + 1].addr = calls[k + 1].addr /\ calls'[k + 1].type = calls[k + 1].type
        <5>1. k + 1 = m \/ k + 1 \in 1..(m - 1)
          BY <1>1
        <5> QED
          BY <5>1, <4>1, <2>4, <2>7, <1>1
      <4>4. \A x : InCall(calls[k], x, calls[k + 1]) => InCall(calls'[k], x, calls'[k + 1])
        BY <4>2, <4>3 DEF InCall
      <4>5. CallKept(cells, calls, k)
        BY <3>2, <4>1
      <4> QED
        BY <4>1, <4>2, <4>4, <4>5 DEF CallKept
    <3>9. \A k \in 1..Len(calls') : k = m + 1 \/ k = m \/ k \in 1..(m - 1)
      BY <2>7, <1>1
    <3> QED
      BY <3>6, <3>7, <3>8, <3>9 DEF StackKept, cells
  <2>9. calls' # << >>
    BY <2>7, <1>1
  <2> QED
    BY <2>3, <2>6, <2>8, <2>9, <1>6
<1> QED
  BY <1>7, <1>8, <1>9, <1>10, <1>11, <1>12 DEF WalkStep

\* The loops over the symbols lose no value either.
LEMMA KeepLoops ==
  ASSUME TypeOK, PlaceInv, KeepInv,
         RegisterSym \/ EmitFilePrologue \/ EmitOneSym \/ EmitFileEpilogue
         \/ UnresolvedPointer \/ Returned \/ UNCHANGED vars
  PROVE  KeepInv'
<1>1. CASE UNCHANGED <<syms, calls, output>>
  BY <1>1 DEF KeepInv, Finished, L
<1>2. CASE EmitOneSym
  <2> DEFINE sym == syms[next]
             new == [name |-> sym.name, align |-> findAlignment(sym), image |-> << >>,
                     size |-> IF sym.type.kind = "pointer" THEN AddrSize ELSE sym.type.size]
             call == Call("emitObject", sym.type, sym.addr, {})
  <2>1. /\ next \in 1..Len(syms) /\ Len(syms) \in Nat /\ calls = << >>
        /\ pc # "registerKnownSyms" /\ syms' = syms
    BY <1>2, SymsType DEF EmitOneSym, TypeOK
  <2>2. sym.name \in Names /\ sym.type \in Types /\ sym.addr \in Nat /\ sym.type.size \in Nat
    BY <2>1, SymsType, TypesAssumption
  <2>3. new \in Labelled /\ new.image = << >>
    BY <2>2, EmitAssumption DEF Labelled, findAlignment
  <2>4. call.addr = sym.addr /\ call.type = sym.type /\ call.fn = "emitObject" /\ call.end = 0
    BY <2>2, CallType
  <2>5. output' = Append(output, new) /\ calls' = <<call>>
    BY <1>2 DEF EmitOneSym
  <2> HIDE DEF sym, new, call
  <2>6. L = next - 1 /\ L \in Nat /\ output \in Seq(Labelled)
    BY <2>1 DEF PlaceInv, Labels, TypeOK, L
  <2>7. L' = L + 1 /\ output'[L + 1] = new /\ \A k \in 1..L : output'[k] = output[k]
    BY <2>3, <2>5, <2>6, AppendProperties DEF L
  <2>8. L + 1 = next
    BY <2>1, <2>6
  <2>9. ASSUME UnionsCovered[sym.type] PROVE StackKept(<< >>, calls')
    <3>1. Len(calls') = 1 /\ calls'[1] = call /\ 0..(0 - 1) = {}
      BY <2>5
    <3>2. CallKept(<< >>, calls', 1)
      BY <2>9, <3>1, <2>4 DEF CallKept
    <3> QED
      BY <3>1, <3>2 DEF StackKept
  <2>10. ASSUME NEW k \in 1..(L + 1), UnionsCovered[syms[k].type]
         PROVE  IF k < L + 1 \/ calls' = << >>
                THEN ObjectKept(output'[k].image, syms[k].addr, syms[k].type)
                ELSE StackKept(output'[k].image, calls')
    <3>1. CASE k = L + 1
      <4>1. UnionsCovered[sym.type] /\ output'[k].image = << >> /\ calls' # << >> /\ ~ (k < L + 1)
        BY <3>1, <2>3, <2>5, <2>6, <2>7, <2>8, <2>10 DEF sym
      <4> QED
        BY <4>1, <2>9
    <3>2. CASE k \in 1..L
      <4>1. k < L + 1 /\ output'[k] = output[k]
        BY <3>2, <2>6, <2>7
      <4>2. ObjectKept(output[k].image, syms[k].addr, syms[k].type)
        BY <3>2, <2>1, <2>10 DEF KeepInv, Finished
      <4> QED
        BY <4>1, <4>2
    <3> QED
      BY <3>1, <3>2, <2>6
  <2>11. \A k : Finished(k)' <=> k < L + 1 \/ calls' = << >>
    BY <2>7 DEF Finished, L
  <2> QED
    BY <2>1, <2>7, <2>10, <2>11 DEF KeepInv
<1> QED
  BY <1>1, <1>2 DEF RegisterSym, EmitFilePrologue, EmitFileEpilogue, UnresolvedPointer, Returned, vars

LEMMA KeepInit == Init => KeepInv
  BY DEF Init, KeepInv, L

LEMMA KeepStep ==
  ASSUME Laid
  PROVE  TypeOK /\ PlaceInv /\ KeepInv /\ [Next]_vars => KeepInv'
  BY KeepLoops, KeepWalk DEF Next, WalkStep

\* A laid-out object whose unions allow for it is emitted with every value it
\* has: none falls under the padding before, between or behind the children, nor
\* is lost with the member of a union that is not emitted.
THEOREM NothingEverLost ==
  ASSUME Laid
  PROVE  Spec => []NothingLost
<1>1. ASSUME TypeOK, PlaceInv, KeepInv PROVE NothingLost
  <2> SUFFICES ASSUME NEW k \in 1..L, Finished(k), UnionsCovered[syms[k].type],
                      NEW b \in Live[syms[k].type]
               PROVE  b + 1 \in 1..Len(output[k].image) /\ output[k].image[b + 1].what # "zero"
    BY DEF NothingLost, L
  <2>1. Kept(output[k].image, syms[k].addr + b)
    BY <1>1 DEF KeepInv, ObjectKept
  <2>2. PICK i \in 1..Len(output[k].image) :
          output[k].image[i].of = syms[k].addr + b /\ output[k].image[i].what # "zero"
    BY <2>1 DEF Kept
  <2>3. output[k].image[i].of = syms[k].addr + i - 1
    BY <1>1 DEF PlaceInv, InPlace, L
  <2>4. k \in 1..Len(syms)
    BY <1>1 DEF PlaceInv, Labels
  <2>5. syms[k].addr \in Nat /\ syms[k].type \in Types
    BY <1>1, <2>4, SymsType
  <2>6. b \in Nat /\ i \in Int
    BY <2>5, LiveUnfolds
  <2> DEFINE a == syms[k].addr
  <2>7. a + b = a + i - 1 /\ a \in Nat
    BY <2>2, <2>3, <2>5
  <2> HIDE DEF a
  <2>8. i = b + 1
    BY <2>6, <2>7
  <2> QED
    BY <2>2, <2>8
<1> QED
  BY TypeCorrect, PlaceInit, PlaceStep, KeepInit, KeepStep, <1>1, PTL DEF Spec
------------------------------------------------------------------------------
(* For those that run the emitter *)

\* The invariants together: kept by every step, whatever the lists of symbols
\* and the memories are that TypeOK speaks of.
EmitInv == TypeOK /\ PlaceInv /\ PointerInv /\ KeepInv

LEMMA EmitInvInit == Init => EmitInv
  BY TypeInit, PlaceInit, PointerInit, KeepInit DEF EmitInv

LEMMA EmitInvStep ==
  ASSUME Laid
  PROVE  EmitInv /\ [Next]_vars => EmitInv'
  BY TypeStep, PlaceStep, PointerStep, KeepStep DEF EmitInv

\* What is below the label of symbol k in the end.
ObjectEmitted(k) ==
  /\ output[k].name = syms[k].name /\ output[k].size = syms[k].type.size
  /\ Len(output[k].image) = syms[k].type.size
  /\ \A i \in 1..Len(output[k].image) :
       /\ output[k].image[i].of = syms[k].addr + i - 1
       /\ CellRight(output[k].image[i])
       /\ UnionsCovered[syms[k].type] /\ i - 1 \in Live[syms[k].type] => output[k].image[i].what # "zero"

LEMMA AllEmitted ==
  ASSUME EmitInv, pc = "done"
  PROVE  Len(output) = Len(syms) /\ \A k \in 1..Len(syms) : ObjectEmitted(k)
<1>1. TypeOK /\ PlaceInv /\ PointerInv /\ KeepInv
  BY DEF EmitInv
<1>2. calls = << >> /\ L = Len(syms)
  BY <1>1, SymsType DEF PlaceInv, Labels
<1>3. ASSUME NEW k \in 1..Len(syms) PROVE ObjectEmitted(k)
  <2>1. k \in 1..L /\ Finished(k)
    BY <1>2 DEF Finished
  <2>2. output[k].name = syms[k].name /\ output[k].size = syms[k].type.size
    BY <1>1, <2>1 DEF PlaceInv, Labels
  <2>3. Len(output[k].image) = syms[k].type.size
    BY <1>1, <2>1, <2>2 DEF PlaceInv, SizeRight, L
  <2>4. ASSUME NEW i \in 1..Len(output[k].image) PROVE output[k].image[i].of = syms[k].addr + i - 1
    BY <1>1, <2>1 DEF PlaceInv, InPlace, L
  <2>5. ASSUME NEW i \in 1..Len(output[k].image) PROVE CellRight(output[k].image[i])
    BY <1>1, <2>1 DEF PointerInv, AllRight
  <2>6. ASSUME NEW i \in 1..Len(output[k].image), UnionsCovered[syms[k].type], i - 1 \in Live[syms[k].type]
        PROVE  output[k].image[i].what # "zero"
    <3>1. Kept(output[k].image, syms[k].addr + (i - 1))
      BY <1>1, <2>1, <2>6 DEF KeepInv, ObjectKept
    <3>2. PICK j \in 1..Len(output[k].image) :
            output[k].image[j].of = syms[k].addr + (i - 1) /\ output[k].image[j].what # "zero"
      BY <3>1 DEF Kept
    <3>3. output[k].image[j].of = syms[k].addr + j - 1
      BY <2>4
    <3> DEFINE a == syms[k].addr
    <3>4. a \in Nat
      BY <1>1, SymsType
    <3>5. a + (i - 1) = a + j - 1
      BY <3>2, <3>3
    <3> HIDE DEF a
    <3>6. i = j
      BY <3>4, <3>5
    <3> QED
      BY <3>2, <3>6
  <2> QED
    BY <2>2, <2>3, <2>4, <2>5, <2>6 DEF ObjectEmitted
<1> QED
  BY <1>2, <1>3 DEF L

==============================================================================
