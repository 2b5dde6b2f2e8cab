----------------------------- MODULE DWARFType -----------------------------
(***************************************************************************)
(* getVariableType of lib/Binfmt/DWARFType.cpp: from the DIEs of a unit    *)
(* to the type of a variable.  The functions call each other along the     *)
(* DW_AT_type references; `calls` is the C++ stack, `at` the DIE given to  *)
(* getTypeFromTypeDie, `value` what a function returned.                   *)
(*                                                                         *)
(* A DIE is a record of the attributes that are read, each a number or     *)
(* Absent.  A type is what EmitAsm takes: a record with a kind and a size. *)
(***************************************************************************)
EXTENDS Integers, Sequences, FiniteSets

CONSTANTS Infos,      \* vectors of DIEs, as DWARFReader reads them
          Absent,     \* an attribute that is not there
          Null,       \* a null pointer
          StackLimit  \* calls the C++ stack has room for

NatOrAbsent == Nat \cup {Absent}

DIEs == [tag: STRING, offset: Nat, childrenOffsets: Seq(Nat), named: BOOLEAN,
         type: NatOrAbsent, byteSize: NatOrAbsent, count: NatOrAbsent, location: NatOrAbsent]

ASSUME InfosAssumption ==
  /\ Absent \notin Nat
  /\ StackLimit \in Nat
  /\ \A info \in Infos : info \in Seq(DIEs)

VARIABLES debugInfo,  \* the DIEs, chosen once
          pc,         \* what runs: a call, a return, a loop, or how it all ended
          at,         \* index of the DIE a type is to be made of
          value,      \* the type returned last
          calls       \* the functions waiting for a type, innermost last

vars == <<debugInfo, pc, at, value, calls>>

Init ==
  /\ debugInfo \in Infos
  /\ pc = "getVariableType" /\ at = 0 /\ value = Null /\ calls = << >>

------------------------------------------------------------------------------
(* getDIEFromOffset, getAttributeIfPresent, getTypeDieFromDie *)

Indices == 1..Len(debugInfo)

\* The first DIE at an offset, 0 if there is none.
DIEAt(offset) ==
  IF \E i \in Indices : debugInfo[i].offset = offset
  THEN CHOOSE i \in Indices : /\ debugInfo[i].offset = offset
                              /\ \A j \in 1..(i - 1) : debugInfo[j].offset # offset
  ELSE 0

TypeDieOf(i) == IF debugInfo[i].type = Absent THEN 0 ELSE DIEAt(debugInfo[i].type)

BaseType(n)          == [kind |-> "base", size |-> n]
PointerType          == [kind |-> "pointer", size |-> 8]
ArrayType(t, n)      == [kind |-> "array", size |-> n * t.size, elem |-> t, num |-> n]
StructType(n, ms)    == [kind |-> "compound", size |-> n, members |-> ms]

CallTypeDie(i) == pc' = "getTypeFromTypeDie" /\ at' = i /\ UNCHANGED value
Return(v)      == pc' = "return" /\ value' = v /\ UNCHANGED at
End(how)       == pc' = how /\ UNCHANGED <<at, value, calls>>

Entering(tags) == pc = "getTypeFromTypeDie" /\ debugInfo[at].tag \in tags

Top       == calls[Len(calls)]
Below     == SubSeq(calls, 1, Len(calls) - 1)
InLoop    == pc = "members" /\ calls # << >>
Back(fn)  == pc = "return" /\ calls # << >> /\ Top.fn = fn

\* A function that waits for the type of another DIE stays on the stack.
Push(fn) ==
  calls' = Append(calls, [fn |-> fn, die |-> at, children |-> debugInfo[at].childrenOffsets, members |-> << >>])

HasRoom == Len(calls) < StackLimit

------------------------------------------------------------------------------
(* getVariableType *)

IsNamed(i) == debugInfo[i].tag = "variable" /\ debugInfo[i].named

\* The first variable of that name, wherever in the tree it is; 0 if none.
Found ==
  IF \E i \in Indices : IsNamed(i)
  THEN CHOOSE i \in Indices : IsNamed(i) /\ \A j \in 1..(i - 1) : ~IsNamed(j)
  ELSE 0

GetVariableType ==
  /\ pc = "getVariableType"
  /\ IF Found = 0 \/ TypeDieOf(Found) = 0 THEN End("done") ELSE CallTypeDie(TypeDieOf(Found)) /\ UNCHANGED calls
  /\ UNCHANGED debugInfo

ReturnVariableType ==
  /\ pc = "return" /\ calls = << >>
  /\ End("done")
  /\ UNCHANGED debugInfo

------------------------------------------------------------------------------
(* getTypeFromTypeDie *)

\* Mutant of Typedef: a typedef is like any tag that is not supported.
TypedefUnsupported == Entering({"typedef"}) /\ End("abort") /\ UNCHANGED debugInfo

\* The assertion "typedef DIE's DW_AT_type did not point to a valid type".
Typedef ==
  /\ Entering({"typedef"})
  /\ IF TypeDieOf(at) = 0 THEN End("abort") ELSE CallTypeDie(TypeDieOf(at)) /\ UNCHANGED calls
  /\ UNCHANGED debugInfo

Compounds == {"structure_type", "class_type", "union_type"}

\* The assertion "only base_type is currently supported".
Unsupported ==
  /\ pc = "getTypeFromTypeDie"
  /\ debugInfo[at].tag \notin {"typedef", "base_type", "array_type", "pointer_type"} \cup Compounds
  /\ End("abort")
  /\ UNCHANGED debugInfo

Base ==
  /\ Entering({"base_type"})
  /\ Return(IF debugInfo[at].byteSize = Absent THEN Null ELSE BaseType(debugInfo[at].byteSize))
  /\ UNCHANGED <<debugInfo, calls>>

\* The guard page is hit.
Overflow ==
  /\ Entering({"array_type", "pointer_type"} \cup Compounds) /\ ~HasRoom
  /\ End("overflow")
  /\ UNCHANGED debugInfo

------------------------------------------------------------------------------
(* getTypeFromArrayDie *)

EnterArray ==
  /\ Entering({"array_type"}) /\ HasRoom
  /\ IF TypeDieOf(at) = 0 THEN Return(Null) /\ UNCHANGED calls
     ELSE Push("array") /\ CallTypeDie(TypeDieOf(at))
  /\ UNCHANGED debugInfo

\* The first child is read whether there is one or not, and has to be a subrange;
\* the other dimensions are not looked at.
LeaveArray ==
  /\ Back("array")
  /\ LET subrange == IF Top.children = << >> THEN 0 ELSE DIEAt(Top.children[1]) IN
       \/ value = Null /\ Return(Null) /\ calls' = Below
       \/ value # Null /\ Top.children = << >> /\ End("segv")
       \/ value # Null /\ subrange # 0 /\ debugInfo[subrange].tag # "subrange_type" /\ End("abort")
       \/ /\ value # Null /\ subrange # 0 /\ debugInfo[subrange].tag = "subrange_type"
          /\ Return(IF debugInfo[subrange].count = Absent THEN Null
                    ELSE ArrayType(value, debugInfo[subrange].count))
          /\ calls' = Below
       \/ value # Null /\ Top.children # << >> /\ subrange = 0 /\ Return(Null) /\ calls' = Below
  /\ UNCHANGED debugInfo

------------------------------------------------------------------------------
(* getTypeFromStructTypeDie *)

EnterStruct ==
  /\ Entering(Compounds) /\ HasRoom
  /\ IF debugInfo[at].byteSize = Absent THEN Return(Null) /\ UNCHANGED calls
     ELSE Push("struct") /\ pc' = "members" /\ UNCHANGED <<at, value>>
  /\ UNCHANGED debugInfo

Child == DIEAt(Top.children[1])

IsMember == /\ Child # 0 /\ debugInfo[Child].tag = "member"
            /\ debugInfo[Child].location # Absent /\ TypeDieOf(Child) # 0

\* A nested type, a member function or a static member makes the struct null.
NotAMember ==
  /\ InLoop /\ Top.children # << >> /\ ~IsMember
  /\ Return(Null) /\ calls' = Below
  /\ UNCHANGED debugInfo

EnterMember ==
  /\ InLoop /\ Top.children # << >> /\ IsMember
  /\ CallTypeDie(TypeDieOf(Child))
  /\ UNCHANGED <<debugInfo, calls>>

\* The member's type is stored whether it is null or not.
LeaveMember ==
  /\ Back("struct")
  /\ calls' = [calls EXCEPT ![Len(calls)].children = Tail(@),
                            ![Len(calls)].members = Append(@, [type |-> value, at |-> debugInfo[Child].location])]
  /\ pc' = "members"
  /\ UNCHANGED <<debugInfo, at, value>>

\* std::sort may leave members at one offset in any order.
Sorted(ms) ==
  {s \in [1..Len(ms) -> {ms[i] : i \in 1..Len(ms)}] :
     /\ \A i, j \in 1..Len(ms) : i < j => s[i].at <= s[j].at
     /\ \A m \in {ms[i] : i \in 1..Len(ms)} :
          Cardinality({i \in 1..Len(ms) : s[i] = m}) = Cardinality({i \in 1..Len(ms) : ms[i] = m})}

\* Mutant of LeaveStruct: the members keep the order of the debug info.
LeaveUnsorted ==
  /\ InLoop /\ Top.children = << >>
  /\ Return(StructType(debugInfo[Top.die].byteSize, Top.members))
  /\ calls' = Below
  /\ UNCHANGED debugInfo

LeaveStruct ==
  /\ InLoop /\ Top.children = << >>
  /\ \E ms \in Sorted(Top.members) : Return(StructType(debugInfo[Top.die].byteSize, ms))
  /\ calls' = Below
  /\ UNCHANGED debugInfo

------------------------------------------------------------------------------
(* getTypeFromPointerTypeDie *)

\* void * has no DW_AT_type: a null reference is passed on.
EnterPointer ==
  /\ Entering({"pointer_type"}) /\ HasRoom
  /\ IF TypeDieOf(at) = 0 THEN End("segv") ELSE Push("pointer") /\ CallTypeDie(TypeDieOf(at))
  /\ UNCHANGED debugInfo

\* The type pointed to is kept, null or not, but nothing reads it.
LeavePointer ==
  /\ Back("pointer")
  /\ Return(PointerType) /\ calls' = Below
  /\ UNCHANGED debugInfo

------------------------------------------------------------------------------
Ended == {"done", "abort", "segv", "overflow"}

Returned == pc \in Ended /\ UNCHANGED vars

Next ==
  \/ GetVariableType \/ ReturnVariableType
  \/ Typedef \/ Unsupported \/ Base \/ Overflow
  \/ EnterArray \/ LeaveArray
  \/ EnterStruct \/ NotAMember \/ EnterMember \/ LeaveMember \/ LeaveStruct
  \/ EnterPointer \/ LeavePointer
  \/ Returned

Spec == Init /\ [][Next]_vars

------------------------------------------------------------------------------
(* Properties *)

VariableType == IF Found = 0 THEN 0 ELSE TypeDieOf(Found)

ChildrenOf(i) == [k \in 1..Len(debugInfo[i].childrenOffsets) |-> DIEAt(debugInfo[i].childrenOffsets[k])]

SubrangesOK(i) ==
  LET c == ChildrenOf(i) IN
  c # << >> /\ \A k \in 1..Len(c) : /\ c[k] # 0 /\ debugInfo[c[k]].tag = "subrange_type"
                                    /\ debugInfo[c[k]].count # Absent

MemberDIE(c) == /\ c # 0 /\ debugInfo[c].tag = "member"
                /\ debugInfo[c].location # Absent /\ TypeDieOf(c) # 0

MembersOK(i) ==
  LET c == ChildrenOf(i) IN \A k \in 1..Len(c) : MemberDIE(c[k])

\* The elements of an array of any number of dimensions.
NumElements(i) ==
  LET c == ChildrenOf(i)
      upTo[k \in 0..Len(c)] == IF k = 0 THEN 1 ELSE upTo[k - 1] * debugInfo[c[k]].count
  IN  upTo[Len(c)]

\* The types that say what a DIE means in C; there is none if something is
\* missing, and more than one if members share an offset.  The attributes are those
\* clang writes: the size of an array is a count (gcc writes the last index instead,
\* DW_AT_upper_bound), and every member has a location (which gcc omits in unions).
\* What is written otherwise has no meaning here; the reader makes a null type of it.
Meaning[i \in Indices] ==
  LET die == debugInfo[i]
      c   == ChildrenOf(i)
  IN  IF die.tag = "typedef" /\ TypeDieOf(i) # 0 THEN Meaning[TypeDieOf(i)]
      ELSE IF die.tag = "base_type" /\ die.byteSize # Absent THEN {BaseType(die.byteSize)}
      ELSE IF die.tag = "pointer_type" THEN {PointerType}
      ELSE IF die.tag = "array_type" /\ TypeDieOf(i) # 0 /\ SubrangesOK(i) THEN
           {ArrayType(t, NumElements(i)) : t \in Meaning[TypeDieOf(i)]}
      ELSE IF die.tag \in Compounds /\ die.byteSize # Absent /\ MembersOK(i) THEN
           LET types == UNION {Meaning[TypeDieOf(c[k])] : k \in 1..Len(c)}
               lists == {[k \in 1..Len(c) |-> [type |-> f[k], at |-> debugInfo[c[k]].location]] :
                           f \in {g \in [1..Len(c) -> types] :
                                    \A k \in 1..Len(c) : g[k] \in Meaning[TypeDieOf(c[k])]}}
           IN  {StructType(die.byteSize, ms) : ms \in UNION {Sorted(l) : l \in lists}}
      ELSE {}

\* A type handed to the emitter is what the program means by the variable's type.
TypeRight == pc = "done" /\ value # Null => value \in Meaning[VariableType]

\* The DIEs whose types a type is made of, or points to.
Refs(i) == ({TypeDieOf(i)} \cup {TypeDieOf(c) : c \in {ChildrenOf(i)[k] : k \in 1..Len(ChildrenOf(i))} \ {0}}) \ {0}

\* Those reached from i by n references.
Within(i) ==
  LET within[n \in 0..Len(debugInfo)] == IF n = 0 THEN {i} ELSE UNION {Refs(j) : j \in within[n - 1]}
  IN  within

Reachable(i) == UNION {Within(i)[n] : n \in 0..Len(debugInfo)}
Recursive(i) == Within(i)[Len(debugInfo)] # {}

\* No array of more than one dimension, and no member without a type the reader can make.
MembersKnown(i) ==
  \A j \in Reachable(i) :
    /\ debugInfo[j].tag = "array_type" => Len(debugInfo[j].childrenOffsets) <= 1
    /\ debugInfo[j].tag \in Compounds =>
         \A k \in 1..Len(ChildrenOf(j)) : \A t \in Refs(ChildrenOf(j)[k]) : Meaning[t] # {}

\* The reader cannot go on from these: a tag it does not know, a type it takes for granted.
Fatal(i) ==
  \/ debugInfo[i].tag \notin {"typedef", "base_type", "array_type", "pointer_type"} \cup Compounds
  \/ debugInfo[i].tag \in {"typedef", "pointer_type"} /\ TypeDieOf(i) = 0

\* A type that has one of them, or itself, below it.
Doomed(i) == Recursive(i) \/ \E j \in Reachable(i) : Fatal(j)

\* The types the reader asks for to make one: those of the members up to the first
\* child that is none.
Asked(i) ==
  LET die == debugInfo[i]
      c   == ChildrenOf(i)
  IN  IF die.tag \in {"typedef", "array_type", "pointer_type"} THEN {TypeDieOf(i)} \ {0}
      ELSE IF die.tag \in Compounds /\ die.byteSize # Absent THEN
           {TypeDieOf(c[k]) : k \in {l \in 1..Len(c) : \A m \in 1..l : MemberDIE(c[m])}}
      ELSE {}

\* Whatever else it refers to, such as the type of an index, would do no harm; arrays
\* have their sizes first.
Orderly(i) ==
  \A j \in Reachable(i) :
    /\ \A t \in Refs(j) \ Asked(j) : ~Doomed(t)
    /\ debugInfo[j].tag = "array_type" /\ TypeDieOf(j) # 0 =>
         LET c == ChildrenOf(j) IN c # << >> /\ (c[1] # 0 => debugInfo[c[1]].tag = "subrange_type")

\* TypeRight holds for them: a member out of order in the debug info, an empty
\* or incomplete type, a typedef of a typedef are no problem.
KnownTypeRight == pc = "done" /\ VariableType # 0 /\ MembersKnown(VariableType) => TypeRight

\* A type without recursion, all of which can be described, pointers included,
\* is never refused and never the end of the process.
CompleteTypeResolved ==
  pc \in Ended /\ VariableType # 0 /\ ~Recursive(VariableType)
  /\ (\A j \in Reachable(VariableType) :
        /\ Meaning[j] # {}
        /\ debugInfo[j].tag = "pointer_type" => TypeDieOf(j) # 0)
  => pc = "done" /\ value # Null

\* A type with nothing below it that the reader cannot go on from is never the end of
\* the process, however its parts refer to each other; and if what its members are made
\* of is known, or all of it, and it means something, then it is not refused either.
ResolvedUnlessDoomed ==
  pc \in Ended /\ VariableType # 0 /\ Orderly(VariableType) /\ ~Doomed(VariableType) =>
    /\ pc = "done"
    /\ /\ Meaning[VariableType] # {}
       /\ MembersKnown(VariableType) \/ \A j \in Reachable(VariableType) : Meaning[j] # {}
       => value # Null

\* No recursion of the program's types exhausts the stack.
NoOverflow == pc # "overflow"
==============================================================================
