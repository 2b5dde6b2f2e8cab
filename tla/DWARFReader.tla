----------------------------- MODULE DWARFReader -----------------------------
(***************************************************************************)
(* DWARFReader of lib/Binfmt/DWARF.cpp: the abbreviation table, the header *)
(* of the first compilation unit, and the loop that turns its bytes into   *)
(* the vector of DIEs, with a stack of the DIEs whose children are being   *)
(* read.  One action per iteration of each loop and per way out of it.     *)
(***************************************************************************)
EXTENDS CompileUnit

CONSTANTS Units,       \* the units the reader may be given
          ObjAddrSize  \* address size of the object file, 4 or 8

ASSUME UnitsAssumption ==
  /\ ObjAddrSize \in {4, 8}
  /\ \A u \in Units :
       /\ u.abbrevs \in Seq(Declarations)
       /\ u.entries \in Seq(Entries)
       /\ u.body \in Seq(Nat)
       /\ u.beyond \in Nat /\ u.length \in Nat

VARIABLES unit,        \* the input, chosen once
          pc,          \* which function is running, or how reading ended
          abbrevTable, \* abbreviation c is abbrevTable[c + 1]; the first one is fake
          cursor,      \* position in unit.body of the next byte to read
          parentDIEs,  \* offsets of the DIEs whose children are being read, innermost last
          debugInfo    \* the DIEs read

vars == <<unit, pc, abbrevTable, cursor, parentDIEs, debugInfo>>

Ended == {"done", "error", "abort", "segv"}

\* Mutant of FakeAbbrev: not initialised.
WildAbbrev == [code |-> 0, tag |-> "garbage", children |-> FALSE, width |-> 0]

\* The fake abbreviation 0 is value-initialised: no attributes, no children.
FakeAbbrev == [code |-> 0, tag |-> Padding, children |-> FALSE, width |-> 0]

Init ==
  /\ unit \in Units
  /\ pc = "readAbbrevTable"
  /\ abbrevTable = <<FakeAbbrev>>
  /\ cursor = 1
  /\ parentDIEs = << >>
  /\ debugInfo = << >>

------------------------------------------------------------------------------
(* readAbbrevTable *)

expectedCode == Len(abbrevTable)

\* getSection returned nullptr (an object without -g); nobody looks before reading it.
MissingSections ==
  /\ pc = "readAbbrevTable" /\ ~unit.hasSections
  /\ pc' = "segv"
  /\ UNCHANGED <<unit, abbrevTable, cursor, parentDIEs, debugInfo>>

ReadAbbrev ==
  /\ pc = "readAbbrevTable" /\ unit.hasSections
  /\ expectedCode <= Len(unit.abbrevs)
  /\ unit.abbrevs[expectedCode].code = expectedCode
  /\ abbrevTable' = Append(abbrevTable, unit.abbrevs[expectedCode])
  /\ UNCHANGED <<unit, pc, cursor, parentDIEs, debugInfo>>

UnexpectedAbbrev ==
  /\ pc = "readAbbrevTable" /\ unit.hasSections
  /\ expectedCode <= Len(unit.abbrevs)
  /\ unit.abbrevs[expectedCode].code # expectedCode
  /\ pc' = "error"
  /\ UNCHANGED <<unit, abbrevTable, cursor, parentDIEs, debugInfo>>

EndOfAbbrevs ==
  /\ pc = "readAbbrevTable" /\ unit.hasSections
  /\ expectedCode > Len(unit.abbrevs)
  /\ pc' = "readHeader"
  /\ UNCHANGED <<unit, abbrevTable, cursor, parentDIEs, debugInfo>>

------------------------------------------------------------------------------
(* readDebugInfo *)

\* The abbreviation offset is read as 4 bytes also in the 64-bit format, where
\* it has 8: what is taken for the address size is then one of its high bytes.
AddrSizeRead == IF unit.dwarf64 THEN 0 ELSE unit.addrSize

\* Mutant of HeaderOK: version 4 is refused.
HeaderOK3 ==
  /\ unit.dwarf64 \/ unit.length < ReservedLength
  /\ unit.length >= HeaderSize /\ unit.version < 4 /\ AddrSizeRead = ObjAddrSize

HeaderOK ==
  /\ unit.dwarf64 \/ unit.length < ReservedLength
  /\ unit.length >= HeaderSize
  /\ unit.version <= 4
  /\ AddrSizeRead = ObjAddrSize

ReadHeader ==
  /\ pc = "readHeader"
  /\ pc' = IF HeaderOK THEN "readOneDIE" ELSE "error"
  /\ UNCHANGED <<unit, abbrevTable, cursor, parentDIEs, debugInfo>>

\* Mutants of End: after the unit, and one byte too early.
EndAfter == unit.length - HeaderSize + 1
EndEarly == unit.length - HeaderSize - 1

\* `end` points at the last byte of the unit, not after it.
End == unit.length - HeaderSize

\* Mutant of EndOfInfo: the assertion is not there.
EndOfInfoUnchecked ==
  /\ pc = "readOneDIE" /\ cursor >= End
  /\ pc' = "done"
  /\ UNCHANGED <<unit, abbrevTable, cursor, parentDIEs, debugInfo>>

\* The assertion at the end of readDebugInfo: every children list was closed.
EndOfInfo ==
  /\ pc = "readOneDIE" /\ cursor >= End
  /\ pc' = IF parentDIEs = << >> THEN "done" ELSE "abort"
  /\ UNCHANGED <<unit, abbrevTable, cursor, parentDIEs, debugInfo>>

------------------------------------------------------------------------------
(* readOneDIE *)

Byte(p) == IF p \in 1..Len(unit.body) THEN unit.body[p] ELSE unit.beyond

Top(s) == s[Len(s)]

Pop(s) == SubSeq(s, 1, Len(s) - 1)

\* getDIEFromOffset: the first DIE with this offset.
HasDIE(o)   == \E i \in 1..Len(debugInfo) : debugInfo[i].offset = o
DIEIndex(o) == CHOOSE i \in 1..Len(debugInfo) :
                 /\ debugInfo[i].offset = o
                 /\ \A k \in 1..(i - 1) : debugInfo[k].offset # o

\* Mutant of UnknownAbbrev: the code is ignored.
IgnoreUnknownAbbrev ==
  /\ pc = "readOneDIE" /\ cursor < End /\ Byte(cursor) >= Len(abbrevTable)
  /\ UNCHANGED vars

UnknownAbbrev ==
  /\ pc = "readOneDIE" /\ cursor < End
  /\ Byte(cursor) >= Len(abbrevTable)
  /\ pc' = "error"
  /\ UNCHANGED <<unit, abbrevTable, cursor, parentDIEs, debugInfo>>

\* The assertion "parent wasn't found, messed up somewhere" would fail here; the
\* reader is stuck in such a state.
LostParent == parentDIEs # << >> /\ ~HasDIE(Top(parentDIEs))

\* Mutant of Linked: to all open DIEs.
LinkedToAll ==
  [i \in 1..Len(debugInfo) |->
     IF \E k \in 1..Len(parentDIEs) : parentDIEs[k] = debugInfo[i].offset
     THEN [debugInfo[i] EXCEPT !.childrenOffsets = Append(@, cursor)] ELSE debugInfo[i]]

\* debugInfo with the DIE at `cursor` added to its parent's children.
Linked ==
  IF parentDIEs = << >> THEN debugInfo
  ELSE [debugInfo EXCEPT ![DIEIndex(Top(parentDIEs))].childrenOffsets = Append(@, cursor)]

\* A DIE whose abbreviation is known.  A null byte met here is read as a DIE of
\* the fake abbreviation; an end-of-children mark is consumed only right after
\* a DIE, and only one of them.
ReadDIE ==
  /\ pc = "readOneDIE" /\ cursor < End
  /\ Byte(cursor) < Len(abbrevTable)
  /\ ~LostParent
  /\ LET abbrev == abbrevTable[Byte(cursor) + 1]
         next   == cursor + 1 + abbrev.width
         opened == IF abbrev.children THEN Append(parentDIEs, cursor) ELSE parentDIEs
         mark   == opened # << >> /\ Byte(next) = 0
     IN  /\ debugInfo' = Append(Linked, [tag |-> abbrev.tag, offset |-> cursor, childrenOffsets |-> << >>])
         /\ parentDIEs' = IF mark THEN Pop(opened) ELSE opened
         /\ cursor' = IF mark THEN next + 1 ELSE next
  /\ UNCHANGED <<unit, pc, abbrevTable>>

\* The process ended or the result was returned: nothing happens any more.
Returned == pc \in Ended /\ UNCHANGED vars

Next ==
  \/ MissingSections \/ ReadAbbrev \/ UnexpectedAbbrev \/ EndOfAbbrevs
  \/ ReadHeader \/ EndOfInfo
  \/ UnknownAbbrev \/ ReadDIE
  \/ Returned

Spec == Init /\ [][Next]_vars

\* The reader is one sequential computation: it keeps going while it can.
FairSpec == Spec /\ WF_vars(Next)

------------------------------------------------------------------------------
(* Properties *)

DIE == [tag: Tags, offset: Nat, childrenOffsets: Seq(Nat)]

\* The types of the fields of DWARFReader; the table is never without entry 0.
TypeOK ==
  /\ unit \in Units
  /\ pc \in {"readAbbrevTable", "readHeader", "readOneDIE"} \cup Ended
  /\ abbrevTable \in Seq(Declarations) \ {<< >>}
  /\ cursor \in Nat \ {0}
  /\ parentDIEs \in Seq(Nat)
  /\ debugInfo \in Seq(DIE)

IsChild(o, d) == \E k \in 1..Len(d.childrenOffsets) : d.childrenOffsets[k] = o

\* Whatever the unit, the stack is a path of the tree built so far: every offset
\* on it belongs to a DIE that was read, which is a child of the one below it
\* on the stack.  The lookup of the parent in readOneDIE relies on it.
StackIsPath ==
  /\ ~LostParent
  /\ \A k \in 1..Len(parentDIEs) : HasDIE(parentDIEs[k])
  /\ \A k \in 1..(Len(parentDIEs) - 1) :
       /\ parentDIEs[k] < parentDIEs[k + 1]
       /\ IsChild(parentDIEs[k + 1], debugInfo[DIEIndex(parentDIEs[k])])

\* Whatever the unit, what readOneDIE built is a forest in document order: the
\* offsets increase, and no DIE is a child of two DIEs or of a later one.
Forest ==
  \A i, j \in 1..Len(debugInfo) :
    /\ i < j => debugInfo[i].offset < debugInfo[j].offset
    /\ IsChild(debugInfo[j].offset, debugInfo[i]) =>
         /\ i < j
         /\ \A k \in 1..Len(debugInfo) :
              IsChild(debugInfo[j].offset, debugInfo[k]) => k = i

Plain == WellFormed(unit, ObjAddrSize) /\ NoAdjacentMarks(unit)

\* The DIEs the compiler wrote are the DIEs read, as long as no two subtrees
\* end together: the i-th DIE is entry i, and its children are those the marks
\* give it (the DIEs of a unit are resolved by offset and by child offsets).
TreeRight ==
  Plain =>
    /\ Len(debugInfo) <= Len(unit.entries)
    /\ \A i \in 1..Len(debugInfo) :
         /\ debugInfo[i].offset = unit.entries[i].at
         /\ debugInfo[i].tag = DeclOf(unit, i).tag
    /\ \A i, j \in 1..Len(debugInfo) :
         IsChild(debugInfo[j].offset, debugInfo[i]) <=> IsParent(unit, i, j)
    /\ pc = "done" => Len(debugInfo) = Len(unit.entries)

\* A unit is never misread in silence: whatever subtrees end together in a
\* well-formed unit, a reader that reports success has delivered every DIE below
\* its true parent.  What makes it so is the assertion at the end of
\* readDebugInfo: a mark once missed leaves the stack too deep for good.
AcceptedTreeRight ==
  WellFormed(unit, ObjAddrSize) /\ pc = "done" =>
    /\ Len(debugInfo) = Len(unit.entries)
    /\ \A i \in 1..Len(debugInfo) : debugInfo[i].offset = unit.entries[i].at
    /\ \A i, j \in 1..Len(debugInfo) :
         IsChild(debugInfo[j].offset, debugInfo[i]) <=> IsParent(unit, i, j)

\* readOneDIE never looks at the byte after a well-formed unit, not even when
\* adjacent marks have made it lose its place in the tree.
StaysInUnit ==
  WellFormed(unit, ObjAddrSize) => cursor <= Len(unit.body) + 1

\* The assertion of readDebugInfo, on every unit: all end-of-children marks
\* were found when the unit has been read.
AllMarksFound == WellFormed(unit, ObjAddrSize) => pc # "abort"

\* A unit of which no two subtrees end together is never refused.
PlainUnitsAccepted == Plain => pc \notin {"error", "abort", "segv"}

\* The children lists as pairs of positions in debugInfo.
Edges == {e \in (1..Len(debugInfo)) \X (1..Len(debugInfo)) :
            IsChild(debugInfo[e[2]].offset, debugInfo[e[1]])}

\* Reading a plain unit implements the delivery of its tree, one DIE per step.
Tree == INSTANCE DIETree WITH plain <- Plain, delivered <- Len(debugInfo), edges <- Edges

TreeDelivered == Tree!Spec

\* Reading ends, on every input: each step of the loop moves the cursor.
Termination == <>(pc \in Ended)
==============================================================================
