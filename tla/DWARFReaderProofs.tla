------------------------- MODULE DWARFReaderProofs -------------------------
(***************************************************************************)
(* Proofs about the DWARF reader.  First what holds whatever the bytes:    *)
(* the types, the order of the DIEs, and the path on the stack.  Then, for *)
(* plain units, the correspondence of the DIEs read with the entries the   *)
(* compiler wrote, and with it the implementation of DIETree.  Last, that  *)
(* a unit which is not plain is refused, and nothing behind it is read.    *)
(***************************************************************************)
EXTENDS DWARFReader, Induction, TLAPS, SequenceTheorems

------------------------------------------------------------------------------
(* Types *)

\* The table starts with the fake abbreviation only, which is a declaration.
LEMMA TypeInit == Init => TypeOK
<1> SUFFICES ASSUME Init PROVE TypeOK
  OBVIOUS
<1>1. FakeAbbrev \in Declarations
  BY PaddingIsTag DEF FakeAbbrev, Declarations
<1>2. <<FakeAbbrev>> \in Seq(Declarations)
  BY <1>1
<1> QED
  BY <1>2 DEF Init, TypeOK, Ended

\* Inside the unit or behind it, there is a byte.
LEMMA ByteType == ASSUME TypeOK, NEW p PROVE Byte(p) \in Nat
  BY UnitsAssumption DEF TypeOK, Byte

\* Linking a DIE to its parent adds no DIE.
LEMMA LinkedType ==
  ASSUME TypeOK PROVE /\ Linked \in Seq(DIE)
                      /\ Len(Linked) = Len(debugInfo)
<1> DEFINE p == DIEIndex(Top(parentDIEs))
<1> HIDE DEF p
<1>1. Linked = IF parentDIEs = << >> THEN debugInfo
               ELSE [debugInfo EXCEPT ![p].childrenOffsets = Append(@, cursor)]
  BY DEF Linked, p
<1>2. CASE parentDIEs = << >> \/ p \notin 1..Len(debugInfo)
  <2>1. \A x : [debugInfo EXCEPT ![p] = x] = debugInfo \/ parentDIEs = << >>
    BY <1>2 DEF TypeOK
  <2> QED
    BY <1>1, <2>1 DEF TypeOK
<1>3. CASE parentDIEs # << >> /\ p \in 1..Len(debugInfo)
  <2>1. debugInfo[p] \in DIE
    BY <1>3 DEF TypeOK
  <2>2. Append(debugInfo[p].childrenOffsets, cursor) \in Seq(Nat)
    BY <2>1 DEF TypeOK, DIE
  <2>3. [debugInfo[p] EXCEPT !.childrenOffsets = Append(debugInfo[p].childrenOffsets, cursor)] \in DIE
    BY <2>1, <2>2 DEF DIE
  <2> QED
    BY <1>1, <1>3, <2>3 DEF TypeOK
<1> QED
  BY <1>2, <1>3

\* Every step keeps the types.
LEMMA TypeStep == TypeOK /\ [Next]_vars => TypeOK'
<1> SUFFICES ASSUME TypeOK, [Next]_vars PROVE TypeOK'
  OBVIOUS
<1> USE DEF TypeOK, Ended
<1>1. CASE MissingSections
  BY <1>1 DEF MissingSections
<1>2. CASE ReadAbbrev
  <2>1. unit.abbrevs \in Seq(Declarations)
    BY UnitsAssumption
  <2>2. unit.abbrevs[Len(abbrevTable)] \in Declarations
    BY <1>2, <2>1 DEF ReadAbbrev, expectedCode
  <2> QED
    BY <1>2, <2>2 DEF ReadAbbrev, expectedCode
<1>3. CASE UnexpectedAbbrev
  BY <1>3 DEF UnexpectedAbbrev
<1>4. CASE EndOfAbbrevs
  BY <1>4 DEF EndOfAbbrevs
<1>5. CASE ReadHeader
  BY <1>5 DEF ReadHeader
<1>6. CASE EndOfInfo
  BY <1>6 DEF EndOfInfo
<1>7. CASE UnknownAbbrev
  BY <1>7 DEF UnknownAbbrev
<1>8. CASE ReadDIE
  <2> DEFINE abbrev == abbrevTable[Byte(cursor) + 1]
             next   == cursor + 1 + abbrev.width
             opened == IF abbrev.children THEN Append(parentDIEs, cursor) ELSE parentDIEs
  <2>1. abbrev \in Declarations
    BY <1>8, ByteType DEF ReadDIE
  <2>2. next \in Nat \ {0}
    BY <2>1, SMTT(30) DEF Declarations
  <2>3. opened \in Seq(Nat)
    OBVIOUS
  <2>4. opened # << >> => Pop(opened) \in Seq(Nat)
    BY <2>3 DEF Pop
  <2>5. [tag |-> abbrev.tag, offset |-> cursor, childrenOffsets |-> << >>] \in DIE
    BY <2>1 DEF Declarations, DIE
  <2> HIDE DEF abbrev, opened
  <2>6. cursor' \in Nat \ {0} /\ parentDIEs' \in Seq(Nat)
    BY <1>8, <2>2, <2>3, <2>4, SMTT(30) DEF ReadDIE, abbrev, opened
  <2>7. debugInfo' \in Seq(DIE)
    BY <1>8, <2>5, LinkedType DEF ReadDIE, abbrev
  <2> QED
    BY <1>8, <2>6, <2>7 DEF ReadDIE
<1>9. CASE Returned
  BY <1>9 DEF Returned, vars
<1>10. CASE UNCHANGED vars
  BY <1>10 DEF vars
<1> QED
  BY <1>1, <1>2, <1>3, <1>4, <1>5, <1>6, <1>7, <1>8, <1>9, <1>10 DEF Next

\* The reader's variables keep their types: the cursor only moves forward, and
\* the vectors hold what readAbbrevTable and readOneDIE append.
THEOREM TypeCorrect == Spec => []TypeOK
  BY TypeInit, TypeStep, PTL DEF Spec

------------------------------------------------------------------------------
(* The tree, whatever the unit *)

\* The DIEs are in document order and behind the cursor, so that an offset
\* determines its DIE.
Ordered ==
  /\ \A i \in 1..Len(debugInfo) : debugInfo[i].offset < cursor
  /\ \A i, j \in 1..Len(debugInfo) : i < j => debugInfo[i].offset < debugInfo[j].offset

\* Every offset in a children list is the one of a later DIE, in this list only.
ChildrenLater ==
  /\ \A i \in 1..Len(debugInfo), o \in Nat :
       IsChild(o, debugInfo[i]) => \E j \in (i + 1)..Len(debugInfo) : debugInfo[j].offset = o
  /\ \A i, j \in 1..Len(debugInfo), o \in Nat :
       IsChild(o, debugInfo[i]) /\ IsChild(o, debugInfo[j]) => i = j

\* StackIsPath without the lookup function, for a stack s of DIEs of d.
Path(s, d) ==
  /\ \A k \in 1..Len(s) : \E i \in 1..Len(d) : d[i].offset = s[k]
  /\ \A k \in 1..(Len(s) - 1) :
       /\ s[k] < s[k + 1]
       /\ \E i \in 1..Len(d) : d[i].offset = s[k] /\ IsChild(s[k + 1], d[i])

TreeInv == Ordered /\ ChildrenLater /\ Path(parentDIEs, debugInfo)

\* An element of the vector is a DIE.
LEMMA DIETypes ==
  ASSUME TypeOK, NEW i \in 1..Len(debugInfo)
  PROVE  debugInfo[i] \in DIE
  BY DEF TypeOK

\* getDIEFromOffset finds the only DIE with the offset.
LEMMA IndexOfOffset ==
  ASSUME TypeOK, Ordered, NEW i \in 1..Len(debugInfo)
  PROVE  DIEIndex(debugInfo[i].offset) = i
<1> DEFINE o == debugInfo[i].offset
<1>1. \A k \in 1..Len(debugInfo) : debugInfo[k].offset \in Nat
  BY DIETypes DEF DIE
<1>2. \A k \in 1..Len(debugInfo) : debugInfo[k].offset = o => k = i
  BY <1>1 DEF Ordered
<1>3. \A k \in 1..(i - 1) : debugInfo[k].offset # o
  BY <1>2 DEF TypeOK
<1> QED
  BY <1>2, <1>3 DEF DIEIndex

\* What an iteration of readOneDIE does to the DIEs, list by list.
LEMMA ReadDIEEffect ==
  ASSUME TypeOK, ReadDIE
  PROVE  /\ Len(debugInfo') = Len(debugInfo) + 1
         /\ \A i \in 1..Len(debugInfo) : debugInfo'[i].offset = debugInfo[i].offset
                                      /\ debugInfo'[i].tag = debugInfo[i].tag
         /\ debugInfo'[Len(debugInfo) + 1] =
              [tag |-> abbrevTable[Byte(cursor) + 1].tag, offset |-> cursor, childrenOffsets |-> << >>]
         /\ \A i \in 1..Len(debugInfo), o \in Nat :
              IsChild(o, debugInfo'[i]) <=>
                \/ IsChild(o, debugInfo[i])
                \/ parentDIEs # << >> /\ i = DIEIndex(Top(parentDIEs)) /\ o = cursor
         /\ \A o \in Nat : ~ IsChild(o, debugInfo'[Len(debugInfo) + 1])
<1> DEFINE n == Len(debugInfo)
           p == DIEIndex(Top(parentDIEs))
           new == [tag |-> abbrevTable[Byte(cursor) + 1].tag, offset |-> cursor, childrenOffsets |-> << >>]
<1>1. debugInfo' = Append(Linked, new)
  BY DEF ReadDIE
<1>2. Linked \in Seq(DIE) /\ Len(Linked) = n
  BY LinkedType
<1>3. /\ Len(debugInfo') = n + 1
      /\ debugInfo'[n + 1] = new
      /\ \A i \in 1..n : debugInfo'[i] = Linked[i]
  <2> HIDE DEF new
  <2> QED
    BY <1>1, <1>2
<1>4. Linked = IF parentDIEs = << >> THEN debugInfo
               ELSE [debugInfo EXCEPT ![p].childrenOffsets = Append(@, cursor)]
  BY DEF Linked
<1>5. \A o : ~ IsChild(o, new)
  BY DEF IsChild
<1> HIDE DEF p, new
<1>6. ASSUME NEW i \in 1..n
      PROVE  /\ Linked[i].offset = debugInfo[i].offset
             /\ Linked[i].tag = debugInfo[i].tag
             /\ \A o \in Nat : IsChild(o, Linked[i]) <=>
                   IsChild(o, debugInfo[i]) \/ (parentDIEs # << >> /\ i = p /\ o = cursor)
  <2>1. debugInfo[i] \in DIE /\ debugInfo[i].childrenOffsets \in Seq(Nat)
    BY DIETypes DEF DIE
  <2>2. CASE parentDIEs = << >> \/ i # p
    <3>1. Linked[i] = debugInfo[i]
      BY <1>4, <2>2 DEF TypeOK
    <3> QED
      BY <3>1, <2>2
  <2>3. CASE parentDIEs # << >> /\ i = p
    <3> DEFINE x == [debugInfo[p] EXCEPT !.childrenOffsets = Append(@, cursor)]
    <3>0. Linked = [debugInfo EXCEPT ![p] = x]
      BY <1>4, <2>3
    <3> HIDE DEF x
    <3>1. Linked[i] = x
      BY <3>0, <2>3 DEF TypeOK
    <3>2. /\ Linked[i].offset = debugInfo[i].offset
          /\ Linked[i].tag = debugInfo[i].tag
          /\ Linked[i].childrenOffsets = Append(debugInfo[i].childrenOffsets, cursor)
      BY <3>1, <2>1, <2>3 DEF DIE, x
    <3>3. \A o \in Nat : IsChild(o, Linked[i]) <=> IsChild(o, debugInfo[i]) \/ o = cursor
      <4> DEFINE c == debugInfo[i].childrenOffsets
      <4>1. /\ Len(Append(c, cursor)) = Len(c) + 1
            /\ Append(c, cursor)[Len(c) + 1] = cursor
            /\ \A k \in 1..Len(c) : Append(c, cursor)[k] = c[k]
        BY <2>1
      <4>2. Len(c) \in Nat
        BY <2>1
      <4> QED
        BY <3>2, <4>1, <4>2 DEF IsChild
    <3> QED
      BY <3>2, <3>3, <2>3
  <2> QED
    BY <2>2, <2>3
<1> QED
  BY <1>3, <1>5, <1>6 DEF p, new

\* The parent that readOneDIE looks up is there and has the offset on the stack.
LEMMA ParentFound ==
  ASSUME TypeOK, Ordered, ~ LostParent, parentDIEs # << >>
  PROVE  /\ DIEIndex(Top(parentDIEs)) \in 1..Len(debugInfo)
         /\ debugInfo[DIEIndex(Top(parentDIEs))].offset = Top(parentDIEs)
<1>1. PICK i \in 1..Len(debugInfo) : debugInfo[i].offset = Top(parentDIEs)
  BY DEF LostParent, HasDIE
<1> QED
  BY <1>1, IndexOfOffset

\* The cursor moves and the stack changes by a push, a pop, or both.
LEMMA ReadDIEMoves ==
  ASSUME TypeOK, ReadDIE
  PROVE  /\ cursor' \in Nat /\ cursor' > cursor
         /\ \/ parentDIEs' = parentDIEs
            \/ parentDIEs' = Append(parentDIEs, cursor)
            \/ parentDIEs # << >> /\ parentDIEs' = Pop(parentDIEs)
            \/ parentDIEs' = Pop(Append(parentDIEs, cursor))
<1> DEFINE abbrev == abbrevTable[Byte(cursor) + 1]
<1>1. abbrev \in Declarations
  BY ByteType DEF ReadDIE, TypeOK
<1>2. abbrev.width \in Nat
  BY <1>1 DEF Declarations
<1>3. cursor' \in {cursor + 1 + abbrev.width, cursor + 1 + abbrev.width + 1}
  BY DEF ReadDIE
<1>4. cursor' \in Nat /\ cursor' > cursor
  <2> HIDE DEF abbrev
  <2> QED
    BY <1>2, <1>3 DEF TypeOK
<1>5. \/ parentDIEs' = parentDIEs
      \/ parentDIEs' = Append(parentDIEs, cursor)
      \/ parentDIEs # << >> /\ parentDIEs' = Pop(parentDIEs)
      \/ parentDIEs' = Pop(Append(parentDIEs, cursor))
  BY DEF ReadDIE
<1> QED
  BY <1>4, <1>5

\* pop_back drops the last offset and keeps the others.
LEMMA PopProperties ==
  ASSUME NEW s \in Seq(Nat), s # << >>
  PROVE  /\ Pop(s) \in Seq(Nat)
         /\ Len(Pop(s)) = Len(s) - 1
         /\ \A k \in 1..(Len(s) - 1) : Pop(s)[k] = s[k]
<1> DEFINE m == Len(s) - 1
<1>1. m \in Nat /\ \A i \in 1..m : s[i] \in Nat
  OBVIOUS
<1> HIDE DEF m
<1>2. /\ SubSeq(s, 1, m) \in Seq(Nat)
      /\ Len(SubSeq(s, 1, m)) = IF 1 <= m THEN m - 1 + 1 ELSE 0
      /\ \A i \in 1..(m - 1 + 1) : SubSeq(s, 1, m)[i] = s[1 + i - 1]
  BY <1>1, SubSeqProperties
<1>3. Len(SubSeq(s, 1, m)) = m /\ \A i \in 1..m : SubSeq(s, 1, m)[i] = s[i]
  BY <1>1, <1>2
<1> QED
  BY <1>2, <1>3 DEF Pop, m

\* Dropping the innermost DIE of a path leaves a path.
LEMMA PopPath ==
  ASSUME NEW s \in Seq(Nat), NEW d, s # << >>, Path(s, d)
  PROVE  Path(Pop(s), d)
<1>2. Len(s) \in Nat \ {0} /\ 1 \in 1..Len(s) /\ Len(s) - 1 \in 0..Len(s)
  OBVIOUS
<1>1. /\ Len(Pop(s)) = Len(s) - 1
      /\ \A k \in 1..(Len(s) - 1) : Pop(s)[k] = s[k]
  BY PopProperties
<1> HIDE DEF Pop
<1>3. \A k \in 1..(Len(s) - 2) : Pop(s)[k] = s[k] /\ Pop(s)[k + 1] = s[k + 1]
  BY <1>1, <1>2
<1>4. \A k \in 1..Len(Pop(s)) : \E i \in 1..Len(d) : d[i].offset = Pop(s)[k]
  BY <1>1, <1>2 DEF Path
<1>5. \A k \in 1..(Len(Pop(s)) - 1) :
        /\ Pop(s)[k] < Pop(s)[k + 1]
        /\ \E i \in 1..Len(d) : d[i].offset = Pop(s)[k] /\ IsChild(Pop(s)[k + 1], d[i])
  BY <1>1, <1>2, <1>3 DEF Path
<1> QED
  BY <1>4, <1>5 DEF Path

\* readOneDIE keeps the DIEs ordered and the stack a path of them.
LEMMA TreeReadDIE == TypeOK /\ TreeInv /\ ReadDIE => TreeInv'
<1> SUFFICES ASSUME TypeOK, TreeInv, ReadDIE PROVE TreeInv'
  OBVIOUS
<1> DEFINE n == Len(debugInfo)
           p == DIEIndex(Top(parentDIEs))
<1>1. /\ n \in Nat /\ Len(debugInfo') = n + 1
      /\ \A i \in 1..n : debugInfo'[i].offset = debugInfo[i].offset
      /\ debugInfo'[n + 1].offset = cursor
      /\ \A i \in 1..n, o \in Nat :
           IsChild(o, debugInfo'[i]) <=>
             IsChild(o, debugInfo[i]) \/ (parentDIEs # << >> /\ i = p /\ o = cursor)
      /\ \A o \in Nat : ~ IsChild(o, debugInfo'[n + 1])
  BY ReadDIEEffect DEF TypeOK
<1>2. \A i \in 1..n : debugInfo[i].offset \in Nat
  BY DIETypes DEF DIE
<1>3. parentDIEs # << >> => p \in 1..n /\ debugInfo[p].offset = Top(parentDIEs)
  BY ParentFound DEF ReadDIE, TreeInv
<1>4. cursor \in Nat
  BY DEF TypeOK
<1> HIDE DEF p, n
<1>5. \A i \in 1..n : debugInfo[i].offset < cursor
  BY DEF TreeInv, Ordered, n
<1>6. Ordered'
  <2>1. \A i \in 1..(n + 1) : debugInfo'[i].offset < cursor'
    BY <1>1, <1>2, <1>4, <1>5, ReadDIEMoves
  <2>2. \A i, j \in 1..(n + 1) : i < j => debugInfo'[i].offset < debugInfo'[j].offset
    <3>1. \A i, j \in 1..n : i < j => debugInfo'[i].offset < debugInfo'[j].offset
      BY <1>1, <1>2 DEF TreeInv, Ordered, n
    <3>2. \A i \in 1..n : debugInfo'[i].offset < debugInfo'[n + 1].offset
      BY <1>1, <1>2, <1>5
    <3> QED
      BY <3>1, <3>2, <1>1
  <2> QED
    BY <2>1, <2>2, <1>1 DEF Ordered
<1>7. ChildrenLater'
  <2>1. ASSUME NEW i \in 1..(n + 1), NEW o \in Nat, IsChild(o, debugInfo'[i])
        PROVE  \E j \in (i + 1)..(n + 1) : debugInfo'[j].offset = o
    <3>1. i \in 1..n
      BY <2>1, <1>1
    <3>2. CASE IsChild(o, debugInfo[i])
      <4>1. PICK j \in (i + 1)..n : debugInfo[j].offset = o
        BY <3>1, <3>2 DEF TreeInv, ChildrenLater, n
      <4> QED
        BY <4>1, <3>1, <1>1
    <3>3. CASE o = cursor
      BY <3>1, <3>3, <1>1
    <3> QED
      BY <2>1, <3>1, <3>2, <3>3, <1>1
  <2>2. \A i \in 1..n, o \in Nat : IsChild(o, debugInfo[i]) => o < cursor
    BY <1>1, <1>5 DEF TreeInv, ChildrenLater, n
  <2>3. ASSUME NEW i \in 1..(n + 1), NEW j \in 1..(n + 1), NEW o \in Nat,
               IsChild(o, debugInfo'[i]), IsChild(o, debugInfo'[j])
        PROVE  i = j
    <3>1. i \in 1..n /\ j \in 1..n
      BY <2>3, <1>1
    <3>2. \/ IsChild(o, debugInfo[i]) /\ IsChild(o, debugInfo[j])
          \/ i = p /\ j = p
      BY <2>2, <2>3, <3>1, <1>1, <1>4
    <3> QED
      BY <3>1, <3>2 DEF TreeInv, ChildrenLater, n
  <2> QED
    BY <2>1, <2>3, <1>1 DEF ChildrenLater
<1>8. Path(parentDIEs, debugInfo')
  <2>1. \A k \in 1..(Len(parentDIEs) - 1) : parentDIEs[k + 1] \in Nat
    BY DEF TypeOK
  <2>2. ASSUME NEW k \in 1..Len(parentDIEs)
        PROVE  \E i \in 1..(n + 1) : debugInfo'[i].offset = parentDIEs[k]
    <3>1. PICK i \in 1..n : debugInfo[i].offset = parentDIEs[k]
      BY DEF TreeInv, Path, n
    <3> QED
      BY <3>1, <1>1
  <2>3. ASSUME NEW k \in 1..(Len(parentDIEs) - 1)
        PROVE  /\ parentDIEs[k] < parentDIEs[k + 1]
               /\ \E i \in 1..(n + 1) : debugInfo'[i].offset = parentDIEs[k]
                                      /\ IsChild(parentDIEs[k + 1], debugInfo'[i])
    <3>1. PICK i \in 1..n : debugInfo[i].offset = parentDIEs[k] /\ IsChild(parentDIEs[k + 1], debugInfo[i])
      BY DEF TreeInv, Path, n
    <3>2. debugInfo'[i].offset = parentDIEs[k] /\ IsChild(parentDIEs[k + 1], debugInfo'[i])
      BY <3>1, <2>1, <1>1
    <3> QED
      BY <3>1, <3>2, <1>1 DEF TreeInv, Path
  <2> QED
    BY <2>2, <2>3, <1>1 DEF Path
<1>9. Path(Append(parentDIEs, cursor), debugInfo')
  <2> DEFINE s == Append(parentDIEs, cursor)
             m == Len(parentDIEs)
  <2>1. /\ m \in Nat /\ Len(s) = m + 1 /\ s[m + 1] = cursor
        /\ \A k \in 1..m : s[k] = parentDIEs[k] /\ s[k] \in Nat
    BY DEF TypeOK
  <2>2. m # 0 => parentDIEs # << >> /\ Top(parentDIEs) = s[m]
    BY <2>1 DEF Top
  <2>3. m # 0 => /\ s[m] < cursor
                 /\ debugInfo'[p].offset = s[m] /\ IsChild(cursor, debugInfo'[p])
                 /\ p \in 1..(n + 1)
    BY <2>2, <1>1, <1>3, <1>4, <1>5
  <2> HIDE DEF s, m
  <2>4. \A k \in 1..(m + 1) : \E i \in 1..(n + 1) : debugInfo'[i].offset = s[k]
    <3>1. \A k \in 1..m : \E i \in 1..(n + 1) : debugInfo'[i].offset = s[k]
      BY <2>1, <1>1, <1>8 DEF Path, m
    <3> QED
      BY <3>1, <2>1, <1>1, SMTT(30)
  <2>5. \A k \in 1..m : s[k] < s[k + 1]
                       /\ \E i \in 1..(n + 1) : debugInfo'[i].offset = s[k] /\ IsChild(s[k + 1], debugInfo'[i])
    <3> SUFFICES ASSUME NEW k \in 1..m
                 PROVE  s[k] < s[k + 1]
                       /\ \E i \in 1..(n + 1) : debugInfo'[i].offset = s[k] /\ IsChild(s[k + 1], debugInfo'[i])
      OBVIOUS
    <3>1. CASE k = m
      BY <3>1, <2>1, <2>3
    <3>2. CASE k \in 1..(m - 1)
      <4>1. s[k] = parentDIEs[k] /\ s[k + 1] = parentDIEs[k + 1]
        BY <3>2, <2>1
      <4> QED
        BY <4>1, <3>2, <1>1, <1>8 DEF Path, m
    <3> QED
      BY <3>1, <3>2, <2>1
  <2>6. Path(s, debugInfo')
    BY <2>1, <2>4, <2>5, <1>1 DEF Path
  <2> QED
    BY <2>6 DEF s
<1>10. Path(parentDIEs', debugInfo')
  <2>1. parentDIEs \in Seq(Nat) /\ Append(parentDIEs, cursor) \in Seq(Nat)
    BY DEF TypeOK
  <2>2. parentDIEs \in Seq(Nat) /\ cursor \in Nat
    BY DEF TypeOK
  <2>3. Append(parentDIEs, cursor) # << >>
    BY <2>2, AppendProperties
  <2> QED
    BY <2>1, <2>3, <1>8, <1>9, PopPath, ReadDIEMoves
<1> QED
  BY <1>6, <1>7, <1>10 DEF TreeInv

\* No other action touches the DIEs, the stack or the cursor.
OtherSteps ==
  \/ MissingSections \/ ReadAbbrev \/ UnexpectedAbbrev \/ EndOfAbbrevs
  \/ ReadHeader \/ EndOfInfo \/ UnknownAbbrev \/ Returned \/ UNCHANGED vars

\* No other step touches the DIEs, the cursor or the stack.
LEMMA OtherStepsKeepTree ==
  OtherSteps => UNCHANGED <<unit, cursor, parentDIEs, debugInfo>>
  BY DEF OtherSteps, MissingSections, ReadAbbrev, UnexpectedAbbrev, EndOfAbbrevs,
         ReadHeader, EndOfInfo, UnknownAbbrev, Returned, vars

\* Every step keeps the order and the path.
LEMMA TreeStep == TypeOK /\ TreeInv /\ [Next]_vars => TreeInv'
<1>1. ASSUME TreeInv, OtherSteps PROVE TreeInv'
  <2>1. cursor' = cursor /\ parentDIEs' = parentDIEs /\ debugInfo' = debugInfo
    BY <1>1, OtherStepsKeepTree
  <2>2. Ordered'
    BY <1>1, <2>1 DEF TreeInv, Ordered
  <2>3. ChildrenLater'
    BY <1>1, <2>1 DEF TreeInv, ChildrenLater
  <2>4. Path(parentDIEs', debugInfo')
    BY <1>1, <2>1 DEF TreeInv
  <2> QED
    BY <2>2, <2>3, <2>4 DEF TreeInv
<1>2. [Next]_vars => ReadDIE \/ OtherSteps
  BY DEF Next, OtherSteps
<1> QED
  BY <1>1, <1>2, TreeReadDIE

\* There are no DIEs and no path at first.
LEMMA TreeInit == Init => TreeInv
  BY DEF Init, TreeInv, Ordered, ChildrenLater, Path

\* The invariant behind StackIsPath and Forest.
LEMMA TreeHolds == Spec => [](TypeOK /\ TreeInv)
  BY TypeInit, TypeStep, TreeInit, TreeStep, PTL DEF Spec

\* The stack of open DIEs is a path of the tree, so that the assertion "parent
\* wasn't found" of readOneDIE never fails, whatever bytes are read.
THEOREM StackIsAlwaysPath == Spec => []StackIsPath
<1>1. ASSUME TypeOK, TreeInv PROVE StackIsPath
  <2>1. \A k \in 1..Len(parentDIEs) : HasDIE(parentDIEs[k])
    BY <1>1 DEF TreeInv, Path, HasDIE
  <2>2. ~ LostParent
    <3>1. parentDIEs # << >> => Len(parentDIEs) \in 1..Len(parentDIEs)
      BY <1>1 DEF TypeOK
    <3> QED
      BY <2>1, <3>1 DEF LostParent, Top
  <2>3. ASSUME NEW k \in 1..(Len(parentDIEs) - 1)
        PROVE  /\ parentDIEs[k] < parentDIEs[k + 1]
               /\ IsChild(parentDIEs[k + 1], debugInfo[DIEIndex(parentDIEs[k])])
    <3>1. PICK i \in 1..Len(debugInfo) :
            debugInfo[i].offset = parentDIEs[k] /\ IsChild(parentDIEs[k + 1], debugInfo[i])
      BY <1>1, <2>3 DEF TreeInv, Path
    <3>2. DIEIndex(parentDIEs[k]) = i
      BY <1>1, <3>1, IndexOfOffset DEF TreeInv
    <3> QED
      BY <1>1, <3>1, <3>2 DEF TreeInv, Path
  <2> QED
    BY <2>1, <2>2, <2>3 DEF StackIsPath
<1> QED
  BY <1>1, TreeHolds, PTL

\* Whatever bytes are read, the DIEs are a forest in document order: no DIE has
\* two parents, and no walk along childrenOffsets comes back.
THEOREM AlwaysForest == Spec => []Forest
<1>1. ASSUME TypeOK, TreeInv PROVE Forest
  <2>1. \A i \in 1..Len(debugInfo) : debugInfo[i].offset \in Nat
    BY <1>1, DIETypes DEF DIE
  <2>2. \A i, j \in 1..Len(debugInfo) : debugInfo[i].offset = debugInfo[j].offset => i = j
    BY <1>1, <2>1 DEF TreeInv, Ordered
  <2>3. ASSUME NEW i \in 1..Len(debugInfo), NEW j \in 1..Len(debugInfo),
               IsChild(debugInfo[j].offset, debugInfo[i])
        PROVE  i < j
    <3>1. PICK k \in (i + 1)..Len(debugInfo) : debugInfo[k].offset = debugInfo[j].offset
      BY <1>1, <2>1, <2>3 DEF TreeInv, ChildrenLater
    <3>2. k = j
      BY <3>1, <2>2
    <3> QED
      BY <3>2
  <2> QED
    BY <1>1, <2>1, <2>3 DEF Forest, TreeInv, Ordered, ChildrenLater
<1> QED
  BY <1>1, TreeHolds, PTL

------------------------------------------------------------------------------
(* Plain units: the tree read is the tree written *)

N == Len(unit.entries)
At(i)      == IF i <= N THEN unit.entries[i].at ELSE Len(unit.body) + 1
DepthAt(i) == IF i <= N THEN unit.entries[i].depth ELSE 0

\* The k-th offset on a stack after n entries is the one of the last entry at
\* depth k - 1, whose subtree is still open.
OpenEntry(o, k, n) ==
  \E i \in 1..n : /\ o = unit.entries[i].at
                  /\ unit.entries[i].depth = k - 1
                  /\ \A m \in (i + 1)..n : unit.entries[m].depth >= k

AbbrevsRead ==
  /\ abbrevTable[1] = FakeAbbrev
  /\ Len(abbrevTable) <= Len(unit.abbrevs) + 1
  /\ \A c \in 1..(Len(abbrevTable) - 1) : abbrevTable[c + 1] = unit.abbrevs[c]
  /\ pc # "readAbbrevTable" => Len(abbrevTable) = Len(unit.abbrevs) + 1

EntriesRead ==
  /\ Len(debugInfo) <= N
  /\ cursor = At(Len(debugInfo) + 1)
  /\ \A i \in 1..Len(debugInfo) : debugInfo[i].offset = unit.entries[i].at
                               /\ debugInfo[i].tag = DeclOf(unit, i).tag

StackRight ==
  /\ Len(parentDIEs) = DepthAt(Len(debugInfo) + 1)
  /\ \A k \in 1..Len(parentDIEs) : OpenEntry(parentDIEs[k], k, Len(debugInfo))

ChildrenRight ==
  \A i, j \in 1..Len(debugInfo) :
    IsChild(debugInfo[j].offset, debugInfo[i]) <=> IsParent(unit, i, j)

PlainInv ==
  Plain =>
    /\ pc \in {"readAbbrevTable", "readHeader", "readOneDIE", "done"}
    /\ pc = "done" => Len(debugInfo) = N
    /\ AbbrevsRead /\ EntriesRead /\ StackRight /\ ChildrenRight

\* What a well-formed unit says of its entries, in the terms the proofs use.
LEMMA WrittenEntries ==
  ASSUME TypeOK, WellFormed(unit, ObjAddrSize)
  PROVE  /\ N \in Nat \ {0} /\ Len(unit.body) \in Nat /\ End = Len(unit.body)
         /\ \A i \in 1..N :
              /\ unit.entries[i].at \in 1..Len(unit.body)
              /\ unit.entries[i].depth \in Nat
              /\ unit.entries[i].marks \in Nat
              /\ unit.entries[i].code \in 1..Len(unit.abbrevs)
              /\ unit.body[unit.entries[i].at] = unit.entries[i].code
              /\ DeclOf(unit, i) \in Declarations
              /\ DeclOf(unit, i).width \in Nat
              /\ Opens(unit, i) \in {0, 1}
<1>1. unit.entries \in Seq(Entries) /\ unit.abbrevs \in Seq(Declarations) /\ unit.body \in Seq(Nat)
  BY UnitsAssumption DEF TypeOK
<1>2. N \in Nat \ {0} /\ Len(unit.body) \in Nat /\ End = Len(unit.body)
  BY <1>1 DEF N, WellFormed, GoodHeader, HeaderSize, End
<1>3. ASSUME NEW i \in 1..N
      PROVE  /\ unit.entries[i].at \in 1..Len(unit.body)
             /\ unit.entries[i].depth \in Nat
             /\ unit.entries[i].marks \in Nat
             /\ unit.entries[i].code \in 1..Len(unit.abbrevs)
             /\ unit.body[unit.entries[i].at] = unit.entries[i].code
  <2>1. unit.entries[i] \in Entries
    BY <1>1 DEF N
  <2>2. unit.entries[i].marks \in Nat /\ unit.entries[i].depth \in Nat
    BY <2>1 DEF Entries
  <2>3. /\ unit.entries[i].at \in 1..Len(unit.body)
        /\ unit.entries[i].code \in 1..Len(unit.abbrevs)
        /\ unit.body[unit.entries[i].at] = unit.entries[i].code
    BY DEF WellFormed, BytesAgree, N
  <2> QED
    BY <2>2, <2>3
<1>4. ASSUME NEW i \in 1..N
      PROVE  DeclOf(unit, i) \in Declarations
  BY <1>1, <1>3 DEF DeclOf
<1>5. \A i \in 1..N : DeclOf(unit, i).width \in Nat
  BY <1>4 DEF Declarations
<1> QED
  BY <1>2, <1>3, <1>4, <1>5 DEF Opens

\* Where the entry after entry i starts, at which depth, and what is between.
LEMMA WrittenNext ==
  ASSUME TypeOK, WellFormed(unit, ObjAddrSize), NEW i \in 1..N
  PROVE  /\ At(i + 1) = EntryEnd(unit, i)
         /\ DepthAt(i + 1) = unit.entries[i].depth + Opens(unit, i) - unit.entries[i].marks
         /\ DepthAt(i + 1) \in Nat
         /\ \A p \in AttrEnd(unit, i)..(EntryEnd(unit, i) - 1) : /\ unit.body[p] = 0
                                                                /\ p \in 1..Len(unit.body)
         /\ i < N => /\ unit.body[At(i + 1)] \in Nat \ {0}
                     /\ At(i + 1) \in 1..Len(unit.body)
         /\ At(i) < Len(unit.body)
         /\ i > 1 => unit.entries[i].depth > 0
         /\ AttrEnd(unit, i) \in Nat /\ EntryEnd(unit, i) \in Nat
         /\ EntryEnd(unit, i) = AttrEnd(unit, i) + unit.entries[i].marks
<1>1. BytesAgree(unit) /\ DepthsAgree(unit)
  BY DEF WellFormed
<1> DEFINE e == unit.entries[i]
<1>2. /\ e.at \in 1..Len(unit.body) /\ e.marks \in Nat /\ e.depth \in Nat
      /\ DeclOf(unit, i).width \in Nat /\ Opens(unit, i) \in {0, 1}
      /\ N \in Nat \ {0} /\ Len(unit.body) \in Nat
  BY WrittenEntries
<1>3. At(i + 1) = EntryEnd(unit, i)
  BY <1>1, <1>2 DEF At, BytesAgree, N
<1>4. DepthAt(i + 1) = e.depth + Opens(unit, i) - e.marks
  BY <1>1, <1>2 DEF DepthAt, DepthsAgree, N
<1>5. i < N => /\ unit.body[At(i + 1)] \in Nat \ {0} /\ At(i + 1) \in 1..Len(unit.body)
               /\ e.at < At(i + 1)
               /\ DepthAt(i + 1) \in Nat
  <2>1. SUFFICES ASSUME i < N
                 PROVE  /\ unit.body[At(i + 1)] \in Nat \ {0} /\ At(i + 1) \in 1..Len(unit.body)
                        /\ e.at < At(i + 1)
                        /\ DepthAt(i + 1) \in Nat
    OBVIOUS
  <2>2. i + 1 \in 1..N /\ At(i + 1) = unit.entries[i + 1].at /\ DepthAt(i + 1) = unit.entries[i + 1].depth
    BY <2>1, <1>2 DEF At, DepthAt
  <2>3. e.at < unit.entries[i + 1].at
    BY <2>2, <1>1 DEF BytesAgree, N
  <2>4. /\ unit.entries[i + 1].at \in 1..Len(unit.body) /\ unit.entries[i + 1].depth \in Nat
        /\ unit.entries[i + 1].code \in Nat \ {0}
        /\ unit.body[unit.entries[i + 1].at] = unit.entries[i + 1].code
    BY <2>2, WrittenEntries
  <2> QED
    BY <2>2, <2>3, <2>4
<1>6. EntryEnd(unit, i) = e.at + 1 + DeclOf(unit, i).width + e.marks
      /\ AttrEnd(unit, i) = e.at + 1 + DeclOf(unit, i).width
  BY DEF EntryEnd, AttrEnd
<1> DEFINE w == DeclOf(unit, i).width
<1> HIDE DEF e, w
<1>7. ASSUME NEW p \in AttrEnd(unit, i)..(EntryEnd(unit, i) - 1)
      PROVE  unit.body[p] = 0 /\ p \in 1..Len(unit.body)
  <2>1. unit.body[p] = 0
    BY <1>1 DEF BytesAgree, N
  <2>2. EntryEnd(unit, i) <= Len(unit.body) + 1
    BY <1>2, <1>3, <1>5 DEF At
  <2>3. EntryEnd(unit, i) \in Nat /\ AttrEnd(unit, i) \in Nat \ {0}
    <3>1. e.at \in Nat \ {0} /\ w \in Nat /\ e.marks \in Nat
      BY <1>2 DEF w
    <3>2. EntryEnd(unit, i) = e.at + 1 + w + e.marks /\ AttrEnd(unit, i) = e.at + 1 + w
      BY <1>6 DEF w
    <3> QED
      BY <3>1, <3>2
  <2>4. p \in Nat \ {0} /\ p < EntryEnd(unit, i)
    BY <2>3
  <2>5. p \in 1..Len(unit.body)
    BY <1>2, <2>2, <2>3, <2>4
  <2> QED
    BY <2>1, <2>5
<1>8. i > 1 => e.depth > 0
  <2>1. SUFFICES ASSUME i > 1 PROVE e.depth > 0
    OBVIOUS
  <2>2. i - 1 \in 1..(N - 1) /\ (i - 1) + 1 = i
    BY <2>1, <1>2
  <2> QED
    BY <2>2, <1>1 DEF DepthsAgree, N, e
<1>9. e.at < Len(unit.body)
  <2>1. CASE i < N
    BY <2>1, <1>2, <1>5
  <2>2. CASE i = N
    <3>1. EntryEnd(unit, i) = Len(unit.body) + 1 /\ e.depth + Opens(unit, i) = e.marks
      BY <2>2, <1>1 DEF BytesAgree, DepthsAgree, N, e
    <3>2. w + e.marks > 0
      <4>1. CASE i = 1
        BY <4>1, <1>1, <1>2 DEF DepthsAgree, w
      <4>2. CASE i > 1
        BY <4>2, <1>8, <3>1, <1>2 DEF w
      <4> QED
        BY <4>1, <4>2
    <3>3. e.at + 1 + w + e.marks = Len(unit.body) + 1
      BY <3>1, <1>6 DEF w
    <3>4. w \in Nat /\ e.marks \in Nat /\ e.at \in Nat /\ Len(unit.body) \in Nat
      BY <1>2 DEF w
    <3> QED
      BY <3>2, <3>3, <3>4
  <2> QED
    BY <2>1, <2>2, <1>2
<1>10. DepthAt(i + 1) \in Nat
  BY <1>2, <1>5 DEF DepthAt
<1>11. AttrEnd(unit, i) \in Nat /\ EntryEnd(unit, i) = AttrEnd(unit, i) + e.marks
  BY <1>2, <1>6 DEF w
<1> QED
  BY <1>2, <1>3, <1>4, <1>5, <1>7, <1>8, <1>9, <1>10, <1>11, SMTT(30) DEF At, e

\* In a plain unit, no entry is followed by two marks.
LEMMA EntryFacts ==
  ASSUME TypeOK, Plain
  PROVE  /\ N \in Nat \ {0} /\ Len(unit.body) \in Nat
         /\ \A i \in 1..N :
              /\ unit.entries[i].at \in 1..Len(unit.body)
              /\ unit.entries[i].depth \in Nat
              /\ unit.entries[i].marks \in {0, 1}
              /\ unit.entries[i].code \in 1..Len(unit.abbrevs)
              /\ unit.body[unit.entries[i].at] = unit.entries[i].code
              /\ DeclOf(unit, i) \in Declarations
              /\ DeclOf(unit, i).width \in Nat
              /\ Opens(unit, i) \in {0, 1}
<1>1. WellFormed(unit, ObjAddrSize) /\ NoAdjacentMarks(unit)
  BY DEF Plain
<1>2. \A i \in 1..N : unit.entries[i].marks \in Nat /\ unit.entries[i].marks <= 1
  BY <1>1, WrittenEntries DEF NoAdjacentMarks, N
<1>3. \A i \in 1..N : unit.entries[i].marks \in {0, 1}
  BY <1>2
<1> QED
  BY <1>1, <1>3, WrittenEntries

\* Where the entry after entry i starts, at which depth, and what is there.
LEMMA NextEntry ==
  ASSUME TypeOK, Plain, NEW i \in 1..N
  PROVE  /\ At(i + 1) = EntryEnd(unit, i)
         /\ DepthAt(i + 1) = unit.entries[i].depth + Opens(unit, i) - unit.entries[i].marks
         /\ unit.entries[i].marks = 1 => unit.body[AttrEnd(unit, i)] = 0
                                      /\ AttrEnd(unit, i) \in 1..Len(unit.body)
         /\ i < N => unit.body[At(i + 1)] # 0 /\ At(i + 1) \in 1..Len(unit.body)
         /\ At(i) < Len(unit.body)
<1>1. WellFormed(unit, ObjAddrSize)
  BY DEF Plain
<1>2. AttrEnd(unit, i) \in Int /\ EntryEnd(unit, i) = AttrEnd(unit, i) + unit.entries[i].marks
  BY EntryFacts DEF AttrEnd, EntryEnd
<1>3. unit.entries[i].marks = 1 => AttrEnd(unit, i) \in AttrEnd(unit, i)..(EntryEnd(unit, i) - 1)
  BY <1>2
<1> QED
  BY <1>1, <1>3, WrittenNext

\* The DIE read is the next entry: its abbreviation, its end, and whether an
\* end-of-children mark follows are what the unit says.
LEMMA NextRead ==
  ASSUME TypeOK, Plain, PlainInv, ReadDIE
  PROVE  LET e == Len(debugInfo) + 1 IN
         /\ e \in 1..N
         /\ cursor = unit.entries[e].at
         /\ abbrevTable[Byte(cursor) + 1] = DeclOf(unit, e)
         /\ cursor' = At(e + 1)
         /\ LET opened == IF Opens(unit, e) = 1 THEN Append(parentDIEs, cursor) ELSE parentDIEs
            IN  IF unit.entries[e].marks = 1
                THEN opened # << >> /\ parentDIEs' = Pop(opened)
                ELSE parentDIEs' = opened
<1> DEFINE e == Len(debugInfo) + 1
           abbrev == abbrevTable[Byte(cursor) + 1]
           next   == cursor + 1 + abbrev.width
           opened == IF abbrev.children THEN Append(parentDIEs, cursor) ELSE parentDIEs
           mark   == opened # << >> /\ Byte(next) = 0
<1>1. /\ cursor' = IF mark THEN next + 1 ELSE next
      /\ parentDIEs' = IF mark THEN Pop(opened) ELSE opened
      /\ cursor < End /\ pc = "readOneDIE"
  BY DEF ReadDIE
<1>2. AbbrevsRead /\ EntriesRead /\ StackRight
  BY DEF PlainInv
<1>3. Len(debugInfo) \in Nat /\ N \in Nat \ {0} /\ Len(unit.body) \in Nat
  BY EntryFacts DEF TypeOK
<1>4. End = Len(unit.body)
  BY <1>3 DEF End, Plain, WellFormed, GoodHeader, HeaderSize
<1>5. e \in 1..N /\ cursor = unit.entries[e].at
  BY <1>1, <1>2, <1>3, <1>4 DEF EntriesRead, At
<1>6. Byte(cursor) = unit.entries[e].code
  BY <1>5, EntryFacts DEF Byte
<1>7. abbrev = DeclOf(unit, e)
  <2>1. unit.entries[e].code \in 1..(Len(abbrevTable) - 1)
    <3>1. unit.abbrevs \in Seq(Declarations)
      BY UnitsAssumption DEF TypeOK
    <3>2. Len(unit.abbrevs) \in Nat
      BY <3>1
    <3>3. Len(abbrevTable) = Len(unit.abbrevs) + 1
      BY <1>1, <1>2 DEF AbbrevsRead
    <3>4. unit.entries[e].code \in 1..Len(unit.abbrevs)
      BY <1>5, EntryFacts
    <3> QED
      BY <3>2, <3>3, <3>4
  <2> QED
    BY <1>2, <1>6, <2>1 DEF AbbrevsRead, DeclOf
<1>8. next = AttrEnd(unit, e) /\ next \in Nat
  BY <1>5, <1>7, EntryFacts DEF AttrEnd
<1>9. opened = IF Opens(unit, e) = 1 THEN Append(parentDIEs, cursor) ELSE parentDIEs
  <2>1. abbrev.children \in BOOLEAN
    BY <1>5, <1>7, EntryFacts DEF Declarations
  <2> QED
    BY <1>7, <2>1 DEF Opens
<1> HIDE DEF e, opened, next, abbrev
<1>10. Len(opened) = unit.entries[e].depth + Opens(unit, e) /\ opened \in Seq(Nat)
  <2>1. Len(parentDIEs) = unit.entries[e].depth
    BY <1>2, <1>5 DEF StackRight, DepthAt, e
  <2>2. Opens(unit, e) \in {0, 1}
    BY <1>5, EntryFacts
  <2>3. parentDIEs \in Seq(Nat) /\ cursor \in Nat
    BY DEF TypeOK
  <2>4. Append(parentDIEs, cursor) \in Seq(Nat) /\ Len(Append(parentDIEs, cursor)) = Len(parentDIEs) + 1
    BY <2>3, AppendProperties
  <2>5. unit.entries[e].depth \in Nat
    BY <1>5, EntryFacts
  <2>6. CASE Opens(unit, e) = 1
    BY <1>9, <2>1, <2>4, <2>6
  <2>7. CASE Opens(unit, e) = 0
    BY <1>9, <2>1, <2>3, <2>5, <2>7
  <2> QED
    BY <2>2, <2>6, <2>7
<1>11. mark <=> unit.entries[e].marks = 1
  <2>1. /\ At(e + 1) = AttrEnd(unit, e) + unit.entries[e].marks
        /\ DepthAt(e + 1) = unit.entries[e].depth + Opens(unit, e) - unit.entries[e].marks
        /\ unit.entries[e].marks = 1 => unit.body[AttrEnd(unit, e)] = 0
                                     /\ AttrEnd(unit, e) \in 1..Len(unit.body)
        /\ e < N => unit.body[At(e + 1)] # 0 /\ At(e + 1) \in 1..Len(unit.body)
        /\ unit.entries[e].marks \in {0, 1} /\ unit.entries[e].depth \in Nat
        /\ Opens(unit, e) \in {0, 1}
    BY <1>5, NextEntry, EntryFacts DEF EntryEnd
  <2>2. DepthAt(e + 1) \in Nat
    BY <1>3, <1>5, EntryFacts DEF DepthAt
  <2>3. CASE unit.entries[e].marks = 1
    <3>1. Byte(next) = 0
      BY <1>8, <2>1, <2>3 DEF Byte
    <3>2. Len(opened) # 0
      BY <1>10, <2>1, <2>2, <2>3
    <3>3. opened # << >>
      BY <1>10, <3>2
    <3> QED
      BY <2>3, <3>1, <3>3
  <2>4. CASE unit.entries[e].marks = 0
    <3>1. At(e + 1) = next
      BY <1>5, <1>8, <2>1, <2>4, EntryFacts
    <3>2. CASE e < N
      BY <2>1, <2>4, <3>1, <3>2 DEF Byte
    <3>3. CASE e = N
      <4>1. DepthAt(e + 1) = 0
        BY <1>3, <3>3 DEF DepthAt
      <4>2. Len(opened) = 0
        BY <1>10, <2>1, <2>4, <4>1
      <4>3. opened = << >>
        BY <1>10, <4>2
      <4> QED
        BY <2>4, <4>3
    <3> QED
      BY <3>2, <3>3, <1>3, <1>5
  <2> QED
    BY <2>1, <2>3, <2>4
<1>12. cursor' = At(e + 1)
  <2>1. At(e + 1) = AttrEnd(unit, e) + unit.entries[e].marks /\ unit.entries[e].marks \in {0, 1}
    BY <1>5, NextEntry, EntryFacts DEF EntryEnd
  <2> QED
    BY <1>1, <1>8, <1>11, <2>1
<1> QED
  BY <1>1, <1>5, <1>7, <1>9, <1>11, <1>12 DEF e, opened, abbrev

\* The parent of the next entry is the DIE on top of the stack, if there is one.
LEMMA ParentIsTop ==
  ASSUME TypeOK, TreeInv, Plain, PlainInv, NEW i \in 1..Len(debugInfo), Len(debugInfo) + 1 \in 1..N,
         parentDIEs # << >> => DIEIndex(Top(parentDIEs)) \in 1..Len(debugInfo)
  PROVE  IsParent(unit, i, Len(debugInfo) + 1)
           <=> parentDIEs # << >> /\ i = DIEIndex(Top(parentDIEs))
<1> DEFINE n == Len(debugInfo)
           L == Len(parentDIEs)
<1>1. /\ n \in Nat /\ L \in Nat /\ n + 1 \in 1..N
      /\ L = unit.entries[n + 1].depth
      /\ \A k \in 1..L : OpenEntry(parentDIEs[k], k, n)
      /\ parentDIEs # << >> <=> L # 0
  BY DEF PlainInv, StackRight, DepthAt, TypeOK
<1>2. \A k \in 1..n : unit.entries[k].depth \in Nat /\ k \in 1..N
  BY <1>1, EntryFacts
<1> HIDE DEF n, L
<1>3. CASE L = 0
  BY <1>1, <1>2, <1>3 DEF IsParent, n
<1>4. CASE L # 0
  <2>1. PICK q \in 1..n : /\ Top(parentDIEs) = unit.entries[q].at
                          /\ unit.entries[q].depth = L - 1
                          /\ \A m \in (q + 1)..n : unit.entries[m].depth >= L
    <3>1. L \in 1..L /\ Top(parentDIEs) = parentDIEs[L]
      BY <1>1, <1>4 DEF Top, L
    <3>2. OpenEntry(Top(parentDIEs), L, n)
      BY <1>1, <3>1
    <3> QED
      BY <3>2 DEF OpenEntry
  <2>2. debugInfo[q].offset = unit.entries[q].at
    BY <2>1 DEF PlainInv, EntriesRead, n
  <2>3. DIEIndex(Top(parentDIEs)) = q
    BY <2>1, <2>2, IndexOfOffset DEF TreeInv, n
  <2>4. IsParent(unit, q, n + 1)
    BY <2>1, <1>1 DEF IsParent
  <2>5. ASSUME NEW j \in 1..n, IsParent(unit, j, n + 1) PROVE j = q
    <3>1. /\ unit.entries[j].depth = L - 1
          /\ \A m \in (j + 1)..n : unit.entries[m].depth >= L
      <4>1. (n + 1) - 1 = n
        BY <1>1
      <4>2. unit.entries[j].depth + 1 = L /\ \A m \in (j + 1)..n : unit.entries[m].depth >= L
        BY <2>5, <1>1, <4>1 DEF IsParent
      <4> QED
        BY <4>2, <1>2
    <3> QED
      BY <3>1, <2>1, <1>1, <1>2
  <2> QED
    BY <1>1, <1>4, <2>3, <2>4, <2>5 DEF n
<1> QED
  BY <1>3, <1>4

\* readOneDIE reads the next entry of a plain unit and puts it where it belongs.
LEMMA PlainReadDIE == TypeOK /\ TreeInv /\ PlainInv /\ ReadDIE => PlainInv'
<1> SUFFICES ASSUME TypeOK, TreeInv, PlainInv, ReadDIE, Plain' PROVE PlainInv'
  BY DEF PlainInv
<1> DEFINE n == Len(debugInfo)
<1>1. unit' = unit /\ pc' = pc /\ abbrevTable' = abbrevTable /\ pc = "readOneDIE"
  BY DEF ReadDIE
<1>2. Plain
  BY <1>1 DEF Plain
<1>3. /\ N' = N /\ \A i : At(i)' = At(i) /\ DepthAt(i)' = DepthAt(i)
      /\ \A i, j : IsParent(unit', i, j) <=> IsParent(unit, i, j)
      /\ \A i : DeclOf(unit', i) = DeclOf(unit, i)
  BY <1>1 DEF N, At, DepthAt
<1>4. /\ n + 1 \in 1..N
      /\ cursor = unit.entries[n + 1].at
      /\ abbrevTable[Byte(cursor) + 1] = DeclOf(unit, n + 1)
      /\ cursor' = At(n + 2)
      /\ LET opened == IF Opens(unit, n + 1) = 1 THEN Append(parentDIEs, cursor) ELSE parentDIEs
         IN  IF unit.entries[n + 1].marks = 1
             THEN opened # << >> /\ parentDIEs' = Pop(opened)
             ELSE parentDIEs' = opened
  <2>1. n \in Nat /\ (n + 1) + 1 = n + 2
    BY DEF TypeOK
  <2> QED
    BY <1>2, <2>1, NextRead
<1>5. /\ n \in Nat /\ Len(debugInfo') = n + 1
      /\ \A i \in 1..n : debugInfo'[i].offset = debugInfo[i].offset
                      /\ debugInfo'[i].tag = debugInfo[i].tag
      /\ debugInfo'[n + 1].offset = cursor
      /\ debugInfo'[n + 1].tag = DeclOf(unit, n + 1).tag
      /\ \A i \in 1..n, o \in Nat :
           IsChild(o, debugInfo'[i]) <=>
             \/ IsChild(o, debugInfo[i])
             \/ parentDIEs # << >> /\ i = DIEIndex(Top(parentDIEs)) /\ o = cursor
      /\ \A o \in Nat : ~ IsChild(o, debugInfo'[n + 1])
  BY <1>4, ReadDIEEffect DEF TypeOK
<1>6. \A i \in 1..n : debugInfo[i].offset \in Nat /\ debugInfo[i].offset < cursor
  BY DIETypes DEF DIE, TreeInv, Ordered
<1>7. \A k \in 1..N : unit.entries[k].depth \in Nat /\ unit.entries[k].at \in Nat
  BY <1>2, EntryFacts
<1>8. AbbrevsRead /\ EntriesRead /\ StackRight /\ ChildrenRight
  BY <1>2 DEF PlainInv
<1>9. N \in Nat
  BY <1>2, EntryFacts
<1> HIDE DEF n
<1>10. AbbrevsRead'
  BY <1>1, <1>8 DEF AbbrevsRead
<1>11. EntriesRead'
  <2>1. \A i \in 1..n : debugInfo[i].offset = unit.entries[i].at
                      /\ debugInfo[i].tag = DeclOf(unit, i).tag
    BY <1>8 DEF EntriesRead, n
  <2>2. \A i \in 1..(n + 1) : debugInfo'[i].offset = unit.entries[i].at
                           /\ debugInfo'[i].tag = DeclOf(unit, i).tag
    BY <2>1, <1>4, <1>5
  <2>3. n + 1 <= N /\ (n + 1) + 1 = n + 2
    BY <1>4, <1>5, <1>9
  <2> QED
    BY <1>1, <1>3, <1>4, <1>5, <2>2, <2>3 DEF EntriesRead
<1>12. StackRight'
  <2> DEFINE L == Len(parentDIEs)
             opened == IF Opens(unit, n + 1) = 1 THEN Append(parentDIEs, cursor) ELSE parentDIEs
  <2>1. /\ L = unit.entries[n + 1].depth /\ L \in Nat
        /\ \A k \in 1..L : OpenEntry(parentDIEs[k], k, n)
    BY <1>4, <1>5, <1>7, <1>8 DEF StackRight, DepthAt, n
  <2>2. /\ DepthAt(n + 2) = L + Opens(unit, n + 1) - unit.entries[n + 1].marks
        /\ Opens(unit, n + 1) \in {0, 1} /\ unit.entries[n + 1].marks \in {0, 1}
    <3>1. (n + 1) + 1 = n + 2
      BY <1>5
    <3> QED
      BY <1>2, <1>4, <2>1, <3>1, NextEntry, EntryFacts
  <2>3. parentDIEs \in Seq(Nat) /\ cursor \in Nat
    BY DEF TypeOK
  <2> HIDE DEF L
  <2>4. /\ opened \in Seq(Nat) /\ Len(opened) = L + Opens(unit, n + 1)
        /\ \A k \in 1..L : opened[k] = parentDIEs[k]
        /\ Opens(unit, n + 1) = 1 => opened[L + 1] = cursor
    <3>1. CASE Opens(unit, n + 1) = 1
      BY <3>1, <2>3, AppendProperties DEF L
    <3>2. CASE Opens(unit, n + 1) = 0
      BY <3>2, <2>1, <2>3 DEF L
    <3> QED
      BY <3>1, <3>2, <2>2
  <2> HIDE DEF opened
  <2>5. ASSUME NEW k \in 1..L PROVE OpenEntry(opened[k], k, n + 1)
    <3>1. PICK i \in 1..n : /\ parentDIEs[k] = unit.entries[i].at
                            /\ unit.entries[i].depth = k - 1
                            /\ \A m \in (i + 1)..n : unit.entries[m].depth >= k
      BY <2>1, <2>5 DEF OpenEntry
    <3>2. \A m \in (i + 1)..(n + 1) : unit.entries[m].depth >= k
      BY <3>1, <2>1, <1>5
    <3> QED
      BY <3>1, <3>2, <2>4, <1>5 DEF OpenEntry
  <2>6. Opens(unit, n + 1) = 1 => OpenEntry(opened[L + 1], L + 1, n + 1)
    <3>1. n + 1 \in 1..(n + 1) /\ (n + 1 + 1)..(n + 1) = {} /\ (L + 1) - 1 = L
      BY <1>5, <2>1
    <3>2. Opens(unit, n + 1) = 1 => opened[L + 1] = unit.entries[n + 1].at
      BY <2>4, <1>4
    <3> QED
      BY <2>1, <3>1, <3>2 DEF OpenEntry
  <2>7. \A k \in 1..Len(opened) : OpenEntry(opened[k], k, n + 1)
    BY <2>1, <2>2, <2>4, <2>5, <2>6
  <2>8. /\ Len(parentDIEs') = DepthAt(n + 2)
        /\ \A k \in 1..Len(parentDIEs') : OpenEntry(parentDIEs'[k], k, n + 1)
    <3>1. CASE unit.entries[n + 1].marks = 1
      <4>1. opened # << >> /\ parentDIEs' = Pop(opened)
        BY <1>4, <3>1 DEF opened
      <4>2. Len(parentDIEs') = Len(opened) - 1 /\ \A k \in 1..(Len(opened) - 1) : parentDIEs'[k] = opened[k]
        BY <4>1, <2>4, PopProperties
      <4> QED
        BY <4>2, <3>1, <2>1, <2>2, <2>4, <2>7
    <3>2. CASE unit.entries[n + 1].marks = 0
      <4>1. parentDIEs' = opened
        BY <1>4, <3>2 DEF opened
      <4> QED
        BY <4>1, <3>2, <2>1, <2>2, <2>4, <2>7
    <3> QED
      BY <3>1, <3>2, <2>2
  <2>9. (n + 1) + 1 = n + 2
    BY <1>5
  <2> QED
    BY <2>8, <2>9, <1>1, <1>3, <1>5 DEF StackRight, OpenEntry
<1>13. ChildrenRight'
  <2>1. ASSUME NEW i \in 1..(n + 1), NEW j \in 1..(n + 1)
        PROVE  IsChild(debugInfo'[j].offset, debugInfo'[i]) <=> IsParent(unit, i, j)
    <3>1. debugInfo'[j].offset \in Nat
      BY <1>4, <1>5, <1>6, <1>7, SMTT(30)
    <3>2. CASE i = n + 1
      BY <3>1, <3>2, <1>5 DEF IsParent
    <3>3. CASE i \in 1..n /\ j \in 1..n
      <4>1. IsChild(debugInfo[j].offset, debugInfo[i]) <=> IsParent(unit, i, j)
        BY <3>3, <1>8 DEF ChildrenRight, n
      <4>2. debugInfo[j].offset < cursor /\ cursor \in Nat
        BY <3>3, <1>6 DEF TypeOK
      <4> QED
        BY <4>1, <4>2, <3>3, <1>5, <1>6
    <3>4. CASE i \in 1..n /\ j = n + 1
      <4>1. cursor \in Nat /\ debugInfo'[j].offset = cursor
        BY <3>4, <1>5 DEF TypeOK
      <4>2. ~ IsChild(cursor, debugInfo[i])
        BY <3>4, <1>5, <1>6, <4>1 DEF TreeInv, ChildrenLater, n
      <4>3. IsChild(cursor, debugInfo'[i]) <=> parentDIEs # << >> /\ i = DIEIndex(Top(parentDIEs))
        BY <4>1, <4>2, <3>4, <1>5
      <4>4. parentDIEs # << >> => DIEIndex(Top(parentDIEs)) \in 1..Len(debugInfo)
        BY ParentFound DEF ReadDIE, TreeInv
      <4>5. IsParent(unit, i, n + 1) <=> parentDIEs # << >> /\ i = DIEIndex(Top(parentDIEs))
        BY <3>4, <4>4, <1>2, <1>4, ParentIsTop DEF n
      <4> QED
        BY <3>4, <4>1, <4>3, <4>5
    <3> QED
      BY <3>2, <3>3, <3>4, <1>5
  <2> QED
    BY <2>1, <1>3, <1>5 DEF ChildrenRight
<1> QED
  BY <1>1, <1>10, <1>11, <1>12, <1>13 DEF PlainInv

\* The abbreviations of a well-formed unit are copied into the table.
LEMMA TableKept ==
  ASSUME TypeOK, WellFormed(unit, ObjAddrSize), AbbrevsRead, OtherSteps
  PROVE  AbbrevsRead'
<1>1. unit.abbrevs \in Seq(Declarations) /\ Len(unit.abbrevs) \in Nat
      /\ abbrevTable \in Seq(Declarations) /\ Len(abbrevTable) \in Nat \ {0}
  <2>1. unit.abbrevs \in Seq(Declarations)
    BY UnitsAssumption DEF TypeOK
  <2>2. abbrevTable \in Seq(Declarations) /\ abbrevTable # << >>
    BY DEF TypeOK
  <2> QED
    BY <2>1, <2>2
<1>2. unit.hasSections /\ NumberedAbbrevs(unit)
  BY DEF WellFormed, GoodHeader
<1>3. CASE MissingSections
  BY <1>2, <1>3 DEF MissingSections
<1>4. CASE ReadAbbrev
  <2>1. /\ pc = "readAbbrevTable" /\ pc' = pc /\ unit' = unit
        /\ Len(abbrevTable) <= Len(unit.abbrevs)
        /\ abbrevTable' = Append(abbrevTable, unit.abbrevs[Len(abbrevTable)])
    BY <1>4 DEF ReadAbbrev, expectedCode
  <2>2. unit.abbrevs[Len(abbrevTable)] \in Declarations
    BY <2>1, <1>1
  <2>3. /\ Len(abbrevTable') = Len(abbrevTable) + 1
        /\ \A c \in 1..Len(abbrevTable) : abbrevTable'[c] = abbrevTable[c]
        /\ abbrevTable'[Len(abbrevTable) + 1] = unit.abbrevs[Len(abbrevTable)]
    BY <2>1, <2>2, <1>1, AppendProperties
  <2>4. abbrevTable'[1] = FakeAbbrev
    BY <2>3, <1>1 DEF AbbrevsRead
  <2>5. \A c \in 1..Len(abbrevTable) : abbrevTable'[c + 1] = unit.abbrevs[c]
    BY <2>3, <1>1 DEF AbbrevsRead
  <2> QED
    BY <2>1, <2>3, <2>4, <2>5, <1>1 DEF AbbrevsRead
<1>5. CASE UnexpectedAbbrev
  <2>1. Len(abbrevTable) \in 1..Len(unit.abbrevs) /\ unit.abbrevs[Len(abbrevTable)].code # Len(abbrevTable)
    BY <1>5, <1>1 DEF UnexpectedAbbrev, expectedCode
  <2> QED
    BY <2>1, <1>2 DEF NumberedAbbrevs
<1>6. CASE EndOfAbbrevs
  <2>1. Len(abbrevTable) = Len(unit.abbrevs) + 1
    BY <1>6, <1>1 DEF EndOfAbbrevs, expectedCode, AbbrevsRead
  <2> QED
    BY <1>6, <2>1 DEF EndOfAbbrevs, AbbrevsRead
<1>7. CASE ReadHeader \/ EndOfInfo \/ UnknownAbbrev \/ Returned \/ UNCHANGED vars
  BY <1>7 DEF ReadHeader, EndOfInfo, UnknownAbbrev, Returned, vars, AbbrevsRead
<1> QED
  BY <1>3, <1>4, <1>5, <1>6, <1>7 DEF OtherSteps

\* The table, the header and the end of a plain unit are what they should be.
LEMMA PlainOtherSteps == TypeOK /\ TreeInv /\ PlainInv /\ OtherSteps => PlainInv'
<1> SUFFICES ASSUME TypeOK, PlainInv, OtherSteps, Plain' PROVE PlainInv'
  BY DEF PlainInv
<1>1. UNCHANGED <<unit, cursor, parentDIEs, debugInfo>>
  BY OtherStepsKeepTree
<1>2. Plain /\ WellFormed(unit, ObjAddrSize)
  BY <1>1 DEF Plain
<1>3. EntriesRead' /\ StackRight' /\ ChildrenRight'
  <2>1. EntriesRead /\ StackRight /\ ChildrenRight
    BY <1>2 DEF PlainInv
  <2>2. EntriesRead'
    BY <2>1, <1>1 DEF EntriesRead, N, At
  <2>3. StackRight'
    BY <2>1, <1>1 DEF StackRight, N, DepthAt, OpenEntry
  <2>4. ChildrenRight'
    BY <2>1, <1>1 DEF ChildrenRight, IsChild
  <2> QED
    BY <2>2, <2>3, <2>4
<1>4. Len(debugInfo) \in Nat /\ N \in Nat \ {0} /\ Len(unit.body) \in Nat
  BY <1>2, EntryFacts DEF TypeOK
<1>5. unit.abbrevs \in Seq(Declarations) /\ Len(unit.abbrevs) \in Nat
      /\ abbrevTable \in Seq(Declarations) /\ Len(abbrevTable) \in Nat \ {0}
  <2>1. unit.abbrevs \in Seq(Declarations)
    BY UnitsAssumption DEF TypeOK
  <2>2. abbrevTable \in Seq(Declarations) /\ abbrevTable # << >>
    BY DEF TypeOK
  <2> QED
    BY <2>1, <2>2
<1>6. pc \in {"readAbbrevTable", "readHeader", "readOneDIE", "done"} /\ AbbrevsRead
      /\ (pc = "done" => Len(debugInfo) = N)
  BY <1>2 DEF PlainInv
<1>7. unit.hasSections /\ NumberedAbbrevs(unit) /\ HeaderOK /\ End = Len(unit.body)
  BY <1>2, <1>4 DEF WellFormed, GoodHeader, HeaderOK, AddrSizeRead, End, HeaderSize
<1>8. AbbrevsRead'
  BY <1>2, <1>6, TableKept
<1>9. /\ pc' \in {"readAbbrevTable", "readHeader", "readOneDIE", "done"}
      /\ pc' = "done" => Len(debugInfo) = N
  <2>1. CASE MissingSections
    BY <2>1, <1>7 DEF MissingSections
  <2>2. CASE ReadAbbrev
    BY <2>2, <1>6 DEF ReadAbbrev
  <2>3. CASE UnexpectedAbbrev
    <3>1. Len(abbrevTable) \in 1..Len(unit.abbrevs) /\ unit.abbrevs[Len(abbrevTable)].code # Len(abbrevTable)
      BY <2>3, <1>5 DEF UnexpectedAbbrev, expectedCode
    <3> QED
      BY <3>1, <1>7 DEF NumberedAbbrevs
  <2>4. CASE EndOfAbbrevs
    BY <2>4 DEF EndOfAbbrevs
  <2>5. CASE ReadHeader
    BY <2>5, <1>7 DEF ReadHeader
  <2>6. CASE EndOfInfo
    <3>1. cursor >= Len(unit.body) /\ pc = "readOneDIE"
      BY <2>6, <1>7 DEF EndOfInfo
    <3>2. Len(debugInfo) = N
      <4>1. SUFFICES ASSUME Len(debugInfo) < N PROVE FALSE
        BY <1>2, <1>4 DEF PlainInv, EntriesRead
      <4>2. Len(debugInfo) + 1 \in 1..N /\ cursor = At(Len(debugInfo) + 1)
        BY <4>1, <1>2, <1>4 DEF PlainInv, EntriesRead
      <4>3. cursor < Len(unit.body)
        BY <4>2, <1>2, NextEntry
      <4> QED
        BY <3>1, <4>3, <1>4 DEF TypeOK
    <3>3. Len(parentDIEs) = 0
      BY <3>2, <1>2, <1>4 DEF PlainInv, StackRight, DepthAt
    <3>4. parentDIEs = << >>
      BY <3>3 DEF TypeOK
    <3> QED
      BY <2>6, <3>2, <3>4 DEF EndOfInfo
  <2>7. CASE UnknownAbbrev
    <3>1. cursor < Len(unit.body) /\ pc = "readOneDIE" /\ Byte(cursor) >= Len(abbrevTable)
      BY <2>7, <1>7 DEF UnknownAbbrev
    <3>2. Len(debugInfo) + 1 \in 1..N /\ cursor = unit.entries[Len(debugInfo) + 1].at
      BY <3>1, <1>2, <1>4 DEF PlainInv, EntriesRead, At
    <3>3. Byte(cursor) \in 1..Len(unit.abbrevs)
      BY <3>2, <1>2, EntryFacts DEF Byte
    <3>4. Len(abbrevTable) = Len(unit.abbrevs) + 1
      BY <3>1, <1>6 DEF AbbrevsRead
    <3> QED
      BY <3>1, <3>3, <3>4, <1>5
  <2>8. CASE Returned \/ UNCHANGED vars
    BY <2>8, <1>6 DEF Returned, vars
  <2> QED
    BY <2>1, <2>2, <2>3, <2>4, <2>5, <2>6, <2>7, <2>8 DEF OtherSteps
<1> QED
  BY <1>1, <1>3, <1>8, <1>9 DEF PlainInv, N

\* Every step keeps the correspondence with the entries.
LEMMA PlainStep == TypeOK /\ TreeInv /\ PlainInv /\ [Next]_vars => PlainInv'
<1>1. [Next]_vars => ReadDIE \/ OtherSteps
  BY DEF Next, OtherSteps
<1> QED
  BY <1>1, PlainReadDIE, PlainOtherSteps

\* Nothing read corresponds to no entries.
LEMMA PlainInit == Init => PlainInv
<1> SUFFICES ASSUME Init, Plain PROVE PlainInv
  BY DEF PlainInv
<1>1. TypeOK /\ Len(debugInfo) = 0 /\ Len(parentDIEs) = 0 /\ cursor = 1 /\ pc = "readAbbrevTable"
  BY TypeInit DEF Init
<1>2. N \in Nat \ {0} /\ unit.entries[1].at = 1 /\ unit.entries[1].depth = 0
  BY <1>1, EntryFacts DEF Plain, WellFormed, DepthsAgree
<1>3. Len(abbrevTable) = 1 /\ abbrevTable[1] = FakeAbbrev
  BY DEF Init
<1>4. Len(unit.abbrevs) \in Nat
  <2>1. unit.abbrevs \in Seq(Declarations)
    BY <1>1, UnitsAssumption DEF TypeOK
  <2> QED
    BY <2>1
<1> QED
  BY <1>1, <1>2, <1>3, <1>4 DEF PlainInv, AbbrevsRead, EntriesRead, StackRight, ChildrenRight, At, DepthAt

\* The invariant behind TreeRight and PlainUnitsAccepted.
LEMMA PlainHolds == Spec => [](TypeOK /\ TreeInv /\ PlainInv)
  BY TypeInit, TypeStep, TreeInit, TreeStep, PlainInit, PlainStep, PTL DEF Spec

\* A unit of which no two subtrees end together is read without an error.
THEOREM PlainAlwaysAccepted == Spec => []PlainUnitsAccepted
<1>1. PlainInv => PlainUnitsAccepted
  BY DEF PlainInv, PlainUnitsAccepted
<1> QED
  BY <1>1, PlainHolds, PTL

\* ... and the tree read is the tree the compiler wrote.
THEOREM TreeAlwaysRight == Spec => []TreeRight
<1>1. PlainInv => TreeRight
  BY DEF PlainInv, TreeRight, EntriesRead, ChildrenRight, N
<1> QED
  BY <1>1, PlainHolds, PTL

------------------------------------------------------------------------------
(* Well-formed units whose subtrees may end together *)

\* Some of the marks after an entry before entry i were missed: readOneDIE looks
\* for one mark only.
MissedBefore(i) == \E k \in 1..(i - 1) : unit.entries[k].marks > 1

\* The cursor is at entry i, and the stack as deep as it should be, or deeper if
\* a mark was missed.
AtEntry(i) ==
  /\ cursor = At(i)
  /\ IF MissedBefore(i) THEN Len(parentDIEs) > DepthAt(i) ELSE Len(parentDIEs) = DepthAt(i)

\* The cursor is at one of several marks after entry i, which is taken for a DIE.
\* The marks that are left could not close all that is open.
AmongMarks(i) ==
  /\ unit.entries[i].marks > 1
  /\ cursor \in AttrEnd(unit, i)..(EntryEnd(unit, i) - 1)
  /\ Len(parentDIEs) >= DepthAt(i + 1) + EntryEnd(unit, i) - cursor

CursorPlaced ==
  \/ \E i \in 1..(N + 1) : AtEntry(i)
  \/ \E i \in 1..N : AmongMarks(i)

WrittenInv ==
  WellFormed(unit, ObjAddrSize) =>
    /\ AbbrevsRead
    /\ pc = "done" => Plain
    /\ CursorPlaced

\* The DIE read at entry i: its abbreviation is the declared one, and a mark is
\* found after it exactly if the unit has one there.
LEMMA ReadAtEntry ==
  ASSUME TypeOK, WellFormed(unit, ObjAddrSize), AbbrevsRead, ReadDIE,
         NEW i \in 1..(N + 1), AtEntry(i)
  PROVE  /\ i \in 1..N
         /\ unit.entries[i].marks = 0 =>
              /\ cursor' = EntryEnd(unit, i)
              /\ Len(parentDIEs') = Len(parentDIEs) + Opens(unit, i)
         /\ unit.entries[i].marks # 0 =>
              /\ cursor' = AttrEnd(unit, i) + 1
              /\ Len(parentDIEs') = Len(parentDIEs) + Opens(unit, i) - 1
<1> DEFINE abbrev == abbrevTable[Byte(cursor) + 1]
           next   == cursor + 1 + abbrev.width
           opened == IF abbrev.children THEN Append(parentDIEs, cursor) ELSE parentDIEs
           mark   == opened # << >> /\ Byte(next) = 0
           e      == unit.entries[i]
<1>1. /\ cursor' = IF mark THEN next + 1 ELSE next
      /\ parentDIEs' = IF mark THEN Pop(opened) ELSE opened
      /\ cursor < End /\ pc = "readOneDIE"
  BY DEF ReadDIE
<1>2. N \in Nat \ {0} /\ Len(unit.body) \in Nat /\ End = Len(unit.body) /\ cursor \in Nat
  BY WrittenEntries DEF TypeOK
<1>3. i \in 1..N /\ cursor = e.at
  BY <1>1, <1>2 DEF AtEntry, At
<1>4. /\ e.at \in 1..Len(unit.body) /\ e.marks \in Nat /\ e.depth \in Nat
      /\ e.code \in 1..Len(unit.abbrevs) /\ unit.body[e.at] = e.code
      /\ DeclOf(unit, i) \in Declarations /\ DeclOf(unit, i).width \in Nat
      /\ Opens(unit, i) \in {0, 1}
  BY <1>3, WrittenEntries
<1>5. Byte(cursor) = e.code
  BY <1>3, <1>4 DEF Byte
<1>6. abbrev = DeclOf(unit, i)
  <2>1. Len(abbrevTable) = Len(unit.abbrevs) + 1
    BY <1>1 DEF AbbrevsRead
  <2>2. Len(unit.abbrevs) \in Nat
    <3>1. unit.abbrevs \in Seq(Declarations)
      BY UnitsAssumption DEF TypeOK
    <3> QED
      BY <3>1
  <2>3. e.code \in 1..(Len(abbrevTable) - 1)
    BY <1>4, <2>1, <2>2
  <2> QED
    BY <1>5, <2>3 DEF AbbrevsRead, DeclOf
<1>7. next = AttrEnd(unit, i) /\ next \in Nat /\ EntryEnd(unit, i) = next + e.marks
  BY <1>3, <1>4, <1>6 DEF AttrEnd, EntryEnd
<1>8. opened \in Seq(Nat) /\ Len(opened) = Len(parentDIEs) + Opens(unit, i) /\ Len(opened) \in Nat
  <2>1. abbrev.children \in BOOLEAN
    BY <1>4, <1>6 DEF Declarations
  <2>2. opened = IF Opens(unit, i) = 1 THEN Append(parentDIEs, cursor) ELSE parentDIEs
    BY <1>6, <2>1 DEF Opens
  <2>3. parentDIEs \in Seq(Nat)
    BY DEF TypeOK
  <2> HIDE DEF opened
  <2>4. CASE Opens(unit, i) = 1
    BY <2>2, <2>3, <2>4, <1>2, AppendProperties
  <2>5. CASE Opens(unit, i) = 0
    BY <2>2, <2>3, <2>5
  <2> QED
    BY <2>4, <2>5, <1>4
<1>9. Len(opened) >= DepthAt(i + 1) + e.marks /\ DepthAt(i + 1) \in Nat
  <2>1. Len(parentDIEs) >= DepthAt(i) /\ Len(parentDIEs) \in Nat
    BY <1>3, <1>4, SMTT(30) DEF AtEntry, DepthAt, TypeOK
  <2>2. DepthAt(i) = e.depth
    BY <1>2, <1>3 DEF DepthAt
  <2>3. DepthAt(i + 1) = e.depth + Opens(unit, i) - e.marks /\ DepthAt(i + 1) \in Nat
    BY <1>3, WrittenNext
  <2> HIDE DEF e, opened
  <2> QED
    BY <2>1, <2>2, <2>3, <1>4, <1>8, SMTT(30)
<1> HIDE DEF opened, next, abbrev
<1>10. CASE e.marks = 0
  <2>1. ~ mark
    <3>1. CASE i < N
      <4>1. next = At(i + 1)
        BY <1>3, <1>7, <1>10, WrittenNext
      <4> QED
        BY <4>1, <3>1, <1>3, WrittenNext DEF Byte
    <3>2. CASE i = N
      <4>1. DepthAt(i + 1) = 0 /\ e.depth + Opens(unit, i) = 0
        <5>1. DepthAt(i + 1) = 0
          BY <3>2, <1>2 DEF DepthAt
        <5>2. DepthAt(i + 1) = e.depth + Opens(unit, i) - e.marks
          BY <1>3, WrittenNext
        <5> QED
          BY <5>1, <5>2, <1>4, <1>10
      <4>2. i = 1
        <5>1. i > 1 => e.depth > 0
          BY <1>3, WrittenNext
        <5> QED
          BY <4>1, <5>1, <1>2, <1>3, <1>4
      <4>3. Len(parentDIEs) = 0
        <5>1. ~ MissedBefore(i)
          BY <4>2 DEF MissedBefore
        <5> QED
          BY <5>1, <4>1, <1>2, <1>3, <1>4 DEF AtEntry, DepthAt
      <4>4. Len(opened) = 0
        BY <4>1, <4>3, <1>4, <1>8
      <4> QED
        BY <4>4, <1>8
    <3> QED
      BY <3>1, <3>2, <1>2, <1>3
  <2> QED
    BY <2>1, <1>1, <1>3, <1>7, <1>8, <1>10
<1>11. CASE e.marks # 0
  <2>1. Byte(next) = 0
    <3>1. next \in AttrEnd(unit, i)..(EntryEnd(unit, i) - 1)
      BY <1>4, <1>7, <1>11
    <3> QED
      BY <3>1, <1>3, WrittenNext DEF Byte
  <2>2. Len(opened) > 0
    BY <1>4, <1>8, <1>9, <1>11
  <2>3. opened # << >>
    BY <2>2, <1>8
  <2>4. cursor' = AttrEnd(unit, i) + 1 /\ Len(parentDIEs') = Len(opened) - 1
    BY <2>1, <2>3, <1>1, <1>7, <1>8, PopProperties
  <2>5. Len(parentDIEs') = Len(parentDIEs) + Opens(unit, i) - 1
    <3>1. Len(parentDIEs) \in Nat
      BY DEF TypeOK
    <3> QED
      BY <2>4, <3>1, <1>4, <1>8
  <2> QED
    BY <2>4, <2>5, <1>3, <1>11
<1> QED
  BY <1>10, <1>11

\* From an entry the cursor gets to the next one, or among several marks.
LEMMA PlacedFromEntry ==
  ASSUME TypeOK, WellFormed(unit, ObjAddrSize), AbbrevsRead, ReadDIE,
         NEW i \in 1..(N + 1), AtEntry(i)
  PROVE  CursorPlaced'
<1> DEFINE e == unit.entries[i]
           o == Opens(unit, i)
           L == Len(parentDIEs)
           M == Len(parentDIEs')
<1>1. /\ i \in 1..N
      /\ e.marks = 0 => cursor' = EntryEnd(unit, i) /\ M = L + o
      /\ e.marks # 0 => cursor' = AttrEnd(unit, i) + 1 /\ M = L + o - 1
  BY ReadAtEntry
<1>2. N \in Nat \ {0} /\ e.at \in Nat /\ e.marks \in Nat /\ e.depth \in Nat /\ o \in {0, 1}
      /\ DeclOf(unit, i).width \in Nat
  BY <1>1, WrittenEntries
<1>3. /\ At(i + 1) = EntryEnd(unit, i) /\ DepthAt(i + 1) = e.depth + o - e.marks
      /\ DepthAt(i + 1) \in Nat
  BY <1>1, WrittenNext
<1>4. IF MissedBefore(i) THEN L > e.depth ELSE L = e.depth
  BY <1>1, <1>2 DEF AtEntry, DepthAt
<1>5. L \in Nat /\ unit' = unit
  BY DEF TypeOK, ReadDIE
<1>6. AttrEnd(unit, i) \in Nat /\ EntryEnd(unit, i) = AttrEnd(unit, i) + e.marks
  BY <1>2 DEF AttrEnd, EntryEnd
<1>7. i + 1 \in 1..(N + 1)
  BY <1>1, <1>2
<1> DEFINE Placed(k) ==
             /\ cursor' = At(k)
             /\ IF MissedBefore(k) THEN M > DepthAt(k) ELSE M = DepthAt(k)
           Among(k) ==
             /\ unit.entries[k].marks > 1
             /\ cursor' \in AttrEnd(unit, k)..(EntryEnd(unit, k) - 1)
             /\ M >= DepthAt(k + 1) + EntryEnd(unit, k) - cursor'
<1>8. Placed(i + 1) \/ Among(i)
  <2>1. CASE e.marks \in {0, 1}
    <3>1. MissedBefore(i + 1) <=> MissedBefore(i)
      <4>1. \A k \in 1..((i + 1) - 1) : k \in 1..(i - 1) \/ k = i
        BY <1>1, <1>2
      <4>2. \A k \in 1..(i - 1) : k \in 1..((i + 1) - 1)
        BY <1>1, <1>2
      <4> QED
        BY <4>1, <4>2, <2>1 DEF MissedBefore
    <3>2. cursor' = At(i + 1) /\ M = L + o - e.marks
      <4> HIDE DEF e, o, L, M
      <4> QED
        BY <2>1, <1>1, <1>2, <1>3, <1>5, <1>6
    <3> HIDE DEF e, o, L, M
    <3> QED
      BY <3>1, <3>2, <1>2, <1>3, <1>4, <1>5 DEF Placed
  <2>2. CASE e.marks > 1
    <3>1. cursor' = AttrEnd(unit, i) + 1 /\ M = L + o - 1 /\ L >= e.depth
      <4> HIDE DEF e, o, L, M
      <4> QED
        BY <2>2, <1>1, <1>2, <1>4, <1>5
    <3>2. e.marks > 1
      BY <2>2
    <3> HIDE DEF L, M, o
    <3>3. M >= DepthAt(i + 1) + EntryEnd(unit, i) - cursor'
      <4> HIDE DEF e
      <4> QED
        BY <3>1, <2>2, <1>2, <1>3, <1>5, <1>6
    <3>4. cursor' \in AttrEnd(unit, i)..(EntryEnd(unit, i) - 1)
      <4> HIDE DEF e
      <4> QED
        BY <3>1, <2>2, <1>2, <1>6
    <3> QED
      BY <3>2, <3>3, <3>4
  <2> HIDE DEF Placed, Among, e
  <2>3. e.marks \in {0, 1} \/ e.marks > 1
    BY <1>2
  <2> QED
    BY <2>1, <2>2, <2>3
<1>9. ASSUME NEW k PROVE (AtEntry(k))' <=> Placed(k)
  BY <1>5 DEF AtEntry, At, DepthAt, MissedBefore, N
<1> QED
  BY <1>1, <1>5, <1>7, <1>8, <1>9 DEF CursorPlaced, AtEntry, AmongMarks, N, At, DepthAt, MissedBefore

\* Among marks, the byte at the cursor is read as a DIE without attributes, and
\* the mark after it, if there is one, is found.
LEMMA PlacedFromMarks ==
  ASSUME TypeOK, WellFormed(unit, ObjAddrSize), AbbrevsRead, ReadDIE,
         NEW i \in 1..N, AmongMarks(i)
  PROVE  CursorPlaced'
<1> DEFINE E == EntryEnd(unit, i)
           L == Len(parentDIEs)
           M == Len(parentDIEs')
           D == DepthAt(i + 1)
           mark == parentDIEs # << >> /\ Byte(cursor + 1) = 0
<1>1. /\ cursor < Len(unit.body) /\ unit' = unit
      /\ N \in Nat \ {0} /\ Len(unit.body) \in Nat /\ cursor \in Nat
      /\ unit.entries[i].marks > 1 /\ unit.entries[i].marks \in Nat
  BY WrittenEntries DEF TypeOK, ReadDIE, AmongMarks
<1>2. /\ At(i + 1) = E /\ D \in Nat
      /\ \A p \in AttrEnd(unit, i)..(E - 1) : unit.body[p] = 0 /\ p \in 1..Len(unit.body)
      /\ i < N => unit.body[E] # 0 /\ E \in 1..Len(unit.body)
  BY WrittenNext
<1>3. AttrEnd(unit, i) \in Nat /\ E \in Nat
  BY WrittenNext
<1>4. cursor \in AttrEnd(unit, i)..(E - 1) /\ L >= D + E - cursor
  BY DEF AmongMarks
<1>5. parentDIEs \in Seq(Nat) /\ L \in Nat
  BY DEF TypeOK
<1> HIDE DEF E, D
<1>6. parentDIEs # << >>
  BY <1>2, <1>3, <1>4, <1>5
<1>7. /\ cursor' = IF mark THEN cursor + 2 ELSE cursor + 1
      /\ M = IF mark THEN L - 1 ELSE L
  <2>1. Byte(cursor) = 0
    BY <1>2, <1>4 DEF Byte
  <2>2. abbrevTable[Byte(cursor) + 1] = FakeAbbrev
    BY <2>1 DEF AbbrevsRead
  <2>3. /\ cursor' = IF mark THEN (cursor + 1 + 0) + 1 ELSE cursor + 1 + 0
        /\ parentDIEs' = IF mark THEN Pop(parentDIEs) ELSE parentDIEs
    <3>1. cursor + 1 + 0 = cursor + 1
      BY <1>1
    <3>2. FakeAbbrev.width = 0 /\ FakeAbbrev.children = FALSE
      BY DEF FakeAbbrev
    <3> QED
      BY <2>2, <3>1, <3>2 DEF ReadDIE
  <2> QED
    BY <2>3, <1>1, <1>5, <1>6, PopProperties
<1>8. cursor + 1 < E => mark
  <2>1. SUFFICES ASSUME cursor + 1 < E PROVE mark
    OBVIOUS
  <2>2. cursor + 1 \in AttrEnd(unit, i)..(E - 1)
    BY <2>1, <1>1, <1>3, <1>4
  <2> QED
    BY <2>2, <1>2, <1>6 DEF Byte
<1>9. cursor + 1 = E => ~ mark
  <2>1. SUFFICES ASSUME cursor + 1 = E PROVE ~ mark
    OBVIOUS
  <2>2. i < N
    <3>1. i = N => E = Len(unit.body) + 1
      BY <1>1, <1>2 DEF At
    <3> QED
      BY <2>1, <3>1, <1>1
  <2> QED
    BY <2>1, <2>2, <1>2 DEF Byte
<1> HIDE DEF mark, L, M
<1>10. \/ cursor' = E /\ M > D
       \/ cursor' \in AttrEnd(unit, i)..(E - 1) /\ M >= D + E - cursor'
  <2>1. cursor + 1 <= E
    BY <1>1, <1>3, <1>4
  <2>2. CASE cursor + 1 = E
    BY <2>2, <1>1, <1>2, <1>3, <1>4, <1>5, <1>7, <1>9
  <2>3. CASE cursor + 1 < E
    <3>1. cursor' = cursor + 2 /\ M = L - 1
      BY <2>3, <1>7, <1>8
    <3>2. /\ cursor' = E \/ cursor' \in AttrEnd(unit, i)..(E - 1)
          /\ cursor' = cursor + 2
      BY <2>3, <3>1, <1>1, <1>3, <1>4
    <3>3. M + 1 >= D + E - cursor
      BY <3>1, <1>4, <1>5
    <3>4. M \in Int /\ D \in Int /\ E \in Int /\ cursor \in Int
      BY <3>1, <1>1, <1>2, <1>3, <1>5
    <3> QED
      BY <3>2, <3>3, <3>4
  <2> QED
    BY <2>1, <2>2, <2>3, <1>1, <1>3
<1>11. MissedBefore(i + 1) /\ i + 1 \in 1..(N + 1)
  <2>1. i \in 1..((i + 1) - 1) /\ i + 1 \in 1..(N + 1)
    BY <1>1
  <2> QED
    BY <2>1, <1>1 DEF MissedBefore
<1>12. CASE cursor' = E /\ M > D
  <2>1. cursor' = At(i + 1) /\ M > D
    BY <1>2, <1>12
  <2>2. (AtEntry(i + 1))'
    BY <2>1, <1>1, <1>11 DEF AtEntry, At, DepthAt, MissedBefore, N, M, D
  <2> QED
    BY <2>2, <1>1, <1>11 DEF CursorPlaced, N
<1>13. CASE cursor' \in AttrEnd(unit, i)..(E - 1) /\ M >= D + E - cursor'
  <2>1. (AmongMarks(i))'
    BY <1>1, <1>13 DEF AmongMarks, DepthAt, N, M, D, E
  <2> QED
    BY <2>1, <1>1 DEF CursorPlaced, N
<1> QED
  BY <1>10, <1>12, <1>13

\* At the end of a unit some of whose marks were missed, the stack is not empty.
LEMMA EndReached ==
  ASSUME TypeOK, WellFormed(unit, ObjAddrSize), CursorPlaced, EndOfInfo, parentDIEs = << >>
  PROVE  Plain
<1>1. /\ cursor >= Len(unit.body) /\ cursor \in Nat
      /\ N \in Nat \ {0} /\ Len(unit.body) \in Nat
      /\ \A i \in 1..N : unit.entries[i].marks \in Nat
  BY WrittenEntries DEF TypeOK, EndOfInfo
<1>2. Len(parentDIEs) = 0
  OBVIOUS
<1>3. ASSUME NEW i \in 1..(N + 1), AtEntry(i) PROVE Plain
  <2>1. i = N + 1
    <3>1. SUFFICES ASSUME i \in 1..N PROVE FALSE
      BY <1>1
    <3> QED
      BY <3>1, <1>1, <1>3, WrittenNext DEF AtEntry
  <2>2. DepthAt(i) = 0
    BY <2>1, <1>1 DEF DepthAt
  <2>3. ~ MissedBefore(i)
    BY <2>2, <1>2, <1>3 DEF AtEntry
  <2>4. \A k \in 1..N : unit.entries[k].marks <= 1
    BY <2>1, <2>3, <1>1 DEF MissedBefore
  <2> QED
    BY <2>4 DEF Plain, NoAdjacentMarks, N
<1>4. ASSUME NEW i \in 1..N, AmongMarks(i) PROVE FALSE
  <2>1. DepthAt(i + 1) \in Nat
    BY WrittenNext
  <2>2. AttrEnd(unit, i) \in Nat /\ EntryEnd(unit, i) \in Nat
    BY WrittenNext
  <2> QED
    BY <2>1, <2>2, <1>1, <1>2, <1>4 DEF AmongMarks
<1> QED
  BY <1>3, <1>4 DEF CursorPlaced

\* Every step keeps the cursor placed.
LEMMA WrittenStep == TypeOK /\ WrittenInv /\ [Next]_vars => WrittenInv'
<1> SUFFICES ASSUME TypeOK, WrittenInv, [Next]_vars, WellFormed(unit', ObjAddrSize)
             PROVE  AbbrevsRead' /\ (pc' = "done" => Plain') /\ CursorPlaced'
  BY DEF WrittenInv
<1>1. CASE ReadDIE
  <2>1. unit' = unit /\ pc' = pc /\ pc # "done" /\ abbrevTable' = abbrevTable
    BY <1>1 DEF ReadDIE
  <2>2. WellFormed(unit, ObjAddrSize) /\ AbbrevsRead /\ CursorPlaced
    BY <2>1 DEF WrittenInv
  <2>3. AbbrevsRead'
    BY <2>1, <2>2 DEF AbbrevsRead
  <2>4. CursorPlaced'
    BY <2>2, <1>1, PlacedFromEntry, PlacedFromMarks DEF CursorPlaced
  <2> QED
    BY <2>1, <2>3, <2>4
<1>2. CASE OtherSteps
  <2>1. UNCHANGED <<unit, cursor, parentDIEs, debugInfo>>
    BY <1>2, OtherStepsKeepTree
  <2>2. WellFormed(unit, ObjAddrSize) /\ AbbrevsRead /\ CursorPlaced /\ (pc = "done" => Plain)
    BY <2>1 DEF WrittenInv
  <2>3. AbbrevsRead'
    BY <2>2, <1>2, TableKept
  <2>4. CursorPlaced'
    BY <2>1, <2>2 DEF CursorPlaced, AtEntry, AmongMarks, At, DepthAt, MissedBefore, N
  <2>5. pc' = "done" => Plain
    <3>1. pc' = "done" => pc = "done" \/ (EndOfInfo /\ parentDIEs = << >>)
      BY <1>2 DEF OtherSteps, MissingSections, ReadAbbrev, UnexpectedAbbrev, EndOfAbbrevs,
                  ReadHeader, EndOfInfo, UnknownAbbrev, Returned, vars
    <3> QED
      BY <3>1, <2>2, EndReached
  <2>6. Plain' <=> Plain
    BY <2>1 DEF Plain
  <2> QED
    BY <2>3, <2>4, <2>5, <2>6
<1> QED
  BY <1>1, <1>2 DEF Next, OtherSteps

\* The cursor starts at the first entry.
LEMMA WrittenInit == Init => WrittenInv
<1> SUFFICES ASSUME Init, WellFormed(unit, ObjAddrSize) PROVE AbbrevsRead /\ CursorPlaced /\ pc # "done"
  BY DEF WrittenInv
<1>1. TypeOK /\ Len(parentDIEs) = 0 /\ cursor = 1 /\ pc = "readAbbrevTable"
      /\ Len(abbrevTable) = 1 /\ abbrevTable[1] = FakeAbbrev
  BY TypeInit DEF Init
<1>2. N \in Nat \ {0} /\ unit.entries[1].at = 1 /\ unit.entries[1].depth = 0
  BY <1>1, WrittenEntries DEF WellFormed, DepthsAgree
<1>3. Len(unit.abbrevs) \in Nat
  <2>1. unit.abbrevs \in Seq(Declarations)
    BY <1>1, UnitsAssumption DEF TypeOK
  <2> QED
    BY <2>1
<1>4. AtEntry(1) /\ 1 \in 1..(N + 1)
  BY <1>1, <1>2 DEF AtEntry, MissedBefore, At, DepthAt
<1> QED
  BY <1>1, <1>3, <1>4 DEF CursorPlaced, AbbrevsRead

\* The invariant behind AcceptedTreeRight and StaysInUnit.
LEMMA WrittenHolds == Spec => [](TypeOK /\ TreeInv /\ PlainInv /\ WrittenInv)
  BY PlainHolds, TypeInit, TypeStep, WrittenInit, WrittenStep, PTL DEF Spec

\* A well-formed unit is never misread in silence: if the assertion at the end of
\* readDebugInfo holds, no mark was missed, and every DIE is below its parent.
THEOREM AcceptedAlwaysRight == Spec => []AcceptedTreeRight
<1>1. PlainInv /\ WrittenInv => AcceptedTreeRight
  BY DEF PlainInv, WrittenInv, AcceptedTreeRight, EntriesRead, ChildrenRight, N
<1> QED
  BY <1>1, WrittenHolds, PTL

\* Even when marks were missed, readOneDIE never leaves a well-formed unit.
THEOREM AlwaysStaysInUnit == Spec => []StaysInUnit
<1>1. ASSUME TypeOK, WrittenInv, WellFormed(unit, ObjAddrSize) PROVE cursor <= Len(unit.body) + 1
  <2>1. N \in Nat \ {0} /\ Len(unit.body) \in Nat
    BY <1>1, WrittenEntries
  <2>2. ASSUME NEW i \in 1..(N + 1), AtEntry(i) PROVE cursor <= Len(unit.body) + 1
    <3>1. CASE i \in 1..N
      BY <3>1, <2>1, <2>2, <1>1, WrittenEntries DEF AtEntry, At
    <3>2. CASE i = N + 1
      BY <3>2, <2>1, <2>2 DEF AtEntry, At
    <3> QED
      BY <3>1, <3>2, <2>1
  <2>3. ASSUME NEW i \in 1..N, AmongMarks(i) PROVE cursor <= Len(unit.body) + 1
    <3>1. cursor \in 1..Len(unit.body)
      BY <2>3, <1>1, WrittenNext DEF AmongMarks
    <3> QED
      BY <3>1, <2>1
  <2> QED
    BY <2>2, <2>3, <1>1 DEF WrittenInv, CursorPlaced
<1>2. TypeOK /\ WrittenInv => StaysInUnit
  BY <1>1 DEF StaysInUnit
<1> QED
  BY <1>2, WrittenHolds, PTL

------------------------------------------------------------------------------
(* The reader implements the delivery of the tree *)

\* The children lists, as pairs, are the parents of the entries read.
LEMMA EdgesAreParents ==
  ASSUME Plain, PlainInv
  PROVE  Edges = {e \in (1..Len(debugInfo)) \X (1..Len(debugInfo)) : IsParent(unit, e[1], e[2])}
  BY DEF PlainInv, ChildrenRight, Edges

\* The steps of the reader keep the unit, and what may be promised of it.
LEMMA PlainKept == [Next]_vars => UNCHANGED <<unit, Plain>>
<1>1. [Next]_vars => UNCHANGED unit
  BY DEF Next, vars, MissingSections, ReadAbbrev, UnexpectedAbbrev, EndOfAbbrevs, ReadHeader, EndOfInfo,
         UnknownAbbrev, ReadDIE, Returned
<1>2. UNCHANGED unit => UNCHANGED Plain
  BY DEF Plain
<1> QED
  BY <1>1, <1>2

\* An iteration of readOneDIE delivers one DIE of the tree.
LEMMA DeliverStep ==
  ASSUME TypeOK, TreeInv, PlainInv, Plain, ReadDIE
  PROVE  Tree!Deliver
<1> DEFINE n == Len(debugInfo)
<1>1. unit' = unit /\ n \in Nat /\ Len(debugInfo') = n + 1 /\ n + 1 \in 1..N
  BY NextRead, ReadDIEEffect DEF TypeOK, ReadDIE
<1>2. PlainInv' /\ Plain'
  BY <1>1, PlainReadDIE DEF Plain
<1>3. Edges = {e \in (1..n) \X (1..n) : IsParent(unit, e[1], e[2])}
  BY EdgesAreParents
<1>4. Edges' = {e \in (1..(n + 1)) \X (1..(n + 1)) : IsParent(unit, e[1], e[2])}
  BY <1>1, <1>2 DEF PlainInv, ChildrenRight, Edges
<1> HIDE DEF n
<1>5. \A i \in 1..(n + 1), j \in 1..(n + 1) : IsParent(unit, i, j) => i \in 1..n
  BY <1>1 DEF IsParent
<1>6. Edges' = Edges \cup {<<i, n + 1>> : i \in {k \in 1..n : IsParent(unit, k, n + 1)}}
  <2> DEFINE new == {<<i, n + 1>> : i \in {k \in 1..n : IsParent(unit, k, n + 1)}}
  <2>1. ASSUME NEW i \in 1..(n + 1), NEW j \in 1..(n + 1)
        PROVE  <<i, j>> \in Edges' <=> <<i, j>> \in Edges \/ <<i, j>> \in new
    <3>1. <<i, j>> \in Edges' <=> IsParent(unit, i, j)
      BY <1>4
    <3>2. CASE j \in 1..n
      <4>1. <<i, j>> \in Edges <=> IsParent(unit, i, j)
        BY <3>2, <1>3, <1>5
      <4>2. <<i, j>> \notin new
        BY <3>2, <1>1
      <4> QED
        BY <3>1, <4>1, <4>2
    <3>3. CASE j = n + 1
      <4>1. <<i, j>> \notin Edges
        BY <3>3, <1>1, <1>3
      <4>2. <<i, j>> \in new <=> IsParent(unit, i, j)
        BY <3>3, <1>5
      <4> QED
        BY <3>1, <4>1, <4>2
    <3> QED
      BY <3>2, <3>3, <1>1
  <2>2. /\ Edges' \subseteq (1..(n + 1)) \X (1..(n + 1))
        /\ Edges \subseteq (1..(n + 1)) \X (1..(n + 1))
        /\ new \subseteq (1..(n + 1)) \X (1..(n + 1))
    <3>1. 1..n \subseteq 1..(n + 1) /\ n + 1 \in 1..(n + 1)
      BY <1>1
    <3> QED
      BY <3>1, <1>3, <1>4
  <2> HIDE DEF new
  <2>3. Edges' = Edges \cup new
    BY <2>1, <2>2
  <2> QED
    BY <2>3 DEF new
<1>7. Len(debugInfo) < Len(unit.entries)
  BY <1>1, EntryFacts DEF N, n
<1>8. \A i, j : Tree!IsParent(unit, i, j) <=> IsParent(unit, i, j)
  BY DEF Tree!IsParent, IsParent
<1>9. UNCHANGED <<unit, Plain>>
  BY PlainKept DEF Next
<1> QED
  BY <1>1, <1>6, <1>7, <1>8, <1>9 DEF Tree!Deliver, n

\* All other steps deliver nothing.
LEMMA OtherStepsStutter == OtherSteps /\ [Next]_vars => UNCHANGED Tree!treeVars
  BY OtherStepsKeepTree, PlainKept DEF Tree!treeVars, Edges, IsChild

\* Reading is delivering the tree of the compiler, entry by entry, for the units
\* the promise is about (readOneDIE against DIETree).
THEOREM ReaderDeliversTree == Spec => Tree!SafeSpec
<1>1. Init => Tree!Init
  BY DEF Init, Tree!Init, Edges
<1>2. TypeOK /\ TreeInv /\ PlainInv /\ [Next]_vars => [Tree!Deliver \/ Tree!NoPromise]_(Tree!treeVars)
  <2>1. SUFFICES ASSUME TypeOK, TreeInv, PlainInv, [Next]_vars
                 PROVE  [Tree!Deliver \/ Tree!NoPromise]_(Tree!treeVars)
    OBVIOUS
  <2>2. CASE ~Plain
    BY <2>1, <2>2, PlainKept DEF Tree!NoPromise
  <2>3. CASE Plain
    <3>1. ReadDIE \/ OtherSteps
      BY <2>1 DEF Next, OtherSteps
    <3> QED
      BY <2>1, <2>3, <3>1, DeliverStep, OtherStepsStutter
  <2> QED
    BY <2>2, <2>3
<1> QED
  BY <1>1, <1>2, PlainHolds, PTL DEF Spec, Tree!SafeSpec

------------------------------------------------------------------------------
(* For those that run the reader *)

\* The children of a DIE are in the order they were read in.
Rising(c) == \A k, l \in 1..Len(c) : k < l => c[k] < c[l]

ChildrenInOrder == \A i \in 1..Len(debugInfo) : Rising(debugInfo[i].childrenOffsets)

\* What readOneDIE does to the list of a DIE that was there.
LEMMA ListsAfterRead ==
  ASSUME TypeOK, ReadDIE, NEW i \in 1..Len(debugInfo)
  PROVE  \/ debugInfo'[i].childrenOffsets = debugInfo[i].childrenOffsets
         \/ debugInfo'[i].childrenOffsets = Append(debugInfo[i].childrenOffsets, cursor)
<1> DEFINE n == Len(debugInfo)
           p == DIEIndex(Top(parentDIEs))
           new == [tag |-> abbrevTable[Byte(cursor) + 1].tag, offset |-> cursor, childrenOffsets |-> << >>]
<1>1. debugInfo' = Append(Linked, new) /\ Linked \in Seq(DIE) /\ Len(Linked) = n
  BY LinkedType DEF ReadDIE
<1>2. debugInfo'[i] = Linked[i]
  <2> HIDE DEF new
  <2> QED
    BY <1>1
<1>3. Linked = IF parentDIEs = << >> THEN debugInfo
               ELSE [debugInfo EXCEPT ![p].childrenOffsets = Append(@, cursor)]
  BY DEF Linked
<1> HIDE DEF p, new
<1>4. debugInfo[i] \in DIE /\ i \in DOMAIN debugInfo
  BY DIETypes DEF TypeOK
<1>5. CASE parentDIEs = << >> \/ i # p
  BY <1>2, <1>3, <1>4, <1>5
<1>6. CASE parentDIEs # << >> /\ i = p
  <2> DEFINE x == [debugInfo[p] EXCEPT !.childrenOffsets = Append(@, cursor)]
  <2>1. Linked = [debugInfo EXCEPT ![p] = x]
    BY <1>3, <1>6
  <2> HIDE DEF x
  <2>2. Linked[i] = x
    BY <2>1, <1>4, <1>6
  <2> QED
    BY <1>2, <2>2, <1>4, <1>6 DEF DIE, x
<1> QED
  BY <1>5, <1>6

LEMMA OrderReadDIE == ASSUME TypeOK, TreeInv, ChildrenInOrder, ReadDIE PROVE ChildrenInOrder'
<1> DEFINE n == Len(debugInfo)
<1>1. n \in Nat /\ Len(debugInfo') = n + 1 /\ debugInfo'[n + 1].childrenOffsets = << >>
  BY ReadDIEEffect DEF TypeOK
<1>2. ASSUME NEW i \in 1..n PROVE Rising(debugInfo'[i].childrenOffsets)
  <2> DEFINE c == debugInfo[i].childrenOffsets
  <2>1. c \in Seq(Nat) /\ cursor \in Nat
    BY DIETypes DEF DIE, TypeOK
  <2>2. \A k \in 1..Len(c) : c[k] < cursor
    <3> SUFFICES ASSUME NEW k \in 1..Len(c) PROVE c[k] < cursor
      OBVIOUS
    <3>1. c[k] \in Nat /\ IsChild(c[k], debugInfo[i])
      BY <2>1 DEF IsChild
    <3>2. PICK j \in (i + 1)..n : debugInfo[j].offset = c[k]
      BY <3>1 DEF TreeInv, ChildrenLater
    <3>3. j \in 1..n
      BY <1>1
    <3> QED
      BY <3>2, <3>3 DEF TreeInv, Ordered
  <2>3. Rising(c)
    BY DEF ChildrenInOrder
  <2> HIDE DEF c
  <2>4. Rising(Append(c, cursor))
    <3>1. /\ Len(c) \in Nat /\ Len(Append(c, cursor)) = Len(c) + 1
          /\ Append(c, cursor)[Len(c) + 1] = cursor
          /\ \A k \in 1..Len(c) : Append(c, cursor)[k] = c[k]
      BY <2>1
    <3> QED
      BY <2>2, <2>3, <3>1 DEF Rising
  <2> QED
    BY <2>3, <2>4, ListsAfterRead DEF c
<1>3. Rising(debugInfo'[n + 1].childrenOffsets)
  BY <1>1 DEF Rising
<1> HIDE DEF n
<1>4. \A i \in 1..(n + 1) : i \in 1..n \/ i = n + 1
  BY <1>1
<1> QED
  BY <1>1, <1>2, <1>3, <1>4 DEF ChildrenInOrder

\* What is known of the unit by then: there is one, and its header was accepted.
HeaderInv ==
  /\ pc = "segv" => ~unit.hasSections
  /\ pc \notin {"readAbbrevTable", "segv"} => unit.hasSections
  /\ pc \in {"readOneDIE", "done", "abort"} => HeaderOK

LEMMA HeaderStep == HeaderInv /\ [Next]_vars => HeaderInv'
  BY DEF Next, vars, Ended, MissingSections, ReadAbbrev, UnexpectedAbbrev, EndOfAbbrevs, ReadHeader, EndOfInfo,
         UnknownAbbrev, ReadDIE, Returned, HeaderInv, HeaderOK, AddrSizeRead

\* What holds while a unit is read.
ReadInv == TypeOK /\ TreeInv /\ PlainInv /\ WrittenInv /\ ChildrenInOrder /\ HeaderInv

LEMMA ReadInit == Init => ReadInv
<1>1. Init => ChildrenInOrder /\ HeaderInv
  BY DEF Init, ChildrenInOrder, HeaderInv
<1> QED
  BY <1>1, TypeInit, TreeInit, PlainInit, WrittenInit DEF ReadInv

LEMMA ReadStep == ReadInv /\ [Next]_vars => ReadInv'
<1> SUFFICES ASSUME ReadInv, [Next]_vars PROVE ReadInv'
  OBVIOUS
<1>1. TypeOK /\ TreeInv /\ PlainInv /\ WrittenInv /\ ChildrenInOrder /\ HeaderInv
  BY DEF ReadInv
<1>2. ChildrenInOrder'
  <2>1. CASE ReadDIE
    BY <1>1, <2>1, OrderReadDIE
  <2>2. CASE OtherSteps
    <3>1. debugInfo' = debugInfo
      BY <2>2, OtherStepsKeepTree
    <3> QED
      BY <1>1, <3>1 DEF ChildrenInOrder
  <2> QED
    BY <2>1, <2>2 DEF Next, OtherSteps
<1> QED
  BY <1>1, <1>2, TypeStep, TreeStep, PlainStep, WrittenStep, HeaderStep DEF ReadInv

\* DIE i is entry i, and its children are those of the entry, in their order.
EntryRead(i) ==
  /\ debugInfo[i] \in DIE
  /\ debugInfo[i].tag = DeclOf(unit, i).tag
  /\ debugInfo[i].offset = unit.entries[i].at
  /\ Rising(debugInfo[i].childrenOffsets)
  /\ \A o \in Nat : IsChild(o, debugInfo[i]) <=>
                     \E j \in 1..Len(unit.entries) : o = unit.entries[j].at /\ IsParent(unit, i, j)

\* A well-formed unit that has been read is what the compiler wrote.
LEMMA UnitIsRead ==
  ASSUME ReadInv, WellFormed(unit, ObjAddrSize), pc = "done"
  PROVE  Len(debugInfo) = Len(unit.entries) /\ \A i \in 1..Len(unit.entries) : EntryRead(i)
<1>1. TypeOK /\ TreeInv /\ PlainInv /\ Plain /\ ChildrenInOrder
  BY DEF ReadInv, WrittenInv
<1>2. Len(debugInfo) = N /\ EntriesRead /\ ChildrenRight
  BY <1>1 DEF PlainInv
<1>3. ASSUME NEW i \in 1..N, NEW o \in Nat
      PROVE  IsChild(o, debugInfo[i]) <=> \E j \in 1..N : o = unit.entries[j].at /\ IsParent(unit, i, j)
  <2>0. N \in Nat /\ \A j \in 1..N : debugInfo[j].offset = unit.entries[j].at
    BY <1>1, <1>2, WrittenEntries DEF EntriesRead
  <2>1. ASSUME IsChild(o, debugInfo[i])
        PROVE  \E j \in 1..N : o = unit.entries[j].at /\ IsParent(unit, i, j)
    <3>1. PICK j \in (i + 1)..N : debugInfo[j].offset = o
      BY <1>1, <1>2, <2>1 DEF TreeInv, ChildrenLater
    <3>2. j \in 1..N
      BY <2>0
    <3> QED
      BY <1>2, <2>0, <2>1, <3>1, <3>2 DEF ChildrenRight
  <2>2. ASSUME NEW j \in 1..N, o = unit.entries[j].at, IsParent(unit, i, j) PROVE IsChild(o, debugInfo[i])
    BY <1>2, <2>0, <2>2 DEF ChildrenRight
  <2> QED
    BY <2>1, <2>2
<1>4. ASSUME NEW i \in 1..N PROVE EntryRead(i)
  <2>1. debugInfo[i] \in DIE /\ Rising(debugInfo[i].childrenOffsets)
    BY <1>1, <1>2, DIETypes DEF ChildrenInOrder
  <2>2. debugInfo[i].tag = DeclOf(unit, i).tag /\ debugInfo[i].offset = unit.entries[i].at
    BY <1>2 DEF EntriesRead
  <2> QED
    BY <1>3, <2>1, <2>2 DEF EntryRead, N
<1> QED
  BY <1>2, <1>4 DEF N

\* How reading ends says of a unit whether it has debug information that is plain: one
\* with a header that is accepted is well-formed.
LEMMA EndsKnown ==
  ASSUME ReadInv, ~unit.hasSections \/ ~HeaderOK \/ WellFormed(unit, ObjAddrSize)
  PROVE  /\ pc = "done" => unit.hasSections /\ Plain
         /\ pc \in {"error", "abort"} => unit.hasSections /\ ~Plain
         /\ pc = "segv" => ~unit.hasSections
  BY DEF ReadInv, HeaderInv, WrittenInv, PlainInv

\* Two rising lists of the same numbers are one list.
LEMMA RisingUnique ==
  ASSUME NEW s \in Seq(Nat), NEW t \in Seq(Nat), Rising(s), Rising(t),
         \A o \in Nat : (\E k \in 1..Len(s) : s[k] = o) <=> (\E k \in 1..Len(t) : t[k] = o)
  PROVE  s = t
<1>1. Len(s) \in Nat /\ Len(t) \in Nat
  OBVIOUS
<1>2. \A k \in 1..Len(s) : s[k] \in Nat
  OBVIOUS
<1>3. \A k \in 1..Len(t) : t[k] \in Nat
  OBVIOUS
<1>4. \A k \in 1..Len(s) : \E l \in 1..Len(t) : t[l] = s[k]
  BY <1>2
<1>5. \A k \in 1..Len(t) : \E l \in 1..Len(s) : s[l] = t[k]
  BY <1>3
<1>6. \A k \in 1..Len(s) : k \in 1..Len(t) /\ t[k] = s[k]
  <2> DEFINE Bad == {k \in 1..Len(s) : ~(k \in 1..Len(t) /\ t[k] = s[k])}
  <2>1. SUFFICES ASSUME Bad # {} PROVE FALSE
    OBVIOUS
  <2>2. PICK k \in Bad : \A l \in Bad : k <= l
    <3>1. Bad \subseteq Nat
      OBVIOUS
    <3> HIDE DEF Bad
    <3> QED
      BY <2>1, <3>1, LeastElement
  <2>3. /\ k \in 1..Len(s) /\ ~(k \in 1..Len(t) /\ t[k] = s[k])
        /\ \A l \in 1..(k - 1) : l \in 1..Len(s) /\ l \in 1..Len(t) /\ t[l] = s[l]
    <3>1. \A l \in 1..(k - 1) : l \in 1..Len(s) /\ l < k
      BY <1>1
    <3>2. \A l \in 1..(k - 1) : l \notin Bad
      BY <2>2, <3>1, <1>1
    <3> QED
      BY <3>1, <3>2
  <2>4. PICK l \in 1..Len(t) : t[l] = s[k]
    BY <1>4, <2>3
  <2>5. ~(l < k)
    <3> SUFFICES ASSUME l < k PROVE FALSE
      OBVIOUS
    <3>1. l \in 1..(k - 1) /\ l \in 1..Len(s)
      BY <1>1, <2>3
    <3>2. s[l] = s[k] /\ s[l] < s[k]
      BY <2>3, <2>4, <3>1 DEF Rising
    <3> QED
      BY <3>2, <1>2, <2>3, <3>1
  <2>6. k < l /\ k \in 1..Len(t)
    BY <1>1, <2>3, <2>4, <2>5
  <2>7. PICK m \in 1..Len(s) : s[m] = t[k]
    BY <1>5, <2>6
  <2>8. t[k] < s[k]
    BY <2>4, <2>6 DEF Rising
  <2>9. ~(m < k)
    <3> SUFFICES ASSUME m < k PROVE FALSE
      OBVIOUS
    <3>1. m \in 1..(k - 1)
      BY <1>1, <2>3
    <3>2. t[m] = s[m] /\ m \in 1..Len(t)
      BY <2>3, <3>1
    <3>3. t[m] < t[k]
      BY <3>2, <2>6 DEF Rising
    <3> QED
      BY <3>2, <3>3, <2>6, <2>7, <1>3
  <2>10. m = k \/ s[k] < s[m]
    BY <1>1, <2>3, <2>9 DEF Rising
  <2> QED
    BY <2>3, <2>6, <2>7, <2>8, <2>10, <1>2, <1>3
<1>7. Len(t) <= Len(s)
  <2> SUFFICES ASSUME Len(s) < Len(t) PROVE FALSE
    BY <1>1
  <2>1. PICK l \in 1..Len(s) : s[l] = t[Len(t)]
    BY <1>1, <1>5
  <2>2. t[l] = s[l] /\ l < Len(t) /\ l \in 1..Len(t) /\ Len(t) \in 1..Len(t)
    BY <1>1, <1>6
  <2>3. t[l] < t[Len(t)]
    BY <2>2 DEF Rising
  <2> QED
    BY <2>1, <2>2, <2>3, <1>3
<1>8. Len(s) <= Len(t)
  BY <1>1, <1>6
<1> QED
  BY <1>1, <1>6, <1>7, <1>8
=============================================================================
