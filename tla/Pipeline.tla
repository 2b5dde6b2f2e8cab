------------------------------ MODULE Pipeline ------------------------------
(***************************************************************************)
(* cedo as a whole: the driver of Cedo.tla with the DWARF reader, the type *)
(* reader and the emitter run, step by step, where the driver calls them.  *)
(* What a step of the driver chooses between there is here what these      *)
(* components come to, on the bytes of one compilation unit.               *)
(*                                                                         *)
(* A unit is one of CompileUnit.tla with `attrs`: for the offset of a DIE  *)
(* the attributes of it that the type reader looks at, and `children`, the *)
(* offsets of the DIEs below it, which the properties compare with.        *)
(***************************************************************************)
EXTENDS Cedo

CONSTANTS Units,       \* the units of the user's program
          Tags, Padding, ReservedLength, ObjAddrSize,   \* see DWARFReader
          Absent, Null, StackLimit,                     \* see DWARFType
          ObjectTypes, NoName,                          \* see EmitAsm
          AddressOf    \* what dlsym returns for each name

\* Values are pointers.
ASSUME PipelineAssumption ==
  /\ Values \subseteq Nat /\ Tags \subseteq STRING
  /\ AddressOf \in [Names -> Nat \ {0}]

VARIABLES unit, readerPc, abbrevTable, cursor, parentDIEs, debugInfo,  \* of DWARFReader
          typePc, at, value, typeCalls,                                \* of DWARFType
          symTypes,                                                    \* the types in resolvedSyms
          emitPc, emitNext, symbolizedAddrs, emitCalls, asm            \* of EmitAsm

readerVars == <<unit, readerPc, abbrevTable, cursor, parentDIEs, debugInfo>>
typeVars   == <<typePc, at, value, typeCalls>>
emitVars   == <<emitPc, emitNext, symbolizedAddrs, emitCalls, asm>>
details    == <<readerVars, typeVars, symTypes, emitVars>>

allVars == <<vars, details>>

------------------------------------------------------------------------------
(* The components *)

Reader == INSTANCE DWARFReader WITH pc <- readerPc

\* A DIE with its attributes, when a variable of this name is looked for.
Attributed(u, die, name) ==
  LET attrs == u.attrs[die.offset] IN
  [tag |-> die.tag, offset |-> die.offset, childrenOffsets |-> die.childrenOffsets,
   named |-> attrs.name = name, type |-> attrs.type, byteSize |-> attrs.byteSize,
   count |-> attrs.count, location |-> attrs.location]

\* The DIEs read, as the type reader sees them.
Info(name) == [i \in 1..Len(debugInfo) |-> Attributed(unit, debugInfo[i], name)]

TypeReader ==
  INSTANCE DWARFType WITH Infos <- {}, debugInfo <- Info(outputSyms[next]), pc <- typePc, calls <- typeCalls

\* The symbols given to the emitter.
Syms == [k \in 1..Len(resolvedSyms) |->
           [name |-> resolvedSyms[k], type |-> symTypes[k], addr |-> AddressOf[resolvedSyms[k]]]]

\* A pointer at the beginning of an object, or 8 bytes into it, holds its value.
Pointers(mem) ==
  [p \in {AddressOf[n] + o : n \in Names, o \in {0, 8}} |->
     mem[CHOOSE n \in Names : p \in {AddressOf[n], AddressOf[n] + 8}]]

Emitter ==
  INSTANCE EmitAsm WITH Types <- ObjectTypes, SymLists <- {}, Memories <- {}, AddrSize <- ObjAddrSize,
    syms <- Syms, memory <- Pointers(memory), pc <- emitPc, next <- emitNext, calls <- emitCalls, output <- asm

\* What the components assume of the constants.
ASSUME ComponentsAssumption ==
  /\ Reader!PaddingIsTag /\ Reader!UnitsAssumption
  /\ TypeReader!InfosAssumption
  /\ Emitter!TypesAssumption /\ Emitter!NestingAssumption /\ Emitter!EmitAssumption

------------------------------------------------------------------------------
(* What a unit means *)

\* The DIEs the compiler wrote, with the children that are their own.
WrittenInfo(u, name) ==
  [i \in 1..Len(u.entries) |->
     Attributed(u, [tag |-> Reader!DeclOf(u, i).tag, offset |-> u.entries[i].at,
                    childrenOffsets |-> u.attrs[u.entries[i].at].children], name)]

Meant(u, name) ==
  INSTANCE DWARFType WITH Infos <- {}, debugInfo <- WrittenInfo(u, name), pc <- typePc, calls <- typeCalls

\* The attributes are numbers or absent; the offsets of the children of entry i are
\* in the order of the entries.
ASSUME AttrsAssumption ==
  \A u \in Units : \A i \in 1..Len(u.entries) :
    LET attrs == u.attrs[u.entries[i].at]
        c     == attrs.children
    IN  /\ {attrs.type, attrs.byteSize, attrs.count, attrs.location} \subseteq Nat \cup {Absent}
        /\ c \in Seq(Nat) /\ \A k, l \in 1..Len(c) : k < l => c[k] < c[l]
        /\ {c[k] : k \in 1..Len(c)} =
             {u.entries[j].at : j \in {k \in 1..Len(u.entries) : Reader!IsParent(u, i, k)}}

\* The type reader gets the type of this name right (see KnownTypeRight), if there is
\* one, and it is one of the program's.
Known(u, name) ==
  LET type == Meant(u, name)!VariableType IN
  type # 0 => Meant(u, name)!MembersKnown(type) /\ Meant(u, name)!Meaning[type] \subseteq ObjectTypes

PlainUnit(u) == Reader!WellFormed(u, ObjAddrSize) /\ Reader!NoAdjacentMarks(u)

\* What becomes of a name.
Outcome(u, name) ==
  LET type == Meant(u, name)!VariableType IN
  IF type = 0 THEN "none"
  ELSE IF Meant(u, name)!Doomed(type) THEN "unreadable"
  ELSE IF Meant(u, name)!Meaning[type] = {} THEN "none" ELSE "good"

\* A world of the driver describes the unit.
Describes(w, u) ==
  /\ w.named = IF ~u.hasSections THEN "no_debug_info" ELSE IF PlainUnit(u) THEN "ok" ELSE "bad_dwarf"
  /\ w.named = "ok" => \A n \in Names : w.type[n] = Outcome(u, n)

ReaderOf(u) == INSTANCE DWARFReader WITH unit <- u, pc <- readerPc

\* The units whose worlds these are, whatever the program: those refused at once, and
\* those of a compiler, of types the type reader gets right or cannot go on from, if the
\* stack has room for a call for each DIE.
Foreseen(u) ==
  \/ ~u.hasSections \/ ~ReaderOf(u)!HeaderOK
  \/ /\ Reader!WellFormed(u, ObjAddrSize) /\ Len(u.entries) <= StackLimit
     /\ \A n \in Names :
          LET type == Meant(u, n)!VariableType IN
          type # 0 => Meant(u, n)!MembersKnown(type) /\ Meant(u, n)!Orderly(type)

------------------------------------------------------------------------------
\* The program leaves no threads behind: its memory is the same all through the
\* emission of a symbol, which is one step of the driver and many of the emitter.
PipelineInit ==
  /\ unit \in Units /\ world \in Worlds /\ ~world.threads /\ Describes(world, unit) /\ Init
  /\ readerPc = "readAbbrevTable" /\ abbrevTable = <<Reader!FakeAbbrev>> /\ cursor = 1
  /\ parentDIEs = << >> /\ debugInfo = << >>
  /\ typePc = "getVariableType" /\ at = 0 /\ value = Null /\ typeCalls = << >>
  /\ symTypes = << >>
  /\ emitPc = "registerKnownSyms" /\ emitNext = 1 /\ symbolizedAddrs = << >>
  /\ emitCalls = << >> /\ asm = << >>

\* Steps of the driver that call none of the three.
DriverStep ==
  /\ LoadUserCode \/ FindMain \/ OpenFile \/ CreateReader \/ CallMain \/ CheckExit \/ OpenOutput
  /\ UNCHANGED details

ReadUnit ==
  /\ pc = "readDWARF" /\ readerPc \notin Reader!Ended
  /\ UNCHANGED <<vars, typeVars, symTypes, emitVars>>
  /\ Reader!Next

UnitRead ==
  /\ pc = "readDWARF"
  /\ \/ readerPc = "done" /\ pc' = "resolve" /\ UNCHANGED <<exitCode, mapping>>
     \/ readerPc = "error" /\ Fail
     \/ readerPc \in {"abort", "segv"} /\ Crash
  /\ UNCHANGED <<inputs, program, loaded, next, resolvedSyms, warned, output, details>>

FindType ==
  /\ Resolving /\ typePc \notin {"done", "abort", "segv", "overflow"}
  /\ UNCHANGED <<vars, readerVars, symTypes, emitVars>>
  /\ TypeReader!Next

\* getVariableType is called again for the next symbol.
NextSym == next' = next + 1 /\ typePc' = "getVariableType" /\ at' = 0 /\ value' = Null /\ typeCalls' = << >>

NoSym ==
  /\ Resolving /\ typePc = "done"
  /\ value = Null \/ outputSyms[next] \notin world.exported
  /\ warned' = warned \cup {outputSyms[next]} /\ NextSym
  /\ UNCHANGED <<inputs, program, pc, loaded, mapping, resolvedSyms, exitCode, output, readerVars, symTypes, emitVars>>

\* Mutant of AddSym: types are added at the front.
AddSymInFront ==
  /\ Resolving /\ typePc = "done" /\ value # Null /\ outputSyms[next] \in world.exported
  /\ resolvedSyms' = Append(resolvedSyms, outputSyms[next]) /\ symTypes' = <<value>> \o symTypes /\ NextSym
  /\ UNCHANGED <<inputs, program, pc, loaded, mapping, warned, exitCode, output, readerVars, emitVars>>

AddSym ==
  /\ Resolving /\ typePc = "done" /\ value # Null /\ outputSyms[next] \in world.exported
  /\ resolvedSyms' = Append(resolvedSyms, outputSyms[next]) /\ symTypes' = Append(symTypes, value) /\ NextSym
  /\ UNCHANGED <<inputs, program, pc, loaded, mapping, warned, exitCode, output, readerVars, emitVars>>

NoType ==
  /\ Resolving /\ typePc \in {"abort", "segv", "overflow"}
  /\ Crash
  /\ UNCHANGED <<inputs, program, loaded, next, resolvedSyms, warned, output, details>>

\* The emitter has emitted all of the symbol the driver has come to.
SymEmitted == Len(asm) = next /\ emitCalls = << >>

EmitStep ==
  /\ pc = "emit" /\ emitPc \notin Emitter!Ended /\ ~SymEmitted
  /\ UNCHANGED <<vars, readerVars, typeVars, symTypes>>
  /\ Emitter!Next

EmitterStep ==
  /\ \/ SymEmitted /\ EmitSym
     \/ emitPc = "abort" /\ EmitFails
     \/ emitPc = "done" /\ EndEmit
  /\ UNCHANGED details

CedoSteps ==
  \/ DriverStep \/ ReadUnit \/ UnitRead \/ FindType \/ NoSym \/ AddSym \/ NoType \/ EmitStep \/ EmitterStep

PipelineNext == CedoSteps \/ ((UserStep \/ Returned) /\ UNCHANGED details)

PipelineSpec == PipelineInit /\ [][PipelineNext]_allVars

\* As in Cedo: its thread is scheduled.
FairPipelineSpec == PipelineSpec /\ WF_allVars(CedoSteps)

------------------------------------------------------------------------------
(* Properties *)

\* The components bring about what the driver's model says of them: the driver with
\* its parts run step by step, fairly, implements Cedo, fairness included (no part
\* keeps the driver waiting for ever).
DriverImplemented == FairSpec

\* The variable with this name that the linker knows: 0 if the unit has none.
GlobalDIE(n) ==
  LET named == {i \in 1..Len(unit.entries) :
                  /\ Reader!DeclOf(unit, i).tag = "variable" /\ unit.entries[i].depth = 1
                  /\ unit.attrs[unit.entries[i].at].name = n}
  IN  IF named = {} THEN 0 ELSE CHOOSE i \in named : TRUE

\* No local variable that comes first has its name.
FirstOfItsName(n) == Meant(unit, n)!Found = GlobalDIE(n)

PointerAt(mem, a) == IF a \in DOMAIN Pointers(mem) THEN Pointers(mem)[a] ELSE 0

\* The object of a symbol as the directives of its label have it, of a type.
ImageOfObject(n, type, label) ==
  /\ label.name = n
  /\ label.size = IF type.kind = "pointer" THEN ObjAddrSize ELSE type.size
  /\ Len(label.image) = label.size
  /\ \A b \in 1..Len(label.image) :
       LET cell == label.image[b]
           ptr  == PointerAt(atExit, cell.of)
       IN  /\ cell.of = AddressOf[n] + b - 1
           /\ Emitter!UnionsCovered[type] /\ b - 1 \in Emitter!Live[type] => cell.what # "zero"
           /\ cell.what = "pointer" =>
                IF ptr = 0 THEN cell.name = NoName ELSE cell.name \in Names /\ AddressOf[cell.name] = ptr

\* The unit is as a compiler writes it, and the types asked for are no more than the
\* type reader knows.
InputsRight == Reader!WellFormed(unit, ObjAddrSize) /\ \A n \in ToSet(outputSyms) : Known(unit, n)

\* From the bytes of the debug information to those of the output: a complete output
\* has, for each symbol not warned about, the object at the address of the symbol, as
\* it was when the program's main returned, all of the bytes its C type has.
OutputRight ==
  output.state = "complete" /\ InputsRight =>
    /\ Len(asm) = Len(resolvedSyms)
    /\ \A k \in 1..Len(asm) :
         LET n == resolvedSyms[k] IN
         FirstOfItsName(n) =>
           \E type \in Meant(unit, n)!Meaning[Meant(unit, n)!TypeDieOf(GlobalDIE(n))] :
             ImageOfObject(n, type, asm[k])
==============================================================================
