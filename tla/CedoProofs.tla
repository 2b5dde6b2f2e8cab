---------------------------- MODULE CedoProofs ----------------------------
(***************************************************************************)
(* Proofs about the driver: its types, the scope of the mapping, and what  *)
(* the exit code says of the output file.  And about the build that cedo   *)
(* takes part in: when a build has the version of its source, and when     *)
(* configuring can fail.  And about cedo as a whole: the output is right,  *)
(* by the invariants of the DWARF reader, the type reader and the emitter  *)
(* put together, and what the parts come to is what the driver alone       *)
(* chooses between.                                                        *)
(***************************************************************************)
EXTENDS Pipeline, VersionBootstrap, SequenceTheorems, Induction

\* What the assumptions say of the world and the symbols chosen.
LEMMA InputTypes ==
  ASSUME TypeOK
  PROVE  /\ outputSyms \in Seq(Names) /\ Len(outputSyms) \in Nat
         /\ world.type \in [Names -> Types] /\ world.exported \subseteq Names /\ world.code \in Nat
         /\ MaxWrites \in Nat
  BY WorldsAssumption DEF TypeOK

\* The first state has the types.
LEMMA TypeInit == Init => TypeOK
  BY WorldsAssumption DEF Init, TypeOK, OldOutput, OutputFiles, Files

Label == [name: Names, value: Values]

\* The parts of the labels are labels.
LEMMA PartsType ==
  ASSUME NEW state \in {"old", "partial", "cut", "complete"}, NEW labels \in Seq(Label)
  PROVE  PartsOf(state, labels) \subseteq OutputFiles
<1> SUFFICES ASSUME NEW file \in PartsOf(state, labels) PROVE file \in OutputFiles
  OBVIOUS
<1>1. PICK n \in 0..Len(labels) : file = [state |-> state, labels |-> SubSeq(labels, 1, n)]
  BY DEF PartsOf, Prefixes
<1>2. SubSeq(labels, 1, n) \in Seq(Label)
  <2>1. Len(labels) \in Nat /\ \A i \in 1..Len(labels) : labels[i] \in Label
    OBVIOUS
  <2> HIDE DEF Label
  <2> QED
    BY <2>1, SubSeqProperties
<1> QED
  BY <1>1, <1>2 DEF OutputFiles, Label

\* What the stream makes of the file: it goes on, it ends, or a write fails.
LEMMA StreamedFile ==
  ASSUME TypeOK, NEW state \in {"partial", "complete"}, NEW labels \in Seq(Label),
         NEW file \in Streamed(state, labels)
  PROVE  /\ file \in OutputFiles
         /\ output.state # "partial" => file = output
         /\ output.state = "partial" =>
              \/ file.state = state /\ file.labels = labels
              \/ file.state = "cut" /\ ~world.room
<1>1. output \in OutputFiles
  BY DEF TypeOK
<1>2. CASE output.state # "partial"
  BY <1>1, <1>2 DEF Streamed
<1>3. CASE output.state = "partial" /\ file = [state |-> state, labels |-> labels]
  BY <1>3 DEF OutputFiles, Label
<1>4. CASE output.state = "partial" /\ ~world.room /\ file \in PartsOf("cut", labels)
  <2>1. file \in OutputFiles
    BY <1>4, PartsType
  <2>2. file.state = "cut"
    BY <1>4 DEF PartsOf
  <2> QED
    BY <1>4, <2>1, <2>2
<1> QED
  BY <1>2, <1>3, <1>4 DEF Streamed

\* The label emitted next.
LEMMA NextLabel ==
  ASSUME TypeOK, EmitSym
  PROVE  /\ next \in 1..Len(resolvedSyms)
         /\ [name |-> resolvedSyms[next], value |-> memory[resolvedSyms[next]]] \in Label
         /\ Append(output.labels, [name |-> resolvedSyms[next], value |-> memory[resolvedSyms[next]]]) \in Seq(Label)
<1> DEFINE label == [name |-> resolvedSyms[next], value |-> memory[resolvedSyms[next]]]
<1>1. next \in 1..Len(resolvedSyms) /\ label \in Label
  BY DEF TypeOK, EmitSym, Label
<1>2. output.labels \in Seq(Label)
  BY DEF TypeOK, OutputFiles, Label
<1> HIDE DEF label
<1>3. Append(output.labels, label) \in Seq(Label)
  BY <1>1, <1>2, AppendProperties
<1> QED
  BY <1>1, <1>3 DEF label

\* One symbol more: what EmitSym makes of the output.
LEMMA EmitSymFile ==
  ASSUME TypeOK, EmitSym
  PROVE  /\ output' \in OutputFiles
         /\ output.state # "partial" => output' = output
         /\ output.state = "partial" =>
              \/ /\ output'.state = "partial"
                 /\ output'.labels =
                      Append(output.labels, [name |-> resolvedSyms[next], value |-> memory[resolvedSyms[next]]])
              \/ output'.state = "cut" /\ ~world.room
<1> DEFINE labels == Append(output.labels, [name |-> resolvedSyms[next], value |-> memory[resolvedSyms[next]]])
<1>1. labels \in Seq(Label)
  BY NextLabel
<1>2. output' \in Streamed("partial", labels)
  BY DEF EmitSym
<1> HIDE DEF labels
<1>3. /\ output' \in OutputFiles
      /\ output.state # "partial" => output' = output
      /\ output.state = "partial" =>
           \/ output'.state = "partial" /\ output'.labels = labels
           \/ output'.state = "cut" /\ ~world.room
  BY <1>1, <1>2, StreamedFile
<1> QED
  BY <1>3 DEF labels

\* The end: what EndEmit makes of it.
LEMMA EndEmitFile ==
  ASSUME TypeOK, EndEmit
  PROVE  /\ output' \in OutputFiles
         /\ output.state # "partial" => output' = output
         /\ output.state = "partial" =>
              \/ output'.state = "complete" /\ output'.labels = output.labels
              \/ output'.state = "cut" /\ ~world.room
<1>1. output.labels \in Seq(Label)
  BY DEF TypeOK, OutputFiles, Label
<1>2. output' \in Streamed("complete", output.labels)
  BY DEF EndEmit
<1> QED
  BY <1>1, <1>2, StreamedFile

\* A crash: what EmitFails makes of it.
LEMMA EmitFailsFile ==
  ASSUME TypeOK, EmitFails
  PROVE  output' \in OutputFiles /\ output'.state = output.state /\ (output.state # "partial" => output' = output)
<1>1. output \in OutputFiles /\ output.labels \in Seq(Label)
  BY DEF TypeOK, OutputFiles, Label
<1>2. CASE output.state = "partial"
  <2>1. output' \in PartsOf("partial", output.labels)
    BY <1>2 DEF EmitFails
  <2>2. output' \in OutputFiles
    BY <1>1, <2>1, PartsType
  <2>3. output'.state = "partial"
    BY <2>1 DEF PartsOf
  <2> QED
    BY <1>2, <2>2, <2>3
<1>3. CASE output.state # "partial"
  BY <1>1, <1>3 DEF EmitFails
<1> QED
  BY <1>2, <1>3

\* Every step keeps the types.
LEMMA TypeStep == TypeOK /\ [Next]_vars => TypeOK'
<1> SUFFICES ASSUME TypeOK, [Next]_vars PROVE TypeOK'
  OBVIOUS
<1> USE DEF inputs, program
<1>1. CASE LoadUserCode \/ FindMain \/ OpenFile \/ CreateReader \/ ReadDWARF \/ UnreadableType
  BY <1>1 DEF LoadUserCode, FindMain, OpenFile, CreateReader, ReadDWARF, UnreadableType, Fail, Crash,
              TypeOK, Loadable, Files
<1>2. CASE WarnSym
  <2>1. outputSyms[next] \in Names /\ next' \in Nat \ {0}
    BY <1>2, InputTypes DEF WarnSym, Resolving, TypeOK
  <2> QED
    BY <1>2, <2>1 DEF WarnSym, TypeOK
<1>3. CASE ResolveSym
  <2>1. outputSyms[next] \in Names /\ next' \in Nat \ {0}
    BY <1>3, InputTypes DEF ResolveSym, Resolving, TypeOK
  <2>2. resolvedSyms' \in Seq(Names)
    BY <1>3, <2>1, AppendProperties DEF ResolveSym, TypeOK
  <2> QED
    BY <1>3, <2>1, <2>2 DEF ResolveSym, TypeOK
<1>4. CASE CallMain
  BY <1>4 DEF CallMain, TypeOK
<1>5. CASE CheckExit
  BY <1>5 DEF CheckExit, Fail, TypeOK
<1>6. CASE OpenOutput
  <2>1. output' \in OutputFiles
    BY <1>6 DEF OpenOutput, TypeOK, OutputFiles
  <2> QED
    BY <1>6, <2>1 DEF OpenOutput, TypeOK
<1>7. CASE EmitSym \/ EmitFails \/ EndEmit
  <2>1. output' \in OutputFiles
    BY <1>7, EmitSymFile, EmitFailsFile, EndEmitFile
  <2>2. EmitSym => next' \in Nat \ {0}
    BY DEF EmitSym, TypeOK
  <2> QED
    BY <1>7, <2>1, <2>2 DEF EmitSym, EmitFails, EndEmit, Crash, TypeOK
<1>8. CASE MainWrites \/ ThreadWrites
  <2>1. memory' \in [Names -> Values] /\ writes' \in 0..MaxWrites
    <3>1. writes < MaxWrites /\ writes' = writes + 1
      BY <1>8 DEF MainWrites, ThreadWrites, Write
    <3>2. PICK n \in world.exported, v \in Values : memory' = [memory EXCEPT ![n] = v]
      BY <1>8 DEF MainWrites, ThreadWrites, Write
    <3>3. memory \in [Names -> Values] /\ writes \in 0..MaxWrites
      BY DEF TypeOK
    <3> QED
      BY <3>1, <3>2, <3>3, InputTypes
  <2> QED
    BY <1>8, <2>1 DEF MainWrites, ThreadWrites, TypeOK
<1>9. CASE ConstructorsReturn \/ MainReturns \/ UserExits \/ UserAborts
  BY <1>9, InputTypes DEF ConstructorsReturn, MainReturns, UserExits, UserAborts, Crash, TypeOK
<1>10. CASE Returned \/ UNCHANGED vars
  BY <1>10 DEF Returned, vars, TypeOK
<1> QED
  BY <1>1, <1>2, <1>3, <1>4, <1>5, <1>6, <1>7, <1>8, <1>9, <1>10
     DEF Next, CedoStep, UserStep

\* The driver's variables keep their types.
THEOREM TypeCorrect == Spec => []TypeOK
  BY TypeInit, TypeStep, PTL DEF Spec

------------------------------------------------------------------------------
(* The mapping and the output *)

\* FailureKeepsOutput, with what is known on the way to it.
OutputInv ==
  /\ FailureKeepsOutput
  /\ Alive => exitCode = 0
  /\ pc \notin {"emit", "exited", "crashed"} => output = OldOutput
  /\ pc = "emit" =>
       \/ output = OldOutput
       \/ output.state = "partial"
       \/ output.state = "cut" /\ ~world.room
  /\ pc = "checkExit" => world.ends = "return"
  /\ pc \in {"openOutput", "emit"} => world.ends = "return" /\ world.code = 0

Inv == MappingScoped /\ OutputInv

\* Before anything is loaded nothing is mapped and the output is the old one.
LEMMA InvInit == Init => Inv
  BY DEF Init, Inv, MappingScoped, OutputInv, FailureKeepsOutput, OldOutput, Alive

\* Up to the call of main the output is not touched.
LEMMA BeforeMain ==
  ASSUME TypeOK, Inv,
         LoadUserCode \/ FindMain \/ OpenFile \/ CreateReader \/ ReadDWARF
         \/ UnreadableType \/ WarnSym \/ ResolveSym \/ CallMain
  PROVE  Inv'
<1>1. /\ output' = output /\ world' = world /\ output = OldOutput
      /\ pc' \in {"constructors", "findMain", "openFile", "createReader", "readDWARF", "resolve", "userMain",
                  "exited", "crashed"}
      /\ pc' \notin {"exited"} => exitCode' = exitCode
      /\ exitCode = 0
  BY DEF LoadUserCode, FindMain, OpenFile, CreateReader, ReadDWARF, UnreadableType, WarnSym, ResolveSym,
         CallMain, Resolving, Fail, Crash, inputs, program, Inv, OutputInv, Alive
<1>2. OutputInv'
  BY <1>1 DEF OutputInv, FailureKeepsOutput, OldOutput, Alive
<1>3. MappingScoped'
  BY DEF LoadUserCode, FindMain, OpenFile, CreateReader, ReadDWARF, UnreadableType, WarnSym, ResolveSym,
         CallMain, Resolving, Fail, Crash, Inv, MappingScoped
<1> QED
  BY <1>2, <1>3 DEF Inv

\* After it there is no mapping, and only a return of 0 leads to the output.
LEMMA AfterMain ==
  ASSUME TypeOK, Inv,
         CheckExit \/ OpenOutput \/ EmitSym \/ EmitFails \/ EndEmit \/ UserStep \/ Returned \/ UNCHANGED vars
  PROVE  Inv'
<1> USE DEF inputs, program, Inv, OutputInv, FailureKeepsOutput, MappingScoped, Alive
<1>1. CASE CheckExit
  BY <1>1 DEF CheckExit, Fail, OldOutput
<1>2. CASE OpenOutput
  BY <1>2 DEF OpenOutput, OldOutput
<1>3. CASE EmitSym
  <2>1. /\ pc = "emit" /\ pc' = pc /\ world' = world /\ mapping' = mapping /\ exitCode' = exitCode
    BY <1>3 DEF EmitSym
  <2>2. \/ output' = output
        \/ output.state = "partial" /\ output'.state = "partial"
        \/ output.state = "partial" /\ output'.state = "cut" /\ ~world.room
    BY <1>3, EmitSymFile
  <2> QED
    BY <2>1, <2>2 DEF OldOutput
<1>4. CASE EmitFails
  <2>1. output'.state = output.state
    BY <1>4, EmitFailsFile
  <2> QED
    BY <1>4, <2>1 DEF EmitFails, Crash, OldOutput
<1>5. CASE EndEmit
  <2>1. \/ output' = output /\ output.state # "partial"
        \/ output'.state = "complete"
        \/ output'.state = "cut" /\ ~world.room
    BY <1>5, EndEmitFile
  <2> QED
    BY <1>5, <2>1 DEF EndEmit, OldOutput
<1>6. CASE MainWrites \/ ThreadWrites
  BY <1>6 DEF MainWrites, ThreadWrites
<1>7. CASE ConstructorsReturn \/ MainReturns \/ UserExits \/ UserAborts
  BY <1>7 DEF ConstructorsReturn, MainReturns, UserExits, UserAborts, UserEnds, Crash, OldOutput
<1>8. CASE Returned \/ UNCHANGED vars
  BY <1>8 DEF Returned, vars
<1> QED
  BY <1>1, <1>2, <1>3, <1>4, <1>5, <1>6, <1>7, <1>8 DEF UserStep

\* Every step keeps the scope of the mapping and the output.
LEMMA InvStep == TypeOK /\ Inv /\ [Next]_vars => Inv'
  BY BeforeMain, AfterMain DEF Next, CedoStep

\* The object file is unmapped exactly once, before the user's code runs or on
\* the way out.
THEOREM MappingAlwaysScoped == Spec => []MappingScoped
<1>1. Inv => MappingScoped
  BY DEF Inv
<1> QED
  BY TypeCorrect, InvInit, InvStep, <1>1, PTL DEF Spec

\* A build that goes on after a failure of cedo finds the output of the run before,
\* whatever the program did before it failed; and what cedo ends by itself has left, in
\* part or in full, unless a write failed, is a file it had reason to write.
THEOREM FailureAlwaysKeepsOutput == Spec => []FailureKeepsOutput
<1>1. Inv => FailureKeepsOutput
  BY DEF Inv, OutputInv
<1> QED
  BY TypeCorrect, InvInit, InvStep, <1>1, PTL DEF Spec

------------------------------------------------------------------------------
(* What success says of the output *)

\* SuccessWritesOutput, and why the file is still the old one when it is.
WrittenInv ==
  /\ SuccessWritesOutput
  /\ pc = "emit" => output.state = "partial" \/ ~world.writable \/ ~world.room

\* Only EndEmit and the program's own exit end cedo with success.
LEMMA WrittenStep == TypeOK /\ WrittenInv /\ [Next]_vars => WrittenInv'
<1> SUFFICES ASSUME TypeOK, WrittenInv, [Next]_vars PROVE WrittenInv'
  OBVIOUS
<1> USE DEF WrittenInv, SuccessWritesOutput, inputs, program
<1>2. CASE LoadUserCode \/ FindMain \/ OpenFile \/ CreateReader \/ ReadDWARF \/ UnreadableType \/ CheckExit
  BY <1>2 DEF LoadUserCode, FindMain, OpenFile, CreateReader, ReadDWARF, UnreadableType, CheckExit, Resolving,
              Fail, Crash
<1>3. CASE WarnSym \/ ResolveSym \/ CallMain
  BY <1>3 DEF WarnSym, ResolveSym, CallMain, Resolving
<1>4. CASE OpenOutput
  <2>1. world.writable => output'.state = "partial"
    BY <1>4 DEF OpenOutput
  <2> QED
    BY <1>4, <2>1 DEF OpenOutput
<1>5. CASE EmitSym
  <2>1. \/ output' = output
        \/ output'.state = "partial"
        \/ ~world.room
    BY <1>5, EmitSymFile
  <2> QED
    BY <1>5, <2>1 DEF EmitSym
<1>6. CASE EmitFails
  BY <1>6 DEF EmitFails, Crash
<1>7. CASE EndEmit
  <2>1. output.state = "partial" => output'.state = "complete" \/ ~world.room
    BY <1>7, EndEmitFile
  <2> QED
    BY <1>7, <2>1 DEF EndEmit
<1>8. CASE MainWrites \/ ThreadWrites
  BY <1>8 DEF MainWrites, ThreadWrites
<1>9. CASE ConstructorsReturn \/ MainReturns \/ UserExits \/ UserAborts
  BY <1>9 DEF ConstructorsReturn, MainReturns, UserExits, UserAborts, UserEnds, Crash
<1>10. CASE Returned \/ UNCHANGED vars
  BY <1>10 DEF Returned, vars
<1> QED
  BY <1>2, <1>3, <1>4, <1>5, <1>6, <1>7, <1>8, <1>9, <1>10 DEF Next, CedoStep, UserStep

\* Success without an output, all of it, is only reported when the program ended cedo,
\* the file could not be opened or a write failed, whatever the world.
THEOREM SuccessAlwaysWrites == Spec => []SuccessWritesOutput
<1>1. Init => WrittenInv
  BY DEF Init, WrittenInv, SuccessWritesOutput
<1>2. WrittenInv => SuccessWritesOutput
  BY DEF WrittenInv
<1> QED
  BY TypeCorrect, <1>1, WrittenStep, <1>2, PTL DEF Spec

------------------------------------------------------------------------------
(* Symbols resolved and symbols warned about *)

\* What the recursive definition of Without defines.
LEMMA WithoutDef ==
  ASSUME NEW S, NEW syms \in Seq(S), NEW names
  PROVE  /\ Without(syms, names) \in [0..Len(syms) -> Seq(S)]
         /\ Without(syms, names)[0] = << >>
         /\ \A k \in 1..Len(syms) :
              Without(syms, names)[k] = IF syms[k] \in names THEN Without(syms, names)[k - 1]
                                        ELSE Append(Without(syms, names)[k - 1], syms[k])
<1> DEFINE n == Len(syms)
           V == Seq(S)
           After(v, k) == IF syms[k] \in names THEN v ELSE Append(v, syms[k])
           step == [p \in V \X (1..n) |-> After(p[1], p[2])]
           W == Without(syms, names)
<1>1. n \in Nat /\ << >> \in V
  OBVIOUS
<1>2. ASSUME NEW v \in V, NEW k \in 1..n PROVE After(v, k) \in V
  BY AppendProperties
<1>3. step \in [V \X (1..n) -> V]
  <2> HIDE DEF After, V, n
  <2> QED
    BY <1>2
<1>4. ASSUME NEW v \in V, NEW k \in 1..n PROVE step[<<v, k>>] = After(v, k)
  <2> HIDE DEF After, V, n
  <2> QED
    OBVIOUS
<1> HIDE DEF step, V, n
<1>5. PICK g \in [0..n -> V] : Recursion(g, << >>, step, n)
  BY <1>1, <1>3, RecursionExists
<1>6. g = [k \in 0..n |-> IF k = 0 THEN << >> ELSE After(g[k - 1], k)]
  <2>1. ASSUME NEW k \in 1..n PROVE g[k] = After(g[k - 1], k)
    <3> HIDE DEF After
    <3> QED
      BY <1>1, <1>4, <1>5 DEF Recursion
  <2> HIDE DEF After
  <2> QED
    BY <1>1, <1>5, <2>1 DEF Recursion
<1>7. W = [k \in 0..n |-> IF k = 0 THEN << >> ELSE After(W[k - 1], k)]
  BY <1>6, Zenon DEF Without, n
<1> HIDE DEF W, After
<1>8. W[0] = << >> /\ \A k \in 1..n : W[k] = After(W[k - 1], k)
  BY <1>1, <1>7
<1>9. \A k \in 0..n : W[k] \in V
  <2>1. ASSUME NEW k \in 1..n, W[k - 1] \in V PROVE W[k] \in V
    BY <1>2, <1>8, <2>1
  <2> QED
    BY <1>1, <1>8, <2>1, RecursionType
<1> QED
  BY <1>7, <1>8, <1>9 DEF W, After, V, n

\* Names that the symbols do not tell apart leave the same symbols.
LEMMA WithoutSame ==
  ASSUME NEW S, NEW syms \in Seq(S), NEW names, NEW others,
         \A k \in 1..Len(syms) : syms[k] \in names <=> syms[k] \in others
  PROVE  \A k \in 0..Len(syms) : Without(syms, names)[k] = Without(syms, others)[k]
<1> DEFINE n == Len(syms)
           V == Without(syms, names)
           W == Without(syms, others)
           Same == {k \in 0..n : V[k] = W[k]}
<1>1. n \in Nat
  OBVIOUS
<1>2. /\ V[0] = W[0]
      /\ \A k \in 1..n : V[k] = IF syms[k] \in names THEN V[k - 1] ELSE Append(V[k - 1], syms[k])
      /\ \A k \in 1..n : W[k] = IF syms[k] \in others THEN W[k - 1] ELSE Append(W[k - 1], syms[k])
  BY WithoutDef
<1> HIDE DEF V, W, n
<1>3. \A k \in 1..n : syms[k] \in names <=> syms[k] \in others
  BY DEF n
<1>4. 0 \in Same
  BY <1>1, <1>2
<1>5. ASSUME NEW k \in 0..(n - 1), k \in Same PROVE k + 1 \in Same
  <2>1. k + 1 \in 1..n /\ k + 1 - 1 = k
    BY <1>1
  <2>2. V[k + 1] = IF syms[k + 1] \in names THEN V[k] ELSE Append(V[k], syms[k + 1])
    BY <1>2, <2>1
  <2>3. W[k + 1] = IF syms[k + 1] \in others THEN W[k] ELSE Append(W[k], syms[k + 1])
    BY <1>2, <2>1
  <2>4. V[k] = W[k]
    BY <1>5
  <2>5. V[k + 1] = W[k + 1]
    BY <1>3, <2>1, <2>2, <2>3, <2>4
  <2> QED
    BY <1>1, <2>1, <2>5
<1> HIDE DEF Same
<1>6. 0..n \subseteq Same
  BY <1>1, <1>4, <1>5, InductionUpTo
<1> QED
  BY <1>6 DEF Same, V, W, n

\* The symbols that are to be warned about, whether asked for or not.
Unfit == {n \in Names : world.type[n] # "good" \/ n \notin world.exported}

\* EverySymbolAccounted, and how far it is true before main is called.
SymsInv ==
  /\ EverySymbolAccounted
  /\ pc \in {"loadUserCode", "constructors", "findMain", "openFile", "createReader", "readDWARF"} =>
       next = 1 /\ resolvedSyms = << >> /\ warned = {}
  /\ pc = "resolve" =>
       /\ next <= Len(outputSyms) + 1
       /\ resolvedSyms = Without(outputSyms, Unfit)[next - 1]
       /\ \A n \in Names : n \in warned <=> n \in Unfit /\ \E k \in 1..(next - 1) : outputSyms[k] = n

LEMMA SymsInit == TypeOK /\ Init => SymsInv
  BY DEF Init, SymsInv, EverySymbolAccounted

\* The loop begins with no symbols at all.
LEMMA ResolveStart ==
  ASSUME TypeOK, SymsInv, ReadDWARF
  PROVE  SymsInv'
<1>1. CASE pc' = "resolve"
  <2>1. next' = 1 /\ resolvedSyms' = << >> /\ warned' = {} /\ outputSyms' = outputSyms /\ world' = world
    BY DEF ReadDWARF, SymsInv, inputs
  <2>2. Without(outputSyms', Unfit')[0] = << >> /\ Len(outputSyms') \in Nat
    BY <2>1, InputTypes, WithoutDef
  <2> QED
    BY <1>1, <2>1, <2>2 DEF SymsInv, EverySymbolAccounted
<1>2. CASE pc' # "resolve"
  BY <1>2 DEF ReadDWARF, Fail, Crash, SymsInv, EverySymbolAccounted
<1> QED
  BY <1>1, <1>2

\* One symbol more is resolved, or warned about.
LEMMA ResolveOne ==
  ASSUME TypeOK, SymsInv, WarnSym \/ ResolveSym
  PROVE  SymsInv'
<1> DEFINE name == outputSyms[next]
           W == Without(outputSyms, Unfit)
<1>1. /\ outputSyms \in Seq(Names) /\ Len(outputSyms) \in Nat /\ next \in 1..Len(outputSyms) /\ name \in Names
      /\ next' = next + 1 /\ pc = "resolve" /\ pc' = "resolve"
      /\ outputSyms' = outputSyms /\ world' = world
  BY InputTypes DEF WarnSym, ResolveSym, Resolving, TypeOK, inputs
<1>2. Unfit' = Unfit
  BY <1>1 DEF Unfit
<1>3. W[next] = IF name \in Unfit THEN W[next - 1] ELSE Append(W[next - 1], name)
  BY <1>1, WithoutDef
<1>4. resolvedSyms = W[next - 1]
      /\ \A n \in Names : n \in warned <=> n \in Unfit /\ \E k \in 1..(next - 1) : outputSyms[k] = n
  BY <1>1 DEF SymsInv
<1>5. /\ name \in Unfit => resolvedSyms' = resolvedSyms /\ warned' = warned \cup {name}
      /\ name \notin Unfit => resolvedSyms' = Append(resolvedSyms, name) /\ warned' = warned
  BY <1>1 DEF WarnSym, ResolveSym, Unfit
<1> HIDE DEF W
<1>6. resolvedSyms' = W[next]
  BY <1>3, <1>4, <1>5
<1>7. ASSUME NEW n \in Names PROVE n \in warned' <=> n \in Unfit /\ \E k \in 1..next : outputSyms[k] = n
  <2>1. \A k : k \in 1..next <=> k \in 1..(next - 1) \/ k = next
    BY <1>1
  <2> QED
    BY <1>4, <1>5, <2>1
<1>8. next' - 1 = next /\ next' <= Len(outputSyms) + 1
  BY <1>1
<1> QED
  BY <1>1, <1>2, <1>6, <1>7, <1>8 DEF SymsInv, EverySymbolAccounted, W

\* When all are done, every one is accounted for.
LEMMA ResolveEnd ==
  ASSUME TypeOK, SymsInv, CallMain
  PROVE  SymsInv'
<1>1. /\ outputSyms \in Seq(Names) /\ Len(outputSyms) \in Nat /\ next = Len(outputSyms) + 1
      /\ DOMAIN outputSyms = 1..Len(outputSyms)
      /\ UNCHANGED <<outputSyms, world, resolvedSyms, warned>> /\ pc = "resolve" /\ pc' = "userMain"
      /\ warned \subseteq Names
  BY InputTypes DEF CallMain, SymsInv, TypeOK, inputs
<1>2. \A n \in Names : n \in warned <=> n \in Unfit /\ \E k \in 1..Len(outputSyms) : outputSyms[k] = n
  BY <1>1 DEF SymsInv
<1>3. \A k \in 1..Len(outputSyms) : outputSyms[k] \in Unfit <=> outputSyms[k] \in warned
  BY <1>1, <1>2
<1>4. resolvedSyms = Without(outputSyms, warned)[Len(outputSyms)]
  <2>1. resolvedSyms = Without(outputSyms, Unfit)[Len(outputSyms)]
    BY <1>1 DEF SymsInv
  <2> QED
    BY <1>1, <1>3, <2>1, WithoutSame
<1>5. warned = {n \in ToSet(outputSyms) : world.type[n] # "good" \/ n \notin world.exported}
  <2>1. \A n : n \in ToSet(outputSyms) <=> \E k \in 1..Len(outputSyms) : outputSyms[k] = n
    BY <1>1 DEF ToSet
  <2>2. ToSet(outputSyms) \subseteq Names
    BY <1>1, <2>1
  <2> QED
    BY <1>1, <1>2, <2>1, <2>2 DEF Unfit
<1> QED
  BY <1>1, <1>4, <1>5 DEF SymsInv, EverySymbolAccounted

\* No other step touches what is accounted for.
LEMMA SymsStep == TypeOK /\ SymsInv /\ [Next]_vars => SymsInv'
<1> SUFFICES ASSUME TypeOK, SymsInv, [Next]_vars PROVE SymsInv'
  OBVIOUS
<1> USE DEF inputs, program
<1>1. CASE LoadUserCode \/ FindMain \/ OpenFile \/ CreateReader \/ UnreadableType
  BY <1>1 DEF LoadUserCode, FindMain, OpenFile, CreateReader, UnreadableType, Resolving, Fail, Crash,
              SymsInv, EverySymbolAccounted
<1>2. CASE CheckExit \/ OpenOutput \/ EmitSym \/ EmitFails \/ EndEmit
  BY <1>2 DEF CheckExit, OpenOutput, EmitSym, EmitFails, EndEmit, Fail, Crash, SymsInv, EverySymbolAccounted
<1>3. CASE ConstructorsReturn \/ MainWrites \/ ThreadWrites \/ MainReturns \/ UserExits \/ UserAborts
  BY <1>3 DEF ConstructorsReturn, MainWrites, ThreadWrites, MainReturns, UserExits, UserAborts, Crash, SymsInv,
              EverySymbolAccounted
<1>4. CASE Returned \/ UNCHANGED vars
  <2>1. UNCHANGED <<pc, next, resolvedSyms, warned, outputSyms, world>>
    BY <1>4 DEF Returned, vars
  <2>2. Unfit' = Unfit
    BY <2>1 DEF Unfit
  <2> QED
    BY <2>1, <2>2 DEF SymsInv, EverySymbolAccounted
<1> QED
  BY <1>1, <1>2, <1>3, <1>4, ResolveStart, ResolveOne, ResolveEnd DEF Next, CedoStep, UserStep

\* Every symbol asked for is resolved or warned about, in every world and for every
\* list of symbols, repeated ones and unknown ones included.
THEOREM EverySymbolIsAccounted == Spec => []EverySymbolAccounted
<1>1. TypeOK /\ SymsInv => EverySymbolAccounted
  BY DEF SymsInv
<1> QED
  BY TypeCorrect, SymsInit, SymsStep, <1>1, PTL DEF Spec
------------------------------------------------------------------------------
(* The image of the objects as main left them *)

\* What emit writes of the k-th symbol resolved.
LabelOf(k) == [name |-> resolvedSyms[k], value |-> memory[resolvedSyms[k]]]

\* Serialized, and what makes it true: a program without threads leaves its objects
\* alone once main returned, and the labels written so far are those before next.
ImageInv ==
  ~world.threads =>
    /\ ImageOfExit
    /\ pc \in {"checkExit", "openOutput", "emit"} => memory = atExit
    /\ pc = "emit" /\ output.state = "partial" =>
         /\ next <= Len(resolvedSyms) + 1
         /\ output.labels = [k \in 1..(next - 1) |-> LabelOf(k)]

LEMMA ImageInit == Init => ImageInv
  BY DEF Init, ImageInv, ImageOfExit, OldOutput

\* One label more.
LEMMA ImageEmitSym ==
  ASSUME TypeOK, Inv, ImageInv, EmitSym
  PROVE  ImageInv'
<1> SUFFICES ASSUME ~world.threads PROVE ImageInv'
  BY DEF ImageInv, EmitSym, inputs
<1> DEFINE Labels == [k \in 1..(next - 1) |-> LabelOf(k)]
<1>1. /\ pc = "emit" /\ pc' = "emit" /\ memory = atExit /\ world' = world
      /\ UNCHANGED <<memory, atExit, resolvedSyms>>
      /\ next \in 1..Len(resolvedSyms) /\ next' = next + 1
  BY DEF EmitSym, ImageInv, inputs, program, TypeOK
<1>2. output.state # "complete"
  BY <1>1 DEF Inv, OutputInv, OldOutput
<1>3. \/ output' = output /\ output.state # "partial"
      \/ output'.state = "cut"
      \/ /\ output.state = "partial" /\ output'.state = "partial"
         /\ output'.labels = Append(output.labels, LabelOf(next))
  BY EmitSymFile DEF LabelOf
<1>4. CASE output'.state # "partial"
  BY <1>1, <1>2, <1>3, <1>4 DEF ImageInv, ImageOfExit
<1>5. CASE output'.state = "partial"
  <2>1. output.labels = Labels
    BY <1>1, <1>3, <1>5 DEF ImageInv
  <2>2. output'.labels = Append(output.labels, LabelOf(next))
    BY <1>3, <1>5
  <2>4. Append(Labels, LabelOf(next)) = [k \in 1..next |-> LabelOf(k)]
    <3> HIDE DEF LabelOf
    <3> QED
      BY <1>1
  <2>5. \A k \in 1..next : LabelOf(k)' = LabelOf(k)
    BY <1>1 DEF LabelOf
  <2>6. output'.labels = [k \in 1..(next' - 1) |-> LabelOf(k)']
    <3>1. next' - 1 = next
      BY <1>1
    <3> QED
      BY <2>1, <2>2, <2>4, <2>5, <3>1
  <2> QED
    BY <1>1, <1>5, <2>6 DEF ImageInv, ImageOfExit
<1> QED
  BY <1>4, <1>5

\* All of them are the image.
LEMMA ImageEndEmit ==
  ASSUME TypeOK, Inv, SymsInv, ImageInv, EndEmit
  PROVE  ImageInv'
<1> SUFFICES ASSUME ~world.threads PROVE ImageInv'
  BY DEF ImageInv, EndEmit, inputs
<1>1. /\ pc = "emit" /\ pc' = "exited" /\ memory = atExit
      /\ UNCHANGED <<memory, atExit, resolvedSyms, warned, outputSyms, world>>
      /\ next \in Nat \ {0} /\ next > Len(resolvedSyms) /\ Len(resolvedSyms) \in Nat
  BY DEF EndEmit, ImageInv, inputs, program, TypeOK
<1>2. resolvedSyms = Without(outputSyms, warned)[Len(outputSyms)]
  BY <1>1 DEF SymsInv, EverySymbolAccounted
<1>3. \/ output'.state # "complete"
      \/ /\ output.state = "partial" /\ output'.state = "complete"
         /\ output'.labels = output.labels
  BY <1>1, EndEmitFile DEF Inv, OutputInv, OldOutput
<1>4. CASE output'.state # "complete"
  BY <1>1, <1>4 DEF ImageInv, ImageOfExit
<1>5. CASE output'.state = "complete"
  <2>1. next - 1 = Len(resolvedSyms) /\ output.labels = [k \in 1..(next - 1) |-> LabelOf(k)]
    BY <1>1, <1>3, <1>5 DEF ImageInv
  <2>2. output'.labels = output.labels
    BY <1>3, <1>5
  <2>3. output.labels = ImageOf(atExit)
    BY <1>1, <1>2, <2>1 DEF ImageOf, LabelOf
  <2>4. ImageOf(atExit)' = ImageOf(atExit)
    BY <1>1 DEF ImageOf
  <2> QED
    BY <1>1, <2>2, <2>3, <2>4 DEF ImageInv, ImageOfExit
<1> QED
  BY <1>4, <1>5

LEMMA ImageStep == TypeOK /\ Inv /\ SymsInv /\ ImageInv /\ [Next]_vars => ImageInv'
<1> SUFFICES ASSUME TypeOK, Inv, SymsInv, ImageInv, [Next]_vars PROVE ImageInv'
  OBVIOUS
<1> USE DEF inputs, program
<1>1. CASE LoadUserCode \/ FindMain \/ OpenFile \/ CreateReader \/ ReadDWARF \/ UnreadableType \/ WarnSym
           \/ ResolveSym \/ CallMain
  <2>1. output' = OldOutput /\ pc' \notin {"checkExit", "openOutput", "emit"} /\ world' = world
    BY <1>1 DEF LoadUserCode, FindMain, OpenFile, CreateReader, ReadDWARF, UnreadableType, WarnSym, ResolveSym,
         CallMain, Resolving, Fail, Crash, Inv, OutputInv
  <2> QED
    BY <2>1 DEF ImageInv, ImageOfExit, OldOutput
<1>2. CASE CheckExit
  BY <1>2 DEF CheckExit, Fail, ImageInv, ImageOfExit, Inv, OutputInv, OldOutput
<1>3. CASE OpenOutput
  <2>1. /\ next' = 1 /\ (output' = output \/ output' = [state |-> "partial", labels |-> << >>])
        /\ output = OldOutput /\ UNCHANGED <<memory, atExit, resolvedSyms, world>> /\ pc = "openOutput"
        /\ Len(resolvedSyms') \in Nat
    BY <1>3 DEF OpenOutput, Inv, OutputInv, TypeOK
  <2>2. << >> = [k \in 1..0 |-> LabelOf(k)']
    OBVIOUS
  <2>3. output'.state = "partial" => output'.labels = << >> /\ next' - 1 = 0 /\ next' <= Len(resolvedSyms') + 1
    BY <2>1 DEF OldOutput
  <2> QED
    BY <2>1, <2>2, <2>3 DEF ImageInv, ImageOfExit, OldOutput
<1>4. CASE EmitFails
  <2>1. output.state # "complete" /\ output'.state = output.state
    BY <1>4, EmitFailsFile DEF EmitFails, Inv, OutputInv, OldOutput
  <2> QED
    BY <1>4, <2>1 DEF EmitFails, Crash, ImageInv, ImageOfExit
<1>5. CASE MainWrites \/ ThreadWrites
  BY <1>5 DEF MainWrites, ThreadWrites, ImageInv, ImageOfExit, Inv, OutputInv, OldOutput
<1>6. CASE ConstructorsReturn \/ MainReturns \/ UserExits \/ UserAborts
  BY <1>6 DEF ConstructorsReturn, MainReturns, UserExits, UserAborts, UserEnds, Crash, ImageInv, ImageOfExit,
              Inv, OutputInv, OldOutput
<1>7. CASE Returned \/ UNCHANGED vars
  <2>1. UNCHANGED <<pc, next, resolvedSyms, warned, outputSyms, world, memory, atExit, output>>
    BY <1>7 DEF Returned, vars
  <2>2. ImageOf(atExit)' = ImageOf(atExit) /\ \A k : LabelOf(k)' = LabelOf(k)
    BY <2>1 DEF ImageOf, LabelOf
  <2> QED
    BY <2>1, <2>2 DEF ImageInv, ImageOfExit
<1> QED
  BY <1>1, <1>2, <1>3, <1>4, <1>5, <1>6, <1>7, ImageEmitSym, ImageEndEmit DEF Next, CedoStep, UserStep

\* The file has the objects of a program without threads as they were when its main
\* returned, each of them once for each time it was asked for and in that order.
THEOREM AlwaysSerialized == Spec => []Serialized
<1>1. TypeOK /\ ImageInv => Serialized
  BY DEF ImageInv, Serialized
<1> QED
  BY TypeCorrect, InvInit, InvStep, SymsInit, SymsStep, ImageInit, ImageStep, <1>1, PTL DEF Spec

------------------------------------------------------------------------------
(* The bootstrap of the version *)

Arrays == [githash: Commits \cup {Nothing},
           version: [commit: Commits \cup {Nothing}, description: Descriptions]]

\* The types of the files, the repository and the processes.
VBTypeOK ==
  /\ repo \in [Commits -> [description: Descriptions, works: BOOLEAN]]
  /\ head \in Commits
  /\ cmake \in {"idle", "git log", "git describe", "serialize", "generate"}
  /\ exporter \in Arrays
  /\ versionFile \in [exists: BOOLEAN, assembles: BOOLEAN, arrays: Arrays]
  /\ buildSystem \in {"none", "plain", "withVersion"}
  /\ binary \in [exists: BOOLEAN, commit: Commits \cup {Nothing}, arrays: Arrays]
  /\ binary.exists => binary.commit \in Commits
  /\ changed \in BOOLEAN /\ failed \in BOOLEAN

\* What the arrays should hold of the commit checked out.
Fresh == [githash |-> head, version |-> Described]

\* While nothing fails and the repository stays as it is, the arrays are filled one
\* after the other and come to the file; and whoever runs a cedo has one.
PassedOn ==
  /\ cmake = "git log" => exporter = Empty
  /\ cmake = "git describe" => exporter.version = NoVersion /\ (~changed => exporter.githash = head)
  /\ cmake = "serialize" /\ ~changed /\ ~failed => exporter = Fresh
  /\ cmake \in {"generate", "idle"} /\ ~changed /\ ~failed => versionFile.arrays = Fresh

\* A run of cedo in which nothing fails leaves a file; and nobody takes the cedo
\* away while cmake runs.
CedoStays ==
  /\ cmake # "idle" => binary.exists
  /\ cmake = "generate" /\ ~failed => versionFile.exists

VBInv == VBTypeOK /\ PassedOn /\ CedoStays

LEMMA EmptyArrays == Empty \in Arrays /\ Empty.version = NoVersion
  BY DEF Empty, Arrays, Nothing, NoVersion, Version, Descriptions

LEMMA VBInvInit == VBInit => VBInv
<1> SUFFICES ASSUME VBInit PROVE VBInv
  OBVIOUS
<1>1. PassedOn /\ CedoStays
  BY DEF VBInit, PassedOn, CedoStays
<1>2. versionFile \in [exists: BOOLEAN, assembles: BOOLEAN, arrays: Arrays]
  BY EmptyArrays DEF VBInit, NoFile
<1>3. binary \in [exists: BOOLEAN, commit: Commits \cup {Nothing}, arrays: Arrays] /\ ~binary.exists
  BY EmptyArrays DEF VBInit, NoBinary
<1> QED
  BY <1>1, <1>2, <1>3, EmptyArrays DEF VBInit, VBInv, VBTypeOK

LEMMA DescribedType ==
  ASSUME VBTypeOK
  PROVE  Described \in [commit: Commits \cup {Nothing}, description: Descriptions]
  BY DEF Described, NoVersion, Version, VBTypeOK, Descriptions, Nothing

\* What a run that goes wrong leaves is a file as well, or no file.
LEMMA LeftoversType ==
  ASSUME VBTypeOK
  PROVE  Leftovers \subseteq [exists: BOOLEAN, assembles: BOOLEAN, arrays: Arrays]
<1>1. [exporter EXCEPT !.version = NoVersion] \in Arrays
  BY DEF VBTypeOK, Arrays, NoVersion, Version, Nothing, Descriptions
<1>2. \A arrays \in Arrays : File(arrays) \in [exists: BOOLEAN, assembles: BOOLEAN, arrays: Arrays]
  BY DEF File
<1>3. Garbled \in [exists: BOOLEAN, assembles: BOOLEAN, arrays: Arrays]
  BY EmptyArrays DEF Garbled
<1>4. versionFile \in [exists: BOOLEAN, assembles: BOOLEAN, arrays: Arrays]
  BY DEF VBTypeOK
<1> QED
  BY <1>1, <1>2, <1>3, <1>4, EmptyArrays DEF Leftovers

\* Every step keeps the types.
LEMMA VBTypeStep == VBTypeOK /\ [VBNext]_VBVars => VBTypeOK'
<1> SUFFICES ASSUME VBTypeOK, [VBNext]_VBVars PROVE VBTypeOK'
  OBVIOUS
<1>1. CASE MoveHead
  BY <1>1 DEF MoveHead, VBTypeOK
<1>2. CASE Tag
  <2>1. PICK after \in [Commits -> Descriptions] :
          repo' = [c \in Commits |-> [repo[c] EXCEPT !.description = after[c]]]
    BY <1>2 DEF Tag
  <2>2. \A c \in Commits : [repo[c] EXCEPT !.description = after[c]] \in [description: Descriptions, works: BOOLEAN]
    BY DEF VBTypeOK
  <2>3. repo' \in [Commits -> [description: Descriptions, works: BOOLEAN]]
    BY <2>1, <2>2
  <2> QED
    BY <1>2, <2>3 DEF Tag, VBTypeOK
<1>3. CASE ConfigurePlain \/ ConfigureWithCedo \/ PopenFails
  BY <1>3, EmptyArrays DEF ConfigurePlain, ConfigureWithCedo, PopenFails, Fault, VBTypeOK
<1>4. CASE GitLog
  <2>1. exporter' \in Arrays
    BY <1>4 DEF GitLog, VBTypeOK, Arrays
  <2> QED
    BY <1>4, <2>1 DEF GitLog, Fault, NoFault, VBTypeOK
<1>5. CASE GitDescribe
  <2>1. exporter' \in Arrays
    BY <1>5, DescribedType DEF GitDescribe, VBTypeOK, Arrays
  <2> QED
    BY <1>5, <2>1 DEF GitDescribe, Fault, NoFault, VBTypeOK
<1>6. CASE Serialize
  <2>1. File(exporter) \in [exists: BOOLEAN, assembles: BOOLEAN, arrays: Arrays]
    BY DEF File, VBTypeOK
  <2>2. versionFile' = File(exporter) \/ versionFile' \in Leftovers
    BY <1>6 DEF Serialize
  <2>3. versionFile' \in [exists: BOOLEAN, assembles: BOOLEAN, arrays: Arrays]
    BY <2>1, <2>2, LeftoversType
  <2> QED
    BY <1>6, <2>3 DEF Serialize, Fault, NoFault, VBTypeOK
<1>7. CASE GenerateFails \/ Generate
  BY <1>7 DEF GenerateFails, Generate, VBTypeOK
<1>8. CASE Build
  <2>1. Linked \in Arrays
    BY EmptyArrays DEF Linked, VBTypeOK
  <2> QED
    BY <1>8, <2>1 DEF Build, Binary, VBTypeOK
<1>9. CASE Clean
  BY <1>9, EmptyArrays DEF Clean, NoBinary, VBTypeOK
<1>10. CASE UNCHANGED VBVars
  BY <1>10 DEF VBVars, VBTypeOK
<1> QED
  BY <1>1, <1>2, <1>3, <1>4, <1>5, <1>6, <1>7, <1>8, <1>9, <1>10 DEF VBNext, Configure, ConfigureStep

\* The hash is asked for first and the description second; what fails on the way is
\* marked until cmake runs a cedo again.
LEMMA PassedOnStep == VBTypeOK /\ PassedOn /\ [VBNext]_VBVars => PassedOn'
<1> SUFFICES ASSUME VBTypeOK, PassedOn, [VBNext]_VBVars PROVE PassedOn'
  OBVIOUS
<1>1. CASE MoveHead \/ Tag
  BY <1>1 DEF MoveHead, Tag, PassedOn
<1>2. CASE ConfigurePlain \/ GenerateFails \/ Generate \/ Build \/ Clean \/ UNCHANGED VBVars
  <2>1. UNCHANGED <<repo, head, exporter, versionFile, changed, failed>>
    BY <1>2 DEF ConfigurePlain, GenerateFails, Generate, Build, Clean, VBVars
  <2>2. UNCHANGED Fresh
    BY <2>1 DEF Fresh, Described
  <2>3. cmake' = cmake \/ (cmake \in {"generate", "idle"} /\ cmake' \in {"generate", "idle"})
    BY <1>2 DEF ConfigurePlain, GenerateFails, Generate, Build, Clean, VBVars
  <2> QED
    BY <2>1, <2>2, <2>3 DEF PassedOn
<1>3. CASE ConfigureWithCedo \/ PopenFails
  BY <1>3 DEF ConfigureWithCedo, PopenFails, Fault, PassedOn
<1>4. CASE GitLog
  <2>1. CASE cmake' = "serialize"
    BY <1>4, <2>1 DEF GitLog, Fault, PassedOn
  <2>2. CASE cmake' = "git describe"
    <3>1. exporter' = [exporter EXCEPT !.githash = head] /\ exporter = Empty
      BY <1>4, <2>2 DEF GitLog, PassedOn
    <3>2. exporter'.githash = head /\ exporter'.version = NoVersion
      BY <3>1 DEF Empty
    <3> QED
      BY <1>4, <2>2, <3>2 DEF GitLog, PassedOn
  <2> QED
    BY <1>4, <2>1, <2>2 DEF GitLog
<1>5. CASE GitDescribe
  <2>1. CASE Fault
    BY <1>5, <2>1 DEF GitDescribe, Fault, PassedOn
  <2>2. CASE exporter' = [exporter EXCEPT !.version = Described] /\ NoFault
    <3>1. exporter' = [githash |-> exporter.githash, version |-> Described]
      BY <2>2 DEF VBTypeOK, Arrays
    <3>2. ~changed' => exporter' = Fresh
      BY <1>5, <3>1 DEF GitDescribe, PassedOn, Fresh
    <3>3. UNCHANGED Fresh
      BY <1>5 DEF GitDescribe, Fresh, Described
    <3> QED
      BY <1>5, <3>2, <3>3 DEF GitDescribe, PassedOn
  <2> QED
    BY <1>5, <2>1, <2>2 DEF GitDescribe
<1>6. CASE Serialize
  <2>1. UNCHANGED Fresh
    BY <1>6 DEF Serialize, Fresh, Described
  <2>2. failed' \/ (versionFile'.arrays = exporter /\ failed' = failed)
    BY <1>6 DEF Serialize, Fault, NoFault, File
  <2> QED
    BY <1>6, <2>1, <2>2 DEF Serialize, PassedOn
<1> QED
  BY <1>1, <1>2, <1>3, <1>4, <1>5, <1>6 DEF VBNext, Configure, ConfigureStep

\* Only make takes a cedo away, when no cmake runs.
LEMMA CedoStaysStep == CedoStays /\ [VBNext]_VBVars => CedoStays'
<1> SUFFICES ASSUME CedoStays, [VBNext]_VBVars PROVE CedoStays'
  OBVIOUS
<1>1. CASE MoveHead \/ Tag \/ ConfigurePlain \/ PopenFails \/ GenerateFails \/ Generate
  BY <1>1 DEF MoveHead, Tag, ConfigurePlain, PopenFails, Fault, GenerateFails, Generate, CedoStays
<1>2. CASE ConfigureWithCedo
  BY <1>2 DEF ConfigureWithCedo, Fault, Found, CedoStays
<1>3. CASE GitLog \/ GitDescribe
  BY <1>3 DEF GitLog, GitDescribe, Fault, NoFault, CedoStays
<1>4. CASE Serialize
  BY <1>4 DEF Serialize, Fault, NoFault, File, CedoStays
<1>5. CASE Build \/ Clean
  BY <1>5 DEF Build, Clean, CedoStays
<1>6. CASE UNCHANGED VBVars
  BY <1>6 DEF VBVars, CedoStays
<1> QED
  BY <1>1, <1>2, <1>3, <1>4, <1>5, <1>6 DEF VBNext, Configure, ConfigureStep

LEMMA VBInvStep == VBInv /\ [VBNext]_VBVars => VBInv'
  BY VBTypeStep, PassedOnStep, CedoStaysStep DEF VBInv

\* A build after a run of cedo in which nothing failed has the version of its source,
\* however often commits were checked out, tagged, configured and built before, and
\* whatever failed then, as long as the repository has not changed since that run.
THEOREM BuildAlwaysFresh == VBSpec => IdentFresh
<1>1. ASSUME VBInv, Build, buildSystem = "withVersion", ~changed, ~failed PROVE IdentRight'
  <2>1. versionFile.arrays = Fresh
    BY <1>1 DEF VBInv, PassedOn, Build
  <2>2. binary' = Binary(head, Fresh)
    BY <1>1, <2>1 DEF Build, Linked
  <2>3. UNCHANGED <<repo, head>> /\ UNCHANGED Described
    BY <1>1 DEF Build, Described
  <2>4. Described.description = repo[head].description
    BY DEF Described, NoVersion, Version
  <2>5. Fresh.version = Described
    BY DEF Fresh
  <2>6. binary'.exists /\ binary'.arrays = Fresh
    BY <2>2 DEF Binary
  <2> QED
    BY <2>3, <2>4, <2>5, <2>6 DEF IdentRight, createVersionString, Fresh
<1>2. VBInv => [Build /\ buildSystem = "withVersion" /\ ~changed /\ ~failed /\ repo[head].description # "long"
                => IdentRight']_VBVars
  BY <1>1
<1> QED
  BY VBInvInit, VBInvStep, <1>2, PTL DEF VBSpec, IdentFresh

\* A cedo is there whenever cmake runs one, and leaves a version.s unless it does not
\* work or something that it needs fails.
THEOREM ConfigureFailsOnlyIfBroken == VBSpec => FailsOnlyIfBroken
<1>1. VBInv /\ [VBNext]_VBVars => [GenerateFails => binary.exists /\ failed]_VBVars
  BY DEF VBInv, CedoStays, GenerateFails
<1> QED
  BY VBInvInit, VBInvStep, <1>1, PTL DEF VBSpec, FailsOnlyIfBroken

------------------------------------------------------------------------------
(* The proofs about the components, for the components of the pipeline *)

\* The proofs about the reader, the type reader and the emitter, for the variables they
\* have here.
RP == INSTANCE DWARFReaderProofs WITH pc <- readerPc

TP ==
  INSTANCE DWARFTypeProofs WITH Infos <- {}, debugInfo <- Info(outputSyms[next]), pc <- typePc, calls <- typeCalls

\* Where the pointers are that the emitter finds.
Places == {AddressOf[n] + o : n \in Names, o \in {0, 8}}

EP ==
  INSTANCE EmitAsmProofs WITH Types <- ObjectTypes, SymLists <- Seq(Emitter!Syms), Memories <- [Places -> Nat],
    AddrSize <- ObjAddrSize, syms <- Syms, memory <- Pointers(memory), pc <- emitPc, next <- emitNext,
    calls <- emitCalls, output <- asm

\* A step of a component is one the proofs are about.
LEMMA ReaderSteps == Reader!Next => RP!Next
  BY DEF Reader!Next, Reader!MissingSections, Reader!ReadAbbrev, Reader!UnexpectedAbbrev, Reader!EndOfAbbrevs,
         Reader!ReadHeader, Reader!EndOfInfo, Reader!UnknownAbbrev, Reader!ReadDIE, Reader!Returned,
         Reader!expectedCode, Reader!HeaderOK, Reader!AddrSizeRead, Reader!HeaderSize, Reader!End,
         Reader!Byte, Reader!LostParent, Reader!HasDIE, Reader!DIEIndex, Reader!Top, Reader!Pop,
         Reader!Linked, Reader!Ended, Reader!vars, RP!Next, RP!MissingSections, RP!ReadAbbrev,
         RP!UnexpectedAbbrev, RP!EndOfAbbrevs, RP!ReadHeader, RP!EndOfInfo, RP!UnknownAbbrev, RP!ReadDIE,
         RP!Returned, RP!expectedCode, RP!HeaderOK, RP!AddrSizeRead, RP!HeaderSize, RP!End, RP!Byte,
         RP!LostParent, RP!HasDIE, RP!DIEIndex, RP!Top, RP!Pop, RP!Linked, RP!Ended, RP!vars

\* The community modules' operators are another instance's too.
LEMMA SameSorted == \A ms : TypeReader!Sorted(ms) = TP!Sorted(ms)
  BY DEF TypeReader!Sorted, TP!Sorted, TypeReader!Cardinality, TP!Cardinality

LEMMA TypeSteps == TypeReader!Next => TP!Next
  BY SameSorted DEF TypeReader!Next, TypeReader!GetVariableType, TypeReader!ReturnVariableType,
       TypeReader!Typedef, TypeReader!Unsupported, TypeReader!Base, TypeReader!Overflow,
       TypeReader!EnterArray, TypeReader!LeaveArray, TypeReader!EnterStruct, TypeReader!NotAMember,
       TypeReader!EnterMember, TypeReader!LeaveMember, TypeReader!LeaveStruct, TypeReader!EnterPointer,
       TypeReader!LeavePointer, TypeReader!Returned, TypeReader!Ended, TypeReader!vars, TypeReader!Indices,
       TypeReader!DIEAt, TypeReader!TypeDieOf, TypeReader!BaseType, TypeReader!PointerType,
       TypeReader!ArrayType, TypeReader!StructType, TypeReader!CallTypeDie, TypeReader!Return, TypeReader!End,
       TypeReader!Entering, TypeReader!Top, TypeReader!Below, TypeReader!InLoop, TypeReader!Back,
       TypeReader!Push, TypeReader!HasRoom, TypeReader!IsNamed, TypeReader!Found, TypeReader!Compounds,
       TypeReader!Child, TypeReader!IsMember, TP!Next, TP!GetVariableType, TP!ReturnVariableType, TP!Typedef,
       TP!Unsupported, TP!Base, TP!Overflow, TP!EnterArray, TP!LeaveArray, TP!EnterStruct, TP!NotAMember,
       TP!EnterMember, TP!LeaveMember, TP!LeaveStruct, TP!EnterPointer, TP!LeavePointer, TP!Returned,
       TP!Ended, TP!vars, TP!Indices, TP!DIEAt, TP!TypeDieOf, TP!BaseType, TP!PointerType, TP!ArrayType,
       TP!StructType, TP!CallTypeDie, TP!Return, TP!End, TP!Entering, TP!Top, TP!Below, TP!InLoop, TP!Back,
       TP!Push, TP!HasRoom, TP!IsNamed, TP!Found, TP!Compounds, TP!Child, TP!IsMember

LEMMA EmitSteps == Emitter!Next => EP!Next
  BY DEF Emitter!Next, Emitter!RegisterSym, Emitter!EmitFilePrologue, Emitter!EmitOneSym,
         Emitter!EmitFileEpilogue, Emitter!EmitPointerType, Emitter!UnresolvedPointer, Emitter!EmitChunk,
         Emitter!EndIntegralType, Emitter!EmitTypeWithChildren, Emitter!EmitChild, Emitter!EndChildren,
         Emitter!Returned, Emitter!Ended, Emitter!vars, Emitter!Run, Emitter!Byte, Emitter!Zero,
         Emitter!Pointer, Emitter!Top, Emitter!Below, Emitter!Call, Emitter!Running, Emitter!Emit,
         Emitter!findAlignment, Emitter!getPointerValue, Emitter!Unresolved, Emitter!LargestDirective,
         Emitter!Children, Emitter!Offsets, Emitter!Chosen, Emitter!PaddingTo, EP!Next, EP!RegisterSym,
         EP!EmitFilePrologue, EP!EmitOneSym, EP!EmitFileEpilogue, EP!EmitPointerType, EP!UnresolvedPointer,
         EP!EmitChunk, EP!EndIntegralType, EP!EmitTypeWithChildren, EP!EmitChild, EP!EndChildren, EP!Returned,
         EP!Ended, EP!vars, EP!Run, EP!Byte, EP!Zero, EP!Pointer, EP!Top, EP!Below, EP!Call, EP!Running,
         EP!Emit, EP!findAlignment, EP!getPointerValue, EP!Unresolved, EP!LargestDirective, EP!Children,
         EP!Offsets, EP!Chosen, EP!PaddingTo

\* A name means in the DIEs that were read what it means in those that were written: they
\* are the same.
LEMMA MeantVar ==
  ASSUME NEW n, n = outputSyms[next], Info(n) = WrittenInfo(unit, n)
  PROVE  TP!VariableType = Meant(unit, n)!VariableType
  BY DEF TP!VariableType, TP!Found, TP!IsNamed, TP!TypeDieOf, TP!DIEAt, TP!Indices,
     Meant!VariableType, Meant!Found, Meant!IsNamed, Meant!TypeDieOf, Meant!DIEAt, Meant!Indices

LEMMA MeantMeaning ==
  ASSUME NEW n, n = outputSyms[next], Info(n) = WrittenInfo(unit, n)
  PROVE  TP!Meaning = Meant(unit, n)!Meaning
  BY DEF TP!Meaning, TP!SubrangesOK, TP!MembersOK, TP!MemberDIE, TP!NumElements, TP!ChildrenOf,
         TP!TypeDieOf, TP!DIEAt, TP!Indices, TP!BaseType, TP!PointerType, TP!ArrayType, TP!StructType,
         TP!Sorted, TP!Cardinality,
         TP!Compounds, Meant!Meaning, Meant!SubrangesOK, Meant!MembersOK, Meant!MemberDIE,
         Meant!NumElements, Meant!ChildrenOf, Meant!TypeDieOf, Meant!DIEAt, Meant!Indices, Meant!BaseType,
         Meant!PointerType, Meant!ArrayType, Meant!StructType, Meant!Sorted, Meant!Cardinality, Meant!Compounds

LEMMA MeantReach ==
  ASSUME NEW n, n = outputSyms[next], Info(n) = WrittenInfo(unit, n), NEW t
  PROVE  TP!Reachable(t) = Meant(unit, n)!Reachable(t)
  BY DEF TP!Reachable, TP!Within, TP!Refs, TP!ChildrenOf, TP!TypeDieOf, TP!DIEAt, TP!Indices,
   Meant!Reachable, Meant!Within, Meant!Refs, Meant!ChildrenOf, Meant!TypeDieOf, Meant!DIEAt, Meant!Indices

LEMMA MeantKnown ==
  ASSUME NEW n, n = outputSyms[next], Info(n) = WrittenInfo(unit, n), NEW t
  PROVE  TP!MembersKnown(t) <=> Meant(unit, n)!MembersKnown(t)
<1>1. TP!Meaning = Meant(unit, n)!Meaning /\ TP!Reachable(t) = Meant(unit, n)!Reachable(t)
  BY MeantMeaning, MeantReach
<1> QED
  BY <1>1 DEF TP!MembersKnown, Meant!MembersKnown, TP!Refs, TP!ChildrenOf, TP!TypeDieOf, TP!DIEAt, TP!Indices,
         TP!Compounds, Meant!Refs, Meant!ChildrenOf, Meant!TypeDieOf, Meant!DIEAt, Meant!Indices,
         Meant!Compounds

\* What a unit means does not change.
LEMMA MeantStays ==
  ASSUME unit' = unit, NEW CONSTANT n
  PROVE  /\ Meant(unit, n)!VariableType' = Meant(unit, n)!VariableType
         /\ Meant(unit, n)!Meaning' = Meant(unit, n)!Meaning
         /\ \A t : Meant(unit, n)!Reachable(t)' = Meant(unit, n)!Reachable(t)
<1>1. WrittenInfo(unit, n)' = WrittenInfo(unit, n)
  BY DEF WrittenInfo, Attributed, Reader!DeclOf
<1>2. Meant(unit, n)!VariableType' = Meant(unit, n)!VariableType
  BY <1>1 DEF Meant!VariableType, Meant!Found, Meant!IsNamed, Meant!TypeDieOf, Meant!DIEAt, Meant!Indices
<1>3. Meant(unit, n)!Meaning' = Meant(unit, n)!Meaning
  BY <1>1 DEF Meant!Meaning, Meant!SubrangesOK, Meant!MembersOK, Meant!MemberDIE, Meant!NumElements, Meant!ChildrenOf,
         Meant!TypeDieOf, Meant!DIEAt, Meant!Indices, Meant!BaseType,
         Meant!PointerType, Meant!ArrayType, Meant!StructType, Meant!Sorted, Meant!Cardinality, Meant!Compounds
<1>4. \A t : Meant(unit, n)!Reachable(t)' = Meant(unit, n)!Reachable(t)
  BY <1>1 DEF Meant!Reachable, Meant!Within, Meant!Refs, Meant!ChildrenOf, Meant!TypeDieOf, Meant!DIEAt,
         Meant!Indices
<1> QED
  BY <1>2, <1>3, <1>4

LEMMA KnownStays == ASSUME unit' = unit, NEW CONSTANT n PROVE Known(unit, n)' <=> Known(unit, n)
<1>1. WrittenInfo(unit, n)' = WrittenInfo(unit, n)
  BY DEF WrittenInfo, Attributed, Reader!DeclOf
<1>2. \A t : Meant(unit, n)!MembersKnown(t)' <=> Meant(unit, n)!MembersKnown(t)
  BY <1>1, MeantStays DEF Meant!MembersKnown,
    Meant!Refs, Meant!ChildrenOf, Meant!TypeDieOf, Meant!DIEAt, Meant!Indices, Meant!Compounds
<1> QED
  BY <1>2, MeantStays DEF Known

LEMMA WellFormedStays ==
  ASSUME unit' = unit PROVE Reader!WellFormed(unit, ObjAddrSize)' <=> Reader!WellFormed(unit, ObjAddrSize)
  BY DEF Reader!WellFormed, Reader!NumberedAbbrevs, Reader!GoodHeader, Reader!BytesAgree, Reader!DepthsAgree,
         Reader!DeclOf, Reader!AttrEnd, Reader!EntryEnd, Reader!Opens, Reader!HeaderSize

LEMMA InputsStay == ASSUME UNCHANGED <<unit, outputSyms>> PROVE InputsRight' <=> InputsRight
<1>1. Reader!WellFormed(unit, ObjAddrSize)' <=> Reader!WellFormed(unit, ObjAddrSize)
  BY WellFormedStays
<1>2. ToSet(outputSyms)' = ToSet(outputSyms)
  BY DEF ToSet
<1>3. \A n : Known(unit, n)' <=> Known(unit, n)
  BY KnownStays
<1> QED
  BY <1>1, <1>2, <1>3 DEF InputsRight

\* What the components assume of the constants holds.
LEMMA ReaderAssumed == RP!PaddingIsTag /\ RP!UnitsAssumption
  BY ComponentsAssumption DEF RP!PaddingIsTag, RP!UnitsAssumption, Reader!PaddingIsTag, Reader!UnitsAssumption,
    RP!Declarations, RP!Entries, Reader!Declarations, Reader!Entries

LEMMA TypeReaderAssumed == TP!InfosAssumption
  BY ComponentsAssumption DEF TP!InfosAssumption, TypeReader!InfosAssumption

LEMMA EmitterAssumed == EP!TypesAssumption /\ EP!NestingAssumption /\ EP!EmitAssumption
<1>1. EP!TypesAssumption
  BY ComponentsAssumption DEF EP!TypesAssumption, Emitter!TypesAssumption, EP!Kinds, Emitter!Kinds
<1>2. EP!NestingAssumption
  BY ComponentsAssumption DEF EP!NestingAssumption, Emitter!NestingAssumption, EP!Nesting, Emitter!Nesting,
       EP!ComponentsOf, Emitter!ComponentsOf, EP!Cardinality, Emitter!Cardinality, EP!IsFiniteSet,
       Emitter!IsFiniteSet
<1>3. EP!EmitAssumption
  BY ComponentsAssumption DEF EP!EmitAssumption, Emitter!EmitAssumption, EP!Syms, Emitter!Syms
<1> QED
  BY <1>1, <1>2, <1>3

\* The reader of the pipeline and that of its proofs speak of the same units.
LEMMA SameUnits ==
  ASSUME NEW u
  PROVE  /\ Reader!WellFormed(u, ObjAddrSize) <=> RP!WellFormed(u, ObjAddrSize)
         /\ \A i : RP!DeclOf(u, i) = Reader!DeclOf(u, i)
         /\ \A i, j : RP!IsParent(u, i, j) <=> Reader!IsParent(u, i, j)
<1>1. Reader!WellFormed(u, ObjAddrSize) <=> RP!WellFormed(u, ObjAddrSize)
  BY DEF Reader!WellFormed, Reader!NumberedAbbrevs, Reader!GoodHeader, Reader!BytesAgree, Reader!DepthsAgree,
         Reader!DeclOf, Reader!AttrEnd, Reader!EntryEnd, Reader!Opens, Reader!HeaderSize, RP!WellFormed,
         RP!NumberedAbbrevs, RP!GoodHeader, RP!BytesAgree, RP!DepthsAgree, RP!DeclOf, RP!AttrEnd, RP!EntryEnd,
         RP!Opens, RP!HeaderSize
<1>2. \A i : RP!DeclOf(u, i) = Reader!DeclOf(u, i)
  BY DEF RP!DeclOf, Reader!DeclOf
<1>3. \A i, j : RP!IsParent(u, i, j) <=> Reader!IsParent(u, i, j)
  BY DEF RP!IsParent, Reader!IsParent
<1> QED
  BY <1>1, <1>2, <1>3

\* DIE i of a unit that has been read, with its attributes, is as it was written.
LEMMA DIEWritten ==
  ASSUME RP!ReadInv, Reader!WellFormed(unit, ObjAddrSize), readerPc = "done",
         NEW i \in 1..Len(unit.entries), NEW name
  PROVE  /\ Attributed(unit, debugInfo[i], name) = WrittenInfo(unit, name)[i]
         /\ Attributed(unit, debugInfo[i], name) \in TP!DIEs
<1> DEFINE e == unit.entries[i]
           d == debugInfo[i]
           attrs == unit.attrs[e.at]
<1>1. RP!EntryRead(i) /\ Len(debugInfo) = Len(unit.entries)
  BY RP!UnitIsRead, ReaderAssumed, SameUnits
<1>2. unit \in Units /\ debugInfo \in Seq(RP!DIE)
  BY DEF RP!ReadInv, RP!TypeOK
<1>3. /\ {attrs.type, attrs.byteSize, attrs.count, attrs.location} \subseteq Nat \cup {Absent}
      /\ attrs.children \in Seq(Nat)
      /\ \A k, l \in 1..Len(attrs.children) : k < l => attrs.children[k] < attrs.children[l]
      /\ {attrs.children[k] : k \in 1..Len(attrs.children)} =
           {unit.entries[j].at : j \in {k \in 1..Len(unit.entries) : Reader!IsParent(unit, i, k)}}
  BY <1>2, AttrsAssumption
<1>4. /\ d \in RP!DIE /\ d.tag = Reader!DeclOf(unit, i).tag /\ d.offset = e.at
      /\ RP!Rising(d.childrenOffsets)
      /\ \A o \in Nat : RP!IsChild(o, d) <=>
           \E j \in 1..Len(unit.entries) : o = unit.entries[j].at /\ Reader!IsParent(unit, i, j)
  BY <1>1, SameUnits DEF RP!EntryRead
<1>5. d.tag \in Tags /\ d.offset \in Nat /\ d.childrenOffsets \in Seq(Nat)
  BY <1>4 DEF RP!DIE
<1> DEFINE c == d.childrenOffsets
<1>6. attrs.children = c
  <2> DEFINE s == attrs.children
  <2>1. RP!Rising(s)
    BY <1>3 DEF RP!Rising
  <2>2. \A o \in Nat : (\E k \in 1..Len(s) : s[k] = o) <=>
                       \E j \in 1..Len(unit.entries) : o = unit.entries[j].at /\ Reader!IsParent(unit, i, j)
    <3> SUFFICES ASSUME NEW o \in Nat
                 PROVE  (\E k \in 1..Len(s) : s[k] = o) <=>
                        \E j \in 1..Len(unit.entries) : o = unit.entries[j].at /\ Reader!IsParent(unit, i, j)
      OBVIOUS
    <3>1. o \in {s[k] : k \in 1..Len(s)} <=>
          o \in {unit.entries[j].at : j \in {k \in 1..Len(unit.entries) : Reader!IsParent(unit, i, k)}}
      BY <1>3
    <3> HIDE DEF s
    <3> QED
      BY <3>1
  <2>3. \A o \in Nat : RP!IsChild(o, d) <=> \E k \in 1..Len(c) : c[k] = o
    BY DEF RP!IsChild
  <2>4. \A o \in Nat : (\E k \in 1..Len(s) : s[k] = o) <=> (\E k \in 1..Len(c) : c[k] = o)
    BY <2>2, <2>3, <1>4
  <2>5. s \in Seq(Nat) /\ c \in Seq(Nat) /\ RP!Rising(c)
    BY <1>3, <1>4, <1>5
  <2> HIDE DEF s, c
  <2> QED
    BY <2>1, <2>4, <2>5, RP!RisingUnique, ReaderAssumed DEF s
<1>7. Attributed(unit, d, name) = WrittenInfo(unit, name)[i]
  BY <1>4, <1>6 DEF Attributed, WrittenInfo
<1>8. Attributed(unit, d, name) \in TP!DIEs
  <2>1. d.tag \in STRING
    BY <1>5, PipelineAssumption
  <2>2. /\ unit.attrs[d.offset] = attrs /\ (attrs.name = name) \in BOOLEAN
        /\ attrs.type \in TP!NatOrAbsent /\ attrs.byteSize \in TP!NatOrAbsent
        /\ attrs.count \in TP!NatOrAbsent /\ attrs.location \in TP!NatOrAbsent
    BY <1>3, <1>4 DEF TP!NatOrAbsent
  <2> HIDE DEF d, attrs
  <2> QED
    BY <1>5, <2>1, <2>2 DEF Attributed, TP!DIEs
<1> QED
  BY <1>7, <1>8

\* The DIEs read are those that were written, with their attributes.
LEMMA InfoWritten ==
  ASSUME RP!ReadInv, Reader!WellFormed(unit, ObjAddrSize), readerPc = "done", NEW name
  PROVE  Info(name) = WrittenInfo(unit, name) /\ Info(name) \in Seq(TP!DIEs)
<1> DEFINE n == Len(unit.entries)
<1>1. Len(debugInfo) = n
  BY RP!UnitIsRead, ReaderAssumed, SameUnits
<1>2. n \in Nat
  BY <1>1 DEF RP!ReadInv, RP!TypeOK
<1>3. Info(name) = [i \in 1..n |-> Attributed(unit, debugInfo[i], name)]
  BY <1>1 DEF Info
<1>4. \A i \in 1..n : /\ Attributed(unit, debugInfo[i], name) = WrittenInfo(unit, name)[i]
                      /\ Attributed(unit, debugInfo[i], name) \in TP!DIEs
  BY DIEWritten
<1>5. WrittenInfo(unit, name) = [i \in 1..n |-> WrittenInfo(unit, name)[i]]
  BY DEF WrittenInfo
<1> HIDE DEF n
<1> QED
  BY <1>2, <1>3, <1>4, <1>5

------------------------------------------------------------------------------
(* What the steps of the pipeline leave alone *)

\* The variables of the driver keep their types when its parts run step by step.
LEMMA PipeTypeStep ==
  ASSUME TypeOK, TP!IsSeq(symTypes), Len(symTypes) = Len(resolvedSyms), [PipelineNext]_allVars
  PROVE  TypeOK' /\ TP!IsSeq(symTypes)' /\ Len(symTypes)' = Len(resolvedSyms)'
<1> USE DEF inputs, program
<1>1. CASE UNCHANGED vars /\ UNCHANGED symTypes
  <2>1. TypeOK'
    BY <1>1, TypeStep
  <2> QED
    BY <1>1, <2>1 DEF TP!IsSeq, vars
<1>2. CASE DriverStep \/ EmitterStep \/ ((UserStep \/ Returned) /\ UNCHANGED details)
  <2>1. [Next]_vars /\ UNCHANGED symTypes
    BY <1>2 DEF DriverStep, EmitterStep, details, Next, CedoStep
  <2>2. UNCHANGED resolvedSyms
    BY <1>2 DEF DriverStep, EmitterStep, LoadUserCode, FindMain, OpenFile, CreateReader, CallMain, CheckExit,
           OpenOutput, EmitSym, EmitFails, EndEmit, UserStep, MainWrites, ThreadWrites, MainReturns,
           ConstructorsReturn, UserExits, UserAborts, UserEnds, Returned, vars
  <2> QED
    BY <2>1, <2>2, TypeStep DEF TP!IsSeq
<1>3. CASE UnitRead \/ NoType
  <2>1. TypeOK'
    BY <1>3 DEF UnitRead, NoType, Fail, Crash, TypeOK
  <2> QED
    BY <1>3, <2>1 DEF UnitRead, NoType, TP!IsSeq, details
<1>4. CASE NoSym \/ AddSym
  <2>1. outputSyms[next] \in Names /\ next' \in Nat \ {0}
    BY <1>4, InputTypes DEF NoSym, AddSym, NextSym, Resolving, TypeOK
  <2>2. CASE NoSym
    BY <2>1, <2>2 DEF NoSym, NextSym, TypeOK, TP!IsSeq
  <2>3. CASE AddSym
    <3>1. /\ resolvedSyms \in Seq(Names) /\ resolvedSyms' = Append(resolvedSyms, outputSyms[next])
          /\ symTypes' = Append(symTypes, value)
      BY <2>3 DEF AddSym, TypeOK
    <3>2. resolvedSyms' \in Seq(Names) /\ Len(resolvedSyms') = Len(resolvedSyms) + 1
      BY <2>1, <3>1, AppendProperties
    <3>3. TP!Longer(symTypes', symTypes, value)
      BY <3>1, TP!AppendFacts, TypeReaderAssumed
    <3>4. TypeOK'
      BY <2>1, <2>3, <3>2 DEF AddSym, NextSym, TypeOK
    <3> QED
      BY <3>2, <3>3, <3>4 DEF TP!Longer, TP!IsSeq
  <2> QED
    BY <1>4, <2>2, <2>3
<1> QED
  BY <1>1, <1>2, <1>3, <1>4 DEF PipelineNext, CedoSteps, ReadUnit, FindType, EmitStep, allVars, details

\* The reader takes steps where the driver calls it, and no others.
LEMMA ReaderRuns == [PipelineNext]_allVars => [RP!Next]_(RP!vars)
<1>1. ReadUnit => RP!Next
  BY ReaderSteps DEF ReadUnit
<1>2. [PipelineNext]_allVars => ReadUnit \/ UNCHANGED readerVars
  BY DEF PipelineNext, CedoSteps, DriverStep, UnitRead, FindType, NoSym, AddSym, NoType, EmitStep, EmitterStep,
         allVars, details
<1> QED
  BY <1>1, <1>2 DEF readerVars, RP!vars

\* The components, before they are called.
TypeFresh == typePc = "getVariableType" /\ value = Null /\ typeCalls = << >>

EmitFresh ==
  emitPc = "registerKnownSyms" /\ emitNext = 1 /\ symbolizedAddrs = << >> /\ emitCalls = << >> /\ asm = << >>

UnitUnread == pc \in {"loadUserCode", "constructors", "findMain", "openFile", "createReader", "readDWARF"}
Unemitted  == UnitUnread \/ pc \in {"resolve", "userMain", "checkExit", "openOutput"}
Written    == output.state = "complete"
UserEnded  == pc \in {"checkExit", "openOutput", "emit"} \/ Written
UnitKnown  == pc \in {"resolve", "userMain"} \/ UserEnded

\* Where in its run cedo calls each component, and what it has of them by then.
Phases ==
  /\ UnitUnread => TypeFresh /\ resolvedSyms = << >>
  /\ Unemitted => EmitFresh
  /\ UnitKnown => readerPc = "done"
  /\ UserEnded => atExit = memory
  /\ Written => pc = "exited" /\ emitPc = "done"

LEMMA PhasesInit == PipelineInit => Phases
  BY DEF PipelineInit, Init, Phases, TypeFresh, EmitFresh, UnitUnread, Unemitted, Written, UserEnded,
         UnitKnown, OldOutput

\* No step of a part is taken but where the driver calls it.
LEMMA PhasesStep ==
  ASSUME ~world.threads, TypeOK, Phases, [PipelineNext]_allVars
  PROVE  Phases'
<1> USE DEF inputs, program
<1> DEFINE Same == UNCHANGED <<typePc, value, typeCalls, emitPc, emitNext, symbolizedAddrs, emitCalls, asm, readerPc>>
<1>1. CASE UNCHANGED allVars
  BY <1>1 DEF Phases, TypeFresh, EmitFresh, UnitUnread, Unemitted, Written, UserEnded, UnitKnown, allVars,
         vars, details, readerVars, typeVars, emitVars
<1>2. CASE DriverStep
  <2>1. Same
    BY <1>2 DEF DriverStep, details, readerVars, typeVars, emitVars
  <2>2. CASE LoadUserCode \/ FindMain \/ OpenFile \/ CreateReader
    BY <2>1, <2>2 DEF LoadUserCode, FindMain, OpenFile, CreateReader, Fail,
       Phases, TypeFresh, EmitFresh, UnitUnread, Unemitted, Written, UserEnded, UnitKnown
  <2>3. CASE CallMain \/ CheckExit
    BY <2>1, <2>3 DEF CallMain, CheckExit, Fail,
       Phases, TypeFresh, EmitFresh, UnitUnread, Unemitted, Written, UserEnded, UnitKnown
  <2>4. CASE OpenOutput
    BY <2>1, <2>4 DEF OpenOutput,
       Phases, TypeFresh, EmitFresh, UnitUnread, Unemitted, Written, UserEnded, UnitKnown
  <2> QED
    BY <1>2, <2>2, <2>3, <2>4 DEF DriverStep
<1>3. CASE ReadUnit \/ FindType \/ EmitStep
  BY <1>3 DEF ReadUnit, FindType, EmitStep, vars, readerVars, typeVars, emitVars, Resolving, Reader!Ended,
         Emitter!Ended, Phases, TypeFresh, EmitFresh, UnitUnread, Unemitted, Written, UserEnded, UnitKnown
<1>4. CASE UnitRead \/ NoType
  BY <1>4 DEF UnitRead, NoType, Fail, Crash, Resolving, details, readerVars, typeVars, emitVars,
      Phases, TypeFresh, EmitFresh, UnitUnread, Unemitted, Written, UserEnded, UnitKnown
<1>5. CASE NoSym \/ AddSym
  BY <1>5 DEF NoSym, AddSym, Resolving, readerVars, emitVars,
      Phases, TypeFresh, EmitFresh, UnitUnread, Unemitted, Written, UserEnded, UnitKnown
<1>6. CASE EmitterStep
  <2>1. Same
    BY <1>6 DEF EmitterStep, details, readerVars, typeVars, emitVars
  <2>2. CASE EmitSym
    <3>1. output'.state = "complete" => output.state = "complete"
      BY <2>2, EmitSymFile
    <3> QED
      BY <2>1, <2>2, <3>1 DEF EmitSym,
       Phases, TypeFresh, EmitFresh, UnitUnread, Unemitted, Written, UserEnded, UnitKnown
  <2>3. CASE EmitFails
    <3>1. output'.state = output.state
      BY <2>3, EmitFailsFile
    <3> QED
      BY <2>1, <2>3, <3>1 DEF EmitFails, Crash,
       Phases, TypeFresh, EmitFresh, UnitUnread, Unemitted, Written, UserEnded, UnitKnown
  <2>4. CASE emitPc = "done" /\ EndEmit
    BY <2>1, <2>4 DEF EndEmit,
       Phases, TypeFresh, EmitFresh, UnitUnread, Unemitted, Written, UserEnded, UnitKnown
  <2> QED
    BY <1>6, <2>2, <2>3, <2>4 DEF EmitterStep
<1>7. CASE (UserStep \/ Returned) /\ UNCHANGED details
  <2>1. Same
    BY <1>7 DEF details, readerVars, typeVars, emitVars
  <2> QED
    BY <1>7, <2>1 DEF UserStep, MainWrites, ThreadWrites, MainReturns, ConstructorsReturn,
         UserExits, UserAborts, UserEnds, Write,
         Crash, Returned, vars, Phases, TypeFresh, EmitFresh, UnitUnread, Unemitted, Written, UserEnded,
         UnitKnown
<1> QED
  BY <1>1, <1>2, <1>3, <1>4, <1>5, <1>6, <1>7 DEF PipelineNext, CedoSteps

\* While a type is looked for, the type reader is as its own proofs say.
FindInv == Resolving /\ Reader!WellFormed(unit, ObjAddrSize) => TypeFresh \/ TP!AnswerInv

\* A type of the variable with this name.
SymRight(n, t) ==
  Meant(unit, n)!VariableType # 0 /\ t \in Meant(unit, n)!Meaning[Meant(unit, n)!VariableType]

\* The types found are those of the symbols.
TypesInv == UnitKnown /\ InputsRight => \A k \in 1..Len(resolvedSyms) :
  resolvedSyms[k] \in ToSet(outputSyms) /\ SymRight(resolvedSyms[k], symTypes[k])

\* While symbols are emitted, the emitter is as its own proofs say.
EmissionInv == (pc = "emit" \/ Written) /\ InputsRight => EmitFresh \/ EP!EmitInv

\* What holds whatever the types.
RunInv ==
  /\ ~world.threads /\ TypeOK /\ TP!IsSeq(symTypes) /\ Len(symTypes) = Len(resolvedSyms)
  /\ RP!ReadInv /\ Phases /\ FindInv

PipeInv == RunInv /\ TypesInv /\ EmissionInv

\* The unit, the world and the symbols asked for are chosen once.
LEMMA InputsFixed == [PipelineNext]_allVars => UNCHANGED <<unit, world, outputSyms>>
<1> USE DEF inputs, program
<1>1. Reader!Next => UNCHANGED unit
  BY DEF Reader!Next, Reader!MissingSections, Reader!ReadAbbrev, Reader!UnexpectedAbbrev, Reader!EndOfAbbrevs,
         Reader!ReadHeader, Reader!EndOfInfo, Reader!UnknownAbbrev, Reader!ReadDIE, Reader!Returned, Reader!vars
<1>2. LoadUserCode \/ FindMain \/ OpenFile \/ CreateReader \/ CallMain \/ CheckExit \/ OpenOutput => UNCHANGED inputs
  BY DEF LoadUserCode, FindMain, OpenFile, CreateReader, CallMain, CheckExit, OpenOutput
<1>3. EmitSym \/ EmitFails \/ EndEmit \/ UserStep \/ Returned => UNCHANGED inputs
  BY DEF EmitSym, EmitFails, EndEmit, UserStep, MainWrites, ThreadWrites, MainReturns, ConstructorsReturn,
         UserExits, UserAborts, UserEnds,
         Returned, vars
<1> QED
  BY <1>1, <1>2, <1>3 DEF PipelineNext, CedoSteps, DriverStep, ReadUnit, UnitRead, FindType, NoSym, AddSym,
       NoType, EmitStep, EmitterStep, allVars, vars, details, readerVars

\* The steps between two of which symbols are resolved.
LEMMA Resolutions ==
  ASSUME [PipelineNext]_allVars, pc' = "resolve"
  PROVE  \/ UNCHANGED allVars \/ FindType \/ NoSym \/ AddSym
         \/ UnitRead /\ readerPc = "done"
<1>1. LoadUserCode \/ FindMain \/ OpenFile \/ CreateReader \/ CallMain \/ CheckExit \/ OpenOutput => FALSE
  BY DEF LoadUserCode, FindMain, OpenFile, CreateReader, CallMain, CheckExit, OpenOutput, Fail
<1>2. EmitSym \/ EmitFails \/ EndEmit \/ UserStep => FALSE
  BY DEF EmitSym, EmitFails, EndEmit, UserStep, MainWrites, ThreadWrites, MainReturns, ConstructorsReturn,
         UserExits, UserAborts, UserEnds,
         Crash, inputs
<1>3. ReadUnit \/ NoType \/ EmitStep => FALSE
  BY DEF ReadUnit, NoType, EmitStep, Crash, vars
<1>4. Returned => FALSE
  BY DEF Returned, Alive, vars
<1>5. UnitRead => readerPc = "done"
  BY DEF UnitRead, Fail, Crash
<1> QED
  BY <1>1, <1>2, <1>3, <1>4, <1>5 DEF PipelineNext, CedoSteps, DriverStep, EmitterStep

\* A type is looked for in the DIEs that were read, from the start for each symbol.
LEMMA FindStep ==
  ASSUME TP!NullIsNoType, RP!ReadInv, Phases, FindInv, [PipelineNext]_allVars
  PROVE  FindInv'
<1> SUFFICES ASSUME Resolving', Reader!WellFormed(unit, ObjAddrSize)'
             PROVE  TypeFresh' \/ TP!AnswerInv'
  BY DEF FindInv
<1>1. Reader!WellFormed(unit, ObjAddrSize)
  BY InputsFixed, WellFormedStays
<1>2. ASSUME Resolving, [TP!Next]_(TP!vars)
      PROVE  TP!AnswerInv'
  <2>1. readerPc = "done" /\ Reader!WellFormed(unit, ObjAddrSize)
    BY <1>1, <1>2 DEF Phases, UnitKnown, Resolving
  <2>2. TP!InfoOK
    BY <2>1, InfoWritten DEF TP!InfoOK
  <2>3. TypeFresh => TP!AnswerInv
    BY <2>2, TP!AnswerInit, TypeReaderAssumed DEF TypeFresh
  <2>4. TP!AnswerInv
    BY <1>1, <1>2, <2>3 DEF FindInv
  <2> QED
    BY <1>2, <2>4, TP!AnswerStep, TypeReaderAssumed
<1>3. CASE UNCHANGED allVars
  <2>1. Resolving /\ UNCHANGED TP!vars
    BY <1>3 DEF Resolving, allVars, vars, details, readerVars, typeVars, TP!vars, Info, Attributed
  <2> QED
    BY <1>2, <2>1
<1>4. CASE FindType
  <2>1. Resolving /\ TP!Next
    BY <1>4, TypeSteps DEF FindType
  <2> QED
    BY <1>2, <2>1
<1>5. CASE NoSym \/ AddSym
  BY <1>5 DEF NoSym, AddSym, NextSym, TypeFresh
<1>6. CASE UnitRead
  BY <1>6 DEF UnitRead, Phases, UnitUnread, TypeFresh, details, typeVars
<1> QED
  BY <1>3, <1>4, <1>5, <1>6, Resolutions DEF Resolving

\* The type given for a symbol is one of its variable's.
LEMMA TypeFound ==
  ASSUME TypeOK, RP!ReadInv, Phases, FindInv, InputsRight, AddSym
  PROVE  outputSyms[next] \in ToSet(outputSyms) /\ SymRight(outputSyms[next], value)
<1> DEFINE n == outputSyms[next]
<1>1. Resolving /\ typePc = "done" /\ value # Null
  BY DEF AddSym
<1>2. readerPc = "done" /\ Reader!WellFormed(unit, ObjAddrSize)
  BY <1>1 DEF Phases, UnitKnown, Resolving, InputsRight
<1>3. Info(n) = WrittenInfo(unit, n)
  BY <1>2, InfoWritten
<1>4. TP!AnswerInv
  BY <1>1, <1>2 DEF FindInv, TypeFresh
<1>5. n \in ToSet(outputSyms)
  BY <1>1, InputTypes DEF Resolving, TypeOK, ToSet
<1>6. Known(unit, n)
  BY <1>5 DEF InputsRight
<1>7. TP!VariableType = 0 \/ TP!MembersKnown(TP!VariableType)
  BY <1>3, <1>6, MeantVar, MeantKnown DEF Known
<1>8. TP!VariableType # 0 /\ value \in TP!Meaning[TP!VariableType]
  BY <1>1, <1>4, <1>7, TP!AnswerRight, TypeReaderAssumed
<1> QED
  BY <1>3, <1>5, <1>8, MeantVar, MeantMeaning DEF SymRight

\* A type that is right stays right.
LEMMA SymStaysRight == ASSUME unit' = unit, NEW CONSTANT n, NEW CONSTANT t, SymRight(n, t) PROVE SymRight(n, t)'
  BY MeantStays DEF SymRight

\* Resolved symbols are known of no unit but one that has been, or is being, read.
LEMMA ComesToKnow ==
  ASSUME TypeOK, [PipelineNext]_allVars, UnitKnown'
  PROVE  UnitKnown \/ UnitUnread
<1> SUFFICES ASSUME pc \in {"exited", "crashed"} PROVE UnitKnown
  BY DEF TypeOK, UnitKnown, UserEnded, UnitUnread
<1>1. UNCHANGED vars
  BY DEF PipelineNext, CedoSteps, DriverStep, LoadUserCode, FindMain, OpenFile, CreateReader, CallMain,
         CheckExit, OpenOutput, ReadUnit, UnitRead, FindType, NoSym, AddSym, NoType, EmitStep, EmitterStep,
         EmitSym, EmitFails, EndEmit, Resolving, UserStep, MainWrites, ThreadWrites, MainReturns,
         ConstructorsReturn, UserExits, UserAborts, UserEnds, Returned, allVars
<1> QED
  BY <1>1 DEF vars, UnitKnown, UserEnded, Written

\* Symbols and their types are added together.
LEMMA SymsGrow == [PipelineNext]_allVars => AddSym \/ UNCHANGED <<resolvedSyms, symTypes>>
<1>1. LoadUserCode \/ FindMain \/ OpenFile \/ CreateReader \/ CallMain \/ CheckExit \/ OpenOutput
        => UNCHANGED resolvedSyms
  BY DEF LoadUserCode, FindMain, OpenFile, CreateReader, CallMain, CheckExit, OpenOutput
<1>2. EmitSym \/ EmitFails \/ EndEmit \/ UserStep \/ Returned => UNCHANGED resolvedSyms
  BY DEF EmitSym, EmitFails, EndEmit, UserStep, MainWrites, ThreadWrites, MainReturns, ConstructorsReturn,
         UserExits, UserAborts, UserEnds,
         Returned, vars
<1> QED
  BY <1>1, <1>2 DEF PipelineNext, CedoSteps, DriverStep, ReadUnit, UnitRead, FindType, NoSym, NoType,
       EmitStep, EmitterStep, allVars, vars, details

\* Every symbol has a type of its variable, in the order of the symbols.
LEMMA TypesStep ==
  ASSUME TypeOK, TP!IsSeq(symTypes), Len(symTypes) = Len(resolvedSyms), RP!ReadInv, Phases, FindInv, TypesInv,
         [PipelineNext]_allVars
  PROVE  TypesInv'
<1> SUFFICES ASSUME UnitKnown', InputsRight', NEW k \in 1..Len(resolvedSyms')
             PROVE  resolvedSyms'[k] \in ToSet(outputSyms') /\ SymRight(resolvedSyms[k], symTypes[k])'
  BY DEF TypesInv
<1>1. unit' = unit /\ outputSyms' = outputSyms
  BY InputsFixed
<1>2. InputsRight
  BY <1>1, InputsStay
<1>3. ToSet(outputSyms') = ToSet(outputSyms)
  BY <1>1
<1>4. \A n, t : SymRight(n, t) => SymRight(n, t)'
  BY <1>1, SymStaysRight
<1>5. CASE UnitKnown /\ UNCHANGED <<resolvedSyms, symTypes>>
  <2>1. resolvedSyms[k] \in ToSet(outputSyms) /\ SymRight(resolvedSyms[k], symTypes[k])
    BY <1>2, <1>5 DEF TypesInv
  <2> QED
    BY <1>3, <1>4, <1>5, <2>1
<1>6. CASE AddSym
  <2>1. UnitKnown
    BY <1>6 DEF AddSym, Resolving, UnitKnown
  <2>2. TP!Longer(symTypes', symTypes, value)
    BY <1>6, TP!AppendFacts, TypeReaderAssumed DEF AddSym
  <2>3. /\ resolvedSyms' = Append(resolvedSyms, outputSyms[next]) /\ resolvedSyms \in Seq(Names)
        /\ outputSyms[next] \in Names
    BY <1>6, TypeFound, <1>2, InputTypes DEF AddSym, TypeOK, Resolving
  <2>4. /\ Len(resolvedSyms') = Len(resolvedSyms) + 1
        /\ \A j \in 1..Len(resolvedSyms) : resolvedSyms'[j] = resolvedSyms[j]
        /\ resolvedSyms'[Len(resolvedSyms) + 1] = outputSyms[next]
    BY <2>3, AppendProperties
  <2>5. CASE k \in 1..Len(resolvedSyms)
    <3>1. resolvedSyms'[k] = resolvedSyms[k] /\ symTypes'[k] = symTypes[k]
      BY <2>2, <2>4, <2>5 DEF TP!Longer
    <3>2. resolvedSyms[k] \in ToSet(outputSyms) /\ SymRight(resolvedSyms[k], symTypes[k])
      BY <1>2, <2>1, <2>5 DEF TypesInv
    <3> QED
      BY <1>3, <1>4, <3>1, <3>2
  <2>6. CASE k = Len(resolvedSyms) + 1
    <3>1. resolvedSyms'[k] = outputSyms[next] /\ symTypes'[k] = value
      BY <2>2, <2>4, <2>6 DEF TP!Longer
    <3>2. outputSyms[next] \in ToSet(outputSyms) /\ SymRight(outputSyms[next], value)
      BY <1>2, <1>6, TypeFound
    <3> QED
      BY <1>3, <1>4, <3>1, <3>2
  <2> QED
    BY <2>2, <2>4, <2>5, <2>6 DEF TP!Longer
<1>7. CASE UnitUnread /\ UNCHANGED resolvedSyms
  BY <1>7 DEF Phases
<1> QED
  BY <1>5, <1>6, <1>7, ComesToKnow, SymsGrow

------------------------------------------------------------------------------
(* The emitter in the pipeline *)

\* The symbols given to the emitter are symbols, of types it knows.
LEMMA SymsTyped ==
  ASSUME TypeOK, Len(symTypes) = Len(resolvedSyms), TypesInv, UnitKnown, InputsRight
  PROVE  Syms \in Seq(Emitter!Syms) /\ Pointers(memory) \in [Places -> Nat]
<1>1. ASSUME NEW k \in 1..Len(resolvedSyms)
      PROVE  [name |-> resolvedSyms[k], type |-> symTypes[k], addr |-> AddressOf[resolvedSyms[k]]] \in Emitter!Syms
  <2>1. resolvedSyms[k] \in ToSet(outputSyms) /\ SymRight(resolvedSyms[k], symTypes[k])
    BY DEF TypesInv
  <2>2. Known(unit, resolvedSyms[k])
    BY <2>1 DEF InputsRight
  <2>3. symTypes[k] \in ObjectTypes
    BY <2>1, <2>2 DEF SymRight, Known
  <2>4. resolvedSyms[k] \in Names /\ AddressOf[resolvedSyms[k]] \in Nat \ {0}
    BY PipelineAssumption DEF TypeOK
  <2> QED
    BY <2>3, <2>4 DEF Emitter!Syms
<1>2. Syms \in Seq(Emitter!Syms)
  <2>1. Len(resolvedSyms) \in Nat
    BY DEF TypeOK
  <2> QED
    BY <1>1, <2>1 DEF Syms
<1>3. ASSUME NEW p \in Places
      PROVE  memory[CHOOSE n \in Names : p \in {AddressOf[n], AddressOf[n] + 8}] \in Nat
  <2>1. \E n \in Names : p \in {AddressOf[n], AddressOf[n] + 8}
    BY PipelineAssumption DEF Places
  <2>2. (CHOOSE n \in Names : p \in {AddressOf[n], AddressOf[n] + 8}) \in Names
    BY <2>1
  <2> QED
    BY <2>2, PipelineAssumption DEF TypeOK
<1>4. Pointers(memory) \in [Places -> Nat]
  <2>1. Pointers(memory) = [p \in Places |-> memory[CHOOSE n \in Names : p \in {AddressOf[n], AddressOf[n] + 8}]]
    BY DEF Pointers, Places
  <2> QED
    BY <1>3, <2>1
<1> QED
  BY <1>2, <1>4

\* The steps during and after which symbols are emitted: only the emitter's change
\* what it sees.
LEMMA Emissions ==
  ASSUME ~world.threads, TypeOK, Phases, [PipelineNext]_allVars, pc' = "emit" \/ Written'
  PROVE  \/ EmitStep
         \/ OpenOutput /\ UNCHANGED details
         \/ (pc = "emit" \/ Written) /\ UNCHANGED <<resolvedSyms, memory, details>>
<1> USE DEF inputs, program, Written, Phases
<1>1. CASE UNCHANGED allVars
  BY <1>1 DEF allVars, vars
<1>2. CASE DriverStep
  BY <1>2 DEF DriverStep, LoadUserCode, FindMain, OpenFile, CreateReader, CallMain, CheckExit, Fail
<1>3. CASE ReadUnit \/ UnitRead \/ FindType \/ NoSym \/ AddSym \/ NoType
  BY <1>3 DEF ReadUnit, UnitRead, FindType, NoSym, AddSym, NoType, Fail, Crash, Resolving, vars
<1>4. CASE EmitStep
  BY <1>4
<1>5. CASE EmitterStep
  BY <1>5 DEF EmitterStep, EmitSym, EmitFails, EndEmit
<1>6. CASE (UserStep \/ Returned) /\ UNCHANGED details
  BY <1>6 DEF UserStep, MainWrites, ThreadWrites, MainReturns, ConstructorsReturn,
         UserExits, UserAborts, UserEnds, Crash, Returned, vars
<1> QED
  BY <1>1, <1>2, <1>3, <1>4, <1>5, <1>6 DEF PipelineNext, CedoSteps

\* The emitter starts on the symbols resolved and on the memory there is when main has
\* returned, and neither changes while it runs.
LEMMA EmissionStep ==
  ASSUME EP!Laid, ~world.threads, TypeOK, Len(symTypes) = Len(resolvedSyms), Phases, TypesInv, EmissionInv,
         [PipelineNext]_allVars
  PROVE  EmissionInv'
<1> SUFFICES ASSUME pc' = "emit" \/ Written', InputsRight'
             PROVE  EmitFresh' \/ EP!EmitInv'
  BY DEF EmissionInv
<1>1. InputsRight
  BY InputsFixed, InputsStay
<1>2. ASSUME pc = "emit" \/ Written, [EP!Next]_(EP!vars)
      PROVE  EP!EmitInv'
  <2>1. UnitKnown
    BY <1>2 DEF UnitKnown, UserEnded
  <2>2. EmitFresh => EP!EmitInv
    <3> SUFFICES ASSUME EmitFresh PROVE EP!EmitInv
      OBVIOUS
    <3>1. EP!Init
      BY <1>1, <2>1, SymsTyped DEF EP!Init, EmitFresh
    <3> QED
      BY <3>1, EP!EmitInvInit, EmitterAssumed
  <2>3. EP!EmitInv
    BY <1>1, <1>2, <2>2 DEF EmissionInv
  <2> QED
    BY <1>2, <2>3, EP!EmitInvStep, EmitterAssumed
<1>3. CASE (pc = "emit" \/ Written) /\ UNCHANGED <<resolvedSyms, memory, details>>
  <2>1. UNCHANGED EP!vars
    BY <1>3 DEF EP!vars, Syms, Pointers, details, emitVars
  <2> QED
    BY <1>2, <1>3, <2>1
<1>4. CASE EmitStep
  <2>1. EP!Next
    BY <1>4, EmitSteps DEF EmitStep
  <2> QED
    BY <1>2, <1>4, <2>1 DEF EmitStep
<1>5. CASE OpenOutput /\ UNCHANGED details
  BY <1>5 DEF OpenOutput, Phases, Unemitted, EmitFresh, details, emitVars
<1> QED
  BY <1>3, <1>4, <1>5, Emissions

------------------------------------------------------------------------------
(* From the debug information to the output *)

\* Nothing is read, found or emitted yet.
LEMMA RunInit == PipelineInit => RunInv
<1> SUFFICES ASSUME PipelineInit PROVE RunInv
  OBVIOUS
<1>1. ~world.threads /\ TypeOK /\ Phases
  BY TypeInit, PhasesInit DEF PipelineInit
<1>2. TP!IsSeq(symTypes) /\ Len(symTypes) = Len(resolvedSyms)
  BY DEF PipelineInit, Init, TP!IsSeq
<1>3. RP!ReadInv
  <2>1. RP!Init
    BY DEF PipelineInit, RP!Init, Reader!FakeAbbrev, RP!FakeAbbrev
  <2> QED
    BY <2>1, RP!ReadInit, ReaderAssumed
<1>4. FindInv
  BY DEF PipelineInit, Init, FindInv, Resolving
<1> QED
  BY <1>1, <1>2, <1>3, <1>4 DEF RunInv

LEMMA PipeInit == PipelineInit => PipeInv
<1>1. PipelineInit => TypesInv /\ EmissionInv
  BY DEF PipelineInit, Init, TypesInv, EmissionInv, UnitKnown, UserEnded, Written, OldOutput
<1> QED
  BY <1>1, RunInit DEF PipeInv

\* Every step keeps the invariants of the driver and of its parts.
LEMMA RunStep == ASSUME TP!NullIsNoType PROVE RunInv /\ [PipelineNext]_allVars => RunInv'
<1> SUFFICES ASSUME RunInv, [PipelineNext]_allVars PROVE RunInv'
  OBVIOUS
<1> USE DEF RunInv
<1>1. ~world.threads' /\ TypeOK' /\ TP!IsSeq(symTypes)' /\ Len(symTypes)' = Len(resolvedSyms)'
  BY PipeTypeStep, InputsFixed
<1>2. RP!ReadInv'
  BY ReaderRuns, RP!ReadStep, ReaderAssumed
<1>3. Phases'
  BY PhasesStep
<1>4. FindInv'
  BY FindStep
<1> QED
  BY <1>1, <1>2, <1>3, <1>4

LEMMA PipeStep ==
  ASSUME EP!Laid, TP!NullIsNoType
  PROVE  PipeInv /\ [PipelineNext]_allVars => PipeInv'
<1> SUFFICES ASSUME PipeInv, [PipelineNext]_allVars PROVE PipeInv'
  OBVIOUS
<1>1. RunInv'
  BY RunStep DEF PipeInv
<1> USE DEF PipeInv, RunInv
<1>2. TypesInv'
  BY TypesStep
<1>3. EmissionInv'
  BY EmissionStep
<1> QED
  BY <1>1, <1>2, <1>3

\* A complete output has been emitted by an emitter that has done, from types of the
\* variables asked for.
LEMMA PipeRight == ASSUME EP!Laid, PipeInv PROVE OutputRight
<1> SUFFICES ASSUME Written, InputsRight
             PROVE  /\ Len(asm) = Len(resolvedSyms)
                    /\ \A k \in 1..Len(asm) :
                         LET n == resolvedSyms[k] IN
                         FirstOfItsName(n) =>
                           \E type \in Meant(unit, n)!Meaning[Meant(unit, n)!TypeDieOf(GlobalDIE(n))] :
                             ImageOfObject(n, type, asm[k])
  BY DEF OutputRight, Written
<1>1. emitPc = "done" /\ atExit = memory /\ UnitKnown
  BY DEF PipeInv, RunInv, Phases, UserEnded, UnitKnown
<1>2. EP!EmitInv
  BY <1>1 DEF PipeInv, RunInv, EmissionInv, EmitFresh
<1>3. Len(asm) = Len(Syms) /\ \A k \in 1..Len(Syms) : EP!ObjectEmitted(k)
  BY <1>1, <1>2, EP!AllEmitted, EmitterAssumed
<1>4. Len(resolvedSyms) \in Nat /\ Len(Syms) = Len(resolvedSyms)
  BY DEF PipeInv, RunInv, TypeOK, Syms
<1>5. SUFFICES ASSUME NEW k \in 1..Len(resolvedSyms), FirstOfItsName(resolvedSyms[k])
               PROVE  LET n == resolvedSyms[k] IN
                      \E type \in Meant(unit, n)!Meaning[Meant(unit, n)!TypeDieOf(GlobalDIE(n))] :
                        ImageOfObject(n, type, asm[k])
  BY <1>3, <1>4
<1> DEFINE n == resolvedSyms[k]
           type == symTypes[k]
<1>6. n \in Names /\ AddressOf[n] \in Nat
  BY PipelineAssumption DEF PipeInv, RunInv, TypeOK
<1>7. n \in ToSet(outputSyms) /\ SymRight(n, type)
  BY <1>1 DEF PipeInv, RunInv, TypesInv
<1>8. type \in Meant(unit, n)!Meaning[Meant(unit, n)!TypeDieOf(GlobalDIE(n))]
  BY <1>5, <1>7 DEF SymRight, Meant!VariableType, FirstOfItsName
<1>9. type \in ObjectTypes
  <2>1. Known(unit, n)
    BY <1>7 DEF InputsRight
  <2> QED
    BY <1>7, <2>1 DEF SymRight, Known
<1>10. ImageOfObject(n, type, asm[k])
  <2>1. Syms[k] = [name |-> n, type |-> type, addr |-> AddressOf[n]]
    BY DEF Syms
  <2>2. EP!ObjectEmitted(k)
    BY <1>3, <1>4
  <2>3. asm[k].name = n /\ asm[k].size = type.size /\ Len(asm[k].image) = type.size
    BY <2>1, <2>2 DEF EP!ObjectEmitted
  <2>4. asm[k].size = IF type.kind = "pointer" THEN ObjAddrSize ELSE type.size
    BY <1>9, <2>3, EmitterAssumed DEF EP!Laid, EP!TypesAssumption
  <2>5. ASSUME NEW b \in 1..Len(asm[k].image)
        PROVE  LET cell == asm[k].image[b]
                   ptr  == PointerAt(atExit, cell.of)
               IN  /\ cell.of = AddressOf[n] + b - 1
                   /\ Emitter!UnionsCovered[type] /\ b - 1 \in Emitter!Live[type] => cell.what # "zero"
                   /\ cell.what = "pointer" =>
                        IF ptr = 0 THEN cell.name = NoName ELSE cell.name \in Names /\ AddressOf[cell.name] = ptr
    <3> DEFINE cell == asm[k].image[b]
    <3>1. cell.of = AddressOf[n] + b - 1
      BY <2>1, <2>2 DEF EP!ObjectEmitted
    <3>2. Emitter!UnionsCovered[type] /\ b - 1 \in Emitter!Live[type] => cell.what # "zero"
      <4>1. Emitter!Live = EP!Live
        BY DEF Emitter!Live, EP!Live, Emitter!Children, EP!Children
      <4>2. Emitter!UnionsCovered = EP!UnionsCovered
        BY <4>1 DEF Emitter!UnionsCovered, EP!UnionsCovered
      <4> QED
        BY <2>1, <2>2, <4>1, <4>2 DEF EP!ObjectEmitted
    <3>3. cell.what = "pointer" =>
            LET ptr == PointerAt(atExit, cell.of) IN
            IF ptr = 0 THEN cell.name = NoName ELSE cell.name \in Names /\ AddressOf[cell.name] = ptr
      <4>1. PointerAt(atExit, cell.of) = EP!getPointerValue(cell.of)
        BY <1>1 DEF PointerAt, EP!getPointerValue
      <4>2. EP!CellRight(cell)
        BY <2>2 DEF EP!ObjectEmitted
      <4>3. \A j \in 1..Len(Syms) : /\ Syms[j].name \in Names
                                    /\ Syms[j].addr = AddressOf[Syms[j].name]
        BY <1>4 DEF Syms, PipeInv, RunInv, TypeOK
      <4> QED
        BY <4>1, <4>2, <4>3 DEF EP!CellRight
    <3> QED
      BY <3>1, <3>2, <3>3
  <2> QED
    BY <2>3, <2>4, <2>5 DEF ImageOfObject
<1> QED
  BY <1>8, <1>10

\* From the bytes of the debug information to those of the output file, for every unit,
\* every list of symbols and every program: the objects asked for are there as they were
\* when main returned, each of the size and at the address of its variable, with no value
\* replaced by padding and every pointer the name of what it points to.  The addresses are
\* of 8 bytes and structures are laid out as in C.
THEOREM OutputAlwaysRight ==
  ASSUME EP!Laid, TP!NullIsNoType
  PROVE  PipelineSpec => []OutputRight
<1>1. PipeInv => OutputRight
  BY PipeRight
<1>2. PipeInv /\ [PipelineNext]_allVars => PipeInv'
  BY PipeStep
<1> QED
  BY <1>1, <1>2, PipeInit, PTL DEF PipelineSpec

------------------------------------------------------------------------------
(* Cedo as the driver of its parts *)

\* What is known of the unit and of its world.
Told == Foreseen(unit) /\ Describes(world, unit)

LEMMA ReaderHeader == ReaderOf(unit)!HeaderOK <=> RP!HeaderOK
  BY DEF ReaderOf!HeaderOK, ReaderOf!AddrSizeRead, ReaderOf!HeaderSize, RP!HeaderOK, RP!AddrSizeRead, RP!HeaderSize

LEMMA ReaderPlain == PlainUnit(unit) <=> RP!Plain
<1>1. Reader!WellFormed(unit, ObjAddrSize) <=> RP!WellFormed(unit, ObjAddrSize)
  BY SameUnits
<1> QED
  BY <1>1 DEF PlainUnit, Reader!NoAdjacentMarks, RP!Plain, RP!NoAdjacentMarks

\* What a name comes to in the DIEs that were read, it comes to in those written.
LEMMA MeantRefs ==
  ASSUME NEW n, n = outputSyms[next], Info(n) = WrittenInfo(unit, n), NEW t
  PROVE  /\ TP!Recursive(t) <=> Meant(unit, n)!Recursive(t)
         /\ TP!Fatal(t) <=> Meant(unit, n)!Fatal(t)
         /\ TP!Refs(t) = Meant(unit, n)!Refs(t)
         /\ TP!Asked(t) = Meant(unit, n)!Asked(t)
<1>1. TP!Recursive(t) <=> Meant(unit, n)!Recursive(t)
  BY DEF TP!Recursive, TP!Within, TP!Refs, TP!ChildrenOf, TP!TypeDieOf, TP!DIEAt, TP!Indices,
         Meant!Recursive, Meant!Within, Meant!Refs, Meant!ChildrenOf, Meant!TypeDieOf, Meant!DIEAt, Meant!Indices
<1>2. TP!Fatal(t) <=> Meant(unit, n)!Fatal(t)
  BY DEF TP!Fatal, TP!TypeDieOf, TP!DIEAt, TP!Indices, TP!Compounds,
         Meant!Fatal, Meant!TypeDieOf, Meant!DIEAt, Meant!Indices, Meant!Compounds
<1>3. TP!Refs(t) = Meant(unit, n)!Refs(t)
  BY DEF TP!Refs, TP!ChildrenOf, TP!TypeDieOf, TP!DIEAt, TP!Indices,
         Meant!Refs, Meant!ChildrenOf, Meant!TypeDieOf, Meant!DIEAt, Meant!Indices
<1>4. TP!Asked(t) = Meant(unit, n)!Asked(t)
  BY DEF TP!Asked, TP!MemberDIE, TP!ChildrenOf, TP!TypeDieOf, TP!DIEAt, TP!Indices, TP!Compounds,
         Meant!Asked, Meant!MemberDIE, Meant!ChildrenOf, Meant!TypeDieOf, Meant!DIEAt, Meant!Indices, Meant!Compounds
<1> QED
  BY <1>1, <1>2, <1>3, <1>4

LEMMA MeantDoomed ==
  ASSUME NEW n, n = outputSyms[next], Info(n) = WrittenInfo(unit, n), NEW t
  PROVE  TP!Doomed(t) <=> Meant(unit, n)!Doomed(t)
<1>1. TP!Reachable(t) = Meant(unit, n)!Reachable(t)
  BY MeantReach
<1>2. \A i : TP!Recursive(i) <=> Meant(unit, n)!Recursive(i)
  BY MeantRefs
<1>3. \A i : TP!Fatal(i) <=> Meant(unit, n)!Fatal(i)
  BY MeantRefs
<1> QED
  BY <1>1, <1>2, <1>3 DEF TP!Doomed, Meant!Doomed

LEMMA MeantOrderly ==
  ASSUME NEW n, n = outputSyms[next], Info(n) = WrittenInfo(unit, n), NEW t
  PROVE  TP!Orderly(t) <=> Meant(unit, n)!Orderly(t)
<1>1. TP!Reachable(t) = Meant(unit, n)!Reachable(t)
  BY MeantReach
<1>2. \A i : TP!Doomed(i) <=> Meant(unit, n)!Doomed(i)
  BY MeantDoomed
<1>3. \A i : TP!Refs(i) = Meant(unit, n)!Refs(i) /\ TP!Asked(i) = Meant(unit, n)!Asked(i)
  BY MeantRefs
<1>4. \A i : TP!TypeDieOf(i) = Meant(unit, n)!TypeDieOf(i) /\ TP!ChildrenOf(i) = Meant(unit, n)!ChildrenOf(i)
  BY DEF TP!ChildrenOf, TP!TypeDieOf, TP!DIEAt, TP!Indices,
         Meant!ChildrenOf, Meant!TypeDieOf, Meant!DIEAt, Meant!Indices
<1> QED
  BY <1>1, <1>2, <1>3, <1>4 DEF TP!Orderly, Meant!Orderly

\* Neither changes.
LEMMA MeaningStays ==
  ASSUME unit' = unit, NEW CONSTANT n
  PROVE  /\ \A t : Meant(unit, n)!MembersKnown(t)' <=> Meant(unit, n)!MembersKnown(t)
         /\ \A t : Meant(unit, n)!Doomed(t)' <=> Meant(unit, n)!Doomed(t)
         /\ \A t : Meant(unit, n)!Orderly(t)' <=> Meant(unit, n)!Orderly(t)
<1>1. WrittenInfo(unit, n)' = WrittenInfo(unit, n)
  BY DEF WrittenInfo, Attributed, Reader!DeclOf
<1>2. \A t : Meant(unit, n)!MembersKnown(t)' <=> Meant(unit, n)!MembersKnown(t)
  BY <1>1, MeantStays DEF Meant!MembersKnown,
    Meant!Refs, Meant!ChildrenOf, Meant!TypeDieOf, Meant!DIEAt, Meant!Indices, Meant!Compounds
<1>3. /\ \A t : Meant(unit, n)!Recursive(t)' <=> Meant(unit, n)!Recursive(t)
      /\ \A t : Meant(unit, n)!Fatal(t)' <=> Meant(unit, n)!Fatal(t)
  BY <1>1 DEF Meant!Recursive, Meant!Within, Meant!Refs, Meant!ChildrenOf, Meant!Fatal, Meant!TypeDieOf,
       Meant!DIEAt, Meant!Indices, Meant!Compounds
<1>4. \A t : Meant(unit, n)!Doomed(t)' <=> Meant(unit, n)!Doomed(t)
  BY <1>3, MeantStays DEF Meant!Doomed
<1>5. /\ \A t : Meant(unit, n)!Refs(t)' = Meant(unit, n)!Refs(t)
      /\ \A t : Meant(unit, n)!Asked(t)' = Meant(unit, n)!Asked(t)
      /\ \A t : Meant(unit, n)!TypeDieOf(t)' = Meant(unit, n)!TypeDieOf(t)
      /\ \A t : Meant(unit, n)!ChildrenOf(t)' = Meant(unit, n)!ChildrenOf(t)
  BY <1>1 DEF Meant!Refs, Meant!Asked, Meant!MemberDIE, Meant!ChildrenOf, Meant!TypeDieOf, Meant!DIEAt,
       Meant!Indices, Meant!Compounds
<1>6. \A t : Meant(unit, n)!Orderly(t)' <=> Meant(unit, n)!Orderly(t)
  BY <1>1, <1>4, <1>5, MeantStays DEF Meant!Orderly
<1> QED
  BY <1>2, <1>4, <1>6

LEMMA ToldStays == Told /\ [PipelineNext]_allVars => Told'
<1> SUFFICES ASSUME Told, [PipelineNext]_allVars PROVE Told'
  OBVIOUS
<1>1. unit' = unit /\ world' = world
  BY InputsFixed
<1>2. Reader!WellFormed(unit, ObjAddrSize)' <=> Reader!WellFormed(unit, ObjAddrSize)
  BY <1>1, WellFormedStays
<1>3. ReaderOf(unit)!HeaderOK' <=> ReaderOf(unit)!HeaderOK
  BY <1>1 DEF ReaderOf!HeaderOK, ReaderOf!AddrSizeRead, ReaderOf!HeaderSize
<1>4. PlainUnit(unit)' <=> PlainUnit(unit)
  BY <1>1, <1>2 DEF PlainUnit, Reader!NoAdjacentMarks
<1>5. \A n : /\ Meant(unit, n)!VariableType' = Meant(unit, n)!VariableType
             /\ Meant(unit, n)!Meaning' = Meant(unit, n)!Meaning
  BY <1>1, MeantStays
<1>6. \A n, t : /\ Meant(unit, n)!MembersKnown(t)' <=> Meant(unit, n)!MembersKnown(t)
                /\ Meant(unit, n)!Doomed(t)' <=> Meant(unit, n)!Doomed(t)
                /\ Meant(unit, n)!Orderly(t)' <=> Meant(unit, n)!Orderly(t)
  BY <1>1, MeaningStays
<1>7. Foreseen(unit)'
  BY <1>1, <1>2, <1>3, <1>5, <1>6 DEF Told, Foreseen
<1>8. \A n : Outcome(unit, n)' = Outcome(unit, n)
  BY <1>5, <1>6 DEF Outcome
<1>9. Describes(world, unit)'
  BY <1>1, <1>4, <1>8 DEF Told, Describes
<1> QED
  BY <1>7, <1>9 DEF Told

\* The reader ends as the world has it.
LEMMA ReadAsTold ==
  ASSUME RP!ReadInv, Told
  PROVE  /\ readerPc = "done" => /\ world.named = "ok" /\ Reader!WellFormed(unit, ObjAddrSize)
                                 /\ Len(unit.entries) <= StackLimit
         /\ readerPc \in {"error", "abort"} => world.named = "bad_dwarf"
         /\ readerPc = "segv" => world.named = "no_debug_info"
<1>1. ~unit.hasSections \/ ~RP!HeaderOK \/ RP!WellFormed(unit, ObjAddrSize)
  BY ReaderHeader, SameUnits DEF Told, Foreseen
<1>2. /\ readerPc = "done" => unit.hasSections /\ PlainUnit(unit)
      /\ readerPc \in {"error", "abort"} => unit.hasSections /\ ~PlainUnit(unit)
      /\ readerPc = "segv" => ~unit.hasSections
  BY <1>1, RP!EndsKnown, ReaderPlain, ReaderAssumed
<1>3. readerPc = "done" => RP!HeaderOK
  BY DEF RP!ReadInv, RP!HeaderInv
<1> QED
  BY <1>2, <1>3, ReaderHeader DEF Told, Describes, Foreseen, PlainUnit

\* So does the type reader, for the symbol it is called for.
LEMMA FoundAsTold ==
  ASSUME TP!NullIsNoType, RunInv, Told, Resolving, typePc \in {"done", "abort", "segv", "overflow"}
  PROVE  world.type[outputSyms[next]] = IF typePc # "done" THEN "unreadable"
                                        ELSE IF value = Null THEN "none" ELSE "good"
<1> DEFINE n == outputSyms[next]
<1>1. readerPc = "done" /\ RP!ReadInv
  BY DEF RunInv, Phases, UnitKnown, Resolving
<1>2. world.named = "ok" /\ Reader!WellFormed(unit, ObjAddrSize) /\ Len(unit.entries) <= StackLimit
  BY <1>1, ReadAsTold
<1>3. n \in Names
  BY InputTypes DEF RunInv, TypeOK, Resolving
<1>4. Info(n) = WrittenInfo(unit, n) /\ Len(Info(n)) = Len(unit.entries)
  <2>1. Info(n) = WrittenInfo(unit, n)
    BY <1>1, <1>2, InfoWritten
  <2>2. Len(debugInfo) = Len(unit.entries) /\ Len(debugInfo) \in Nat
    BY <1>1, <1>2, RP!UnitIsRead, ReaderAssumed, SameUnits DEF RP!ReadInv, RP!TypeOK
  <2> QED
    BY <2>1, <2>2 DEF Info
<1>5. TP!AnswerInv
  BY <1>2 DEF RunInv, FindInv, TypeFresh
<1> DEFINE type == Meant(unit, n)!VariableType
<1>6. unit.hasSections /\ ReaderOf(unit)!HeaderOK
  BY <1>1, <1>2, ReaderHeader DEF RP!ReadInv, RP!HeaderInv
<1>7. type # 0 => Meant(unit, n)!MembersKnown(type) /\ Meant(unit, n)!Orderly(type)
  BY <1>3, <1>6 DEF Told, Foreseen
<1>8. /\ TP!VariableType = type /\ TP!Meaning = Meant(unit, n)!Meaning
      /\ TP!MembersKnown(type) <=> Meant(unit, n)!MembersKnown(type)
      /\ TP!Orderly(type) <=> Meant(unit, n)!Orderly(type)
      /\ TP!Doomed(type) <=> Meant(unit, n)!Doomed(type)
  BY <1>4, MeantVar, MeantMeaning, MeantKnown, MeantOrderly, MeantDoomed
<1>9. IF type = 0 THEN typePc = "done" /\ value = Null
      ELSE /\ typePc # "done" <=> Meant(unit, n)!Doomed(type)
           /\ typePc = "done" => (value = Null <=> Meant(unit, n)!Meaning[type] = {})
  <2>1. typePc \in TP!Ended
    BY DEF TP!Ended
  <2> HIDE DEF type, n
  <2> QED
    BY <1>2, <1>4, <1>5, <1>7, <1>8, <2>1, TP!AnswerEnds, TypeReaderAssumed DEF n
<1>10. world.type[n] = Outcome(unit, n)
  BY <1>2, <1>3 DEF Told, Describes
<1> QED
  BY <1>9, <1>10 DEF Outcome

\* A step of the pipeline is one of cedo, or no one sees it.
LEMMA StepIsCedos ==
  ASSUME TP!NullIsNoType, RunInv, Told, [PipelineNext]_allVars
  PROVE  [Next]_vars
<1>1. CASE DriverStep
  BY <1>1 DEF DriverStep, Next, CedoStep
<1>2. CASE ReadUnit \/ FindType \/ EmitStep
  BY <1>2 DEF ReadUnit, FindType, EmitStep
<1>3. CASE UnitRead
  <2>1. /\ readerPc = "done" => world.named = "ok"
        /\ readerPc \in {"error", "abort"} => world.named = "bad_dwarf"
        /\ readerPc = "segv" => world.named = "no_debug_info"
    BY ReadAsTold DEF RunInv
  <2>2. ReadDWARF
    BY <1>3, <2>1 DEF UnitRead, ReadDWARF
  <2> QED
    BY <2>2 DEF Next, CedoStep
<1>4. CASE NoSym
  <2>1. world.type[outputSyms[next]] = IF value = Null THEN "none" ELSE "good"
    BY <1>4, FoundAsTold DEF NoSym
  <2>2. WarnSym
    BY <1>4, <2>1 DEF NoSym, NextSym, WarnSym
  <2> QED
    BY <2>2 DEF Next, CedoStep
<1>5. CASE AddSym
  <2>1. world.type[outputSyms[next]] = "good"
    BY <1>5, FoundAsTold DEF AddSym
  <2>2. ResolveSym
    BY <1>5, <2>1 DEF AddSym, NextSym, ResolveSym
  <2> QED
    BY <2>2 DEF Next, CedoStep
<1>6. CASE NoType
  <2>1. world.type[outputSyms[next]] = "unreadable"
    BY <1>6, FoundAsTold DEF NoType
  <2>2. UnreadableType
    BY <1>6, <2>1 DEF NoType, UnreadableType
  <2> QED
    BY <2>2 DEF Next, CedoStep
<1>7. CASE EmitterStep
  BY <1>7 DEF EmitterStep, Next, CedoStep
<1>8. CASE (UserStep \/ Returned) /\ UNCHANGED details
  BY <1>8 DEF Next
<1>9. CASE UNCHANGED allVars
  BY <1>9 DEF allVars
<1> QED
  BY <1>1, <1>2, <1>3, <1>4, <1>5, <1>6, <1>7, <1>8, <1>9 DEF PipelineNext, CedoSteps

\* The driver with its parts run step by step implements the driver alone, for every unit
\* that is refused at once or that a compiler may write, every program without threads
\* and every list of symbols: what Cedo chooses between is what the DWARF reader, the
\* type reader and the emitter come to.
THEOREM PartsImplementDriver ==
  ASSUME TP!NullIsNoType PROVE Foreseen(unit) /\ PipelineSpec => Spec
<1>1. PipelineInit /\ Foreseen(unit) => Init /\ RunInv /\ Told
  BY RunInit DEF PipelineInit, Told
<1>2. RunInv /\ [PipelineNext]_allVars => RunInv'
  BY RunStep
<1>3. Told /\ [PipelineNext]_allVars => Told'
  BY ToldStays
<1>4. RunInv /\ Told /\ [PipelineNext]_allVars => [Next]_vars
  BY StepIsCedos
<1> QED
  BY <1>1, <1>2, <1>3, <1>4, PTL DEF PipelineSpec, Spec
==============================================================================
