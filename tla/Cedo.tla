-------------------------------- MODULE Cedo --------------------------------
(***************************************************************************)
(* The driver: main and runUserCodeAndGetSyms of src/cedo.cpp with the     *)
(* Runtime of lib/Runtime, running a user program inside the process of    *)
(* cedo.  The object file reader, the DWARF reader and the emitter are     *)
(* steps here, with every outcome they may have; DWARFReader, DWARFType    *)
(* and EmitAsm have their details.                                         *)
(*                                                                         *)
(* `world` is what does not change while cedo runs: the files, what is in  *)
(* them, and how the user's program behaves.                               *)
(***************************************************************************)
EXTENDS Integers, Sequences, SequencesExt

CONSTANTS Names,      \* symbols
          Values,     \* values of objects
          Requests,   \* lists of symbols asked for with -s
          Worlds,     \* what cedo may meet
          MaxWrites   \* bound on the writes of the user's program

Types == {"good", "none", "unreadable"}

Files == {"searched", "named", "none"}

(* A world has                                                              *)
(*   slash     the file name contains a slash                               *)
(*   inPath    the dynamic linker's search path has a library of that name  *)
(*   named     the file at that name, relative to the working directory:    *)
(*             "absent", "not_object", "no_debug_info", "bad_dwarf" or "ok" *)
(*   hasMain   the library loaded defines main                              *)
(*   type      what getVariableType makes of each name                      *)
(*   exported  the names dlsym finds in the library loaded                  *)
(*   starts    how the constructors of the library end, which dlopen runs:  *)
(*             "return", "exit" or "abort"                                  *)
(*   ends      how its main ends: the same                                  *)
(*   code      the exit code                                                *)
(*   threads   it leaves threads behind that go on writing                  *)
(*   writable  the output file can be opened                                *)
(*   room      all that is written to it finds room on the disk             *)
ASSUME WorldsAssumption ==
  /\ Requests \subseteq Seq(Names)
  /\ MaxWrites \in Nat
  /\ \A w \in Worlds :
       /\ {w.slash, w.inPath, w.hasMain, w.threads, w.writable, w.room} \subseteq BOOLEAN
       /\ w.named \in {"absent", "not_object", "no_debug_info", "bad_dwarf", "ok"}
       /\ w.type \in [Names -> Types] /\ w.exported \subseteq Names
       /\ {w.starts, w.ends} \subseteq {"return", "exit", "abort"} /\ w.code \in Nat

VARIABLES world,        \* chosen once
          outputSyms,   \* the symbols asked for, chosen once
          pc,           \* the step of cedo, of the user's program, or how the process ended
          loaded,       \* the file behind userSOHandle
          mapping,      \* which object owns the mapping of the object file
          next,         \* index of the next symbol of the loop running
          resolvedSyms, \* the symbols with a type and an address, in order
          warned,       \* the symbols warned about
          memory,       \* the objects of the user's program
          writes,       \* writes made to them
          exitCode,     \* of the process
          output,       \* the output file
          atExit        \* memory when the user's main returned

vars == <<world, outputSyms, pc, loaded, mapping, next, resolvedSyms, warned, memory, writes,
          exitCode, output, atExit>>

inputs  == <<world, outputSyms>>
program == <<memory, writes, atExit>>

OutputFiles == [state: {"old", "partial", "cut", "complete"}, labels: Seq([name: Names, value: Values])]

OldOutput == [state |-> "old", labels |-> << >>]

Init ==
  /\ world \in Worlds /\ outputSyms \in Requests
  /\ pc = "loadUserCode" /\ loaded = "none" /\ mapping = "none"
  /\ next = 1 /\ resolvedSyms = << >> /\ warned = {}
  /\ memory \in [Names -> Values] /\ writes = 0 /\ atExit = memory
  /\ exitCode = 0 /\ output = OldOutput

------------------------------------------------------------------------------
(* Runtime::loadUserCode and Runtime::run *)

\* dlopen takes a name with a slash for a path, any other for a library to search.
Loadable ==
  IF world.slash THEN (IF world.named \in {"absent", "not_object"} THEN "none" ELSE "named")
  ELSE (IF world.inPath THEN "searched" ELSE "none")

\* Mutant of Fail: main prints the error and goes on to its end.
FailWithSuccess == pc' = "exited" /\ exitCode' = 0 /\ mapping' = "none"

\* An error of any step: main prints it and returns 1.  What the step owned is destroyed.
Fail == pc' = "exited" /\ exitCode' = 1 /\ mapping' = "none"

LoadUserCode ==
  /\ pc = "loadUserCode"
  /\ loaded' = Loadable
  /\ IF Loadable = "none" THEN Fail ELSE pc' = "constructors" /\ UNCHANGED <<exitCode, mapping>>
  /\ UNCHANGED <<inputs, program, next, resolvedSyms, warned, output>>

FindMain ==
  /\ pc = "findMain"
  /\ IF world.hasMain THEN pc' = "openFile" /\ UNCHANGED <<exitCode, mapping>> ELSE Fail
  /\ UNCHANGED <<inputs, program, loaded, next, resolvedSyms, warned, output>>

------------------------------------------------------------------------------
(* The function given to Runtime::run *)

\* Mutant of OpenFile: a file that cannot be opened is tried again.
OpenFileAgain ==
  /\ pc = "openFile"
  /\ IF world.named = "absent" THEN UNCHANGED <<pc, exitCode, mapping>>
     ELSE pc' = "createReader" /\ mapping' = "fileOrErr" /\ UNCHANGED exitCode
  /\ UNCHANGED <<inputs, program, loaded, next, resolvedSyms, warned, output>>

\* FileReader::open takes the same name for a path, slash or not.
OpenFile ==
  /\ pc = "openFile"
  /\ IF world.named = "absent" THEN Fail
     ELSE pc' = "createReader" /\ mapping' = "fileOrErr" /\ UNCHANGED exitCode
  /\ UNCHANGED <<inputs, program, loaded, next, resolvedSyms, warned, output>>

\* createObjectFileReader moves the FileReader into the reader it creates.
CreateReader ==
  /\ pc = "createReader"
  /\ IF world.named = "not_object" THEN Fail
     ELSE pc' = "readDWARF" /\ mapping' = "objFileReader" /\ UNCHANGED exitCode
  /\ UNCHANGED <<inputs, program, loaded, next, resolvedSyms, warned, output>>

\* A signal ends the process; mappings and all.
Crash == pc' = "crashed" /\ mapping' = "none" /\ UNCHANGED exitCode

\* DWARF::readFromObject, see DWARFReader: bytes it refuses are an error or a
\* failed assertion, a missing section is a null pointer.
ReadDWARF ==
  /\ pc = "readDWARF"
  /\ \/ world.named = "ok" /\ pc' = "resolve" /\ UNCHANGED <<exitCode, mapping>>
     \/ world.named = "bad_dwarf" /\ (Fail \/ Crash)
     \/ world.named = "no_debug_info" /\ Crash
  /\ UNCHANGED <<inputs, program, loaded, next, resolvedSyms, warned, output>>

Resolving == pc = "resolve" /\ next <= Len(outputSyms)

\* getVariableType: a type the reader cannot handle ends the process, see DWARFType.
UnreadableType ==
  /\ Resolving /\ world.type[outputSyms[next]] = "unreadable"
  /\ Crash
  /\ UNCHANGED <<inputs, program, loaded, next, resolvedSyms, warned, output>>

\* Mutant of WarnSym: the loop goes on with the symbol.
WarnAndResolve ==
  /\ Resolving
  /\ LET name == outputSyms[next] IN
       /\ world.type[name] = "good" /\ name \notin world.exported
       /\ warned' = warned \cup {name} /\ resolvedSyms' = Append(resolvedSyms, name)
  /\ next' = next + 1
  /\ UNCHANGED <<inputs, program, pc, loaded, mapping, exitCode, output>>

WarnSym ==
  /\ Resolving
  /\ LET name == outputSyms[next] IN
       /\ \/ world.type[name] = "none"
          \/ world.type[name] = "good" /\ name \notin world.exported
       /\ warned' = warned \cup {name}
  /\ next' = next + 1
  /\ UNCHANGED <<inputs, program, pc, loaded, mapping, resolvedSyms, exitCode, output>>

ResolveSym ==
  /\ Resolving
  /\ world.type[outputSyms[next]] = "good" /\ outputSyms[next] \in world.exported
  /\ resolvedSyms' = Append(resolvedSyms, outputSyms[next])
  /\ next' = next + 1
  /\ UNCHANGED <<inputs, program, pc, loaded, mapping, warned, exitCode, output>>

\* Mutant of CallMain: the reader outlives the function.
CallMainMapped ==
  /\ pc = "resolve" /\ next > Len(outputSyms)
  /\ pc' = "userMain"
  /\ UNCHANGED <<inputs, program, loaded, mapping, next, resolvedSyms, warned, exitCode, output>>

\* The function returns "", and the readers it owns are destroyed.
CallMain ==
  /\ pc = "resolve" /\ next > Len(outputSyms)
  /\ pc' = "userMain" /\ mapping' = "none"
  /\ UNCHANGED <<inputs, program, loaded, next, resolvedSyms, warned, exitCode, output>>

------------------------------------------------------------------------------
(* The user's program: constructors, main, and the threads it leaves behind *)

\* What constructors make of the objects is in the memory there is at first.
ConstructorsReturn ==
  /\ pc = "constructors" /\ world.starts = "return"
  /\ pc' = "findMain"
  /\ UNCHANGED <<inputs, program, loaded, mapping, next, resolvedSyms, warned, exitCode, output>>

Write ==
  /\ writes < MaxWrites /\ writes' = writes + 1
  /\ \E n \in world.exported, v \in Values : memory' = [memory EXCEPT ![n] = v]

MainWrites ==
  /\ pc = "userMain" /\ Write
  /\ UNCHANGED <<inputs, pc, loaded, mapping, next, resolvedSyms, warned, exitCode, output, atExit>>

Alive == pc \notin {"exited", "crashed"}

ThreadWrites ==
  /\ world.threads /\ pc \in {"checkExit", "openOutput", "emit"} /\ Write
  /\ UNCHANGED <<inputs, pc, loaded, mapping, next, resolvedSyms, warned, exitCode, output, atExit>>

MainReturns ==
  /\ pc = "userMain" /\ world.ends = "return"
  /\ pc' = "checkExit" /\ atExit' = memory
  /\ UNCHANGED <<inputs, loaded, mapping, next, resolvedSyms, warned, memory, writes, exitCode, output>>

UserEnds(how) == \/ pc = "constructors" /\ world.starts = how
                 \/ pc = "userMain" /\ world.ends = how

\* exit and abort end the process they are called in, which is cedo.
UserExits ==
  /\ UserEnds("exit")
  /\ pc' = "exited" /\ exitCode' = world.code
  /\ UNCHANGED <<inputs, program, loaded, mapping, next, resolvedSyms, warned, output>>

UserAborts ==
  /\ UserEnds("abort")
  /\ Crash
  /\ UNCHANGED <<inputs, program, loaded, next, resolvedSyms, warned, output>>

------------------------------------------------------------------------------
(* The end of runUserCodeAndGetSyms, and main *)

\* Mutant of CheckExit: the exit code of the program is ignored.
CheckNothing ==
  /\ pc = "checkExit"
  /\ pc' = "openOutput"
  /\ UNCHANGED <<inputs, program, loaded, mapping, next, resolvedSyms, warned, exitCode, output>>

CheckExit ==
  /\ pc = "checkExit"
  /\ IF world.code # 0 THEN Fail ELSE pc' = "openOutput" /\ UNCHANGED <<exitCode, mapping>>
  /\ UNCHANGED <<inputs, program, loaded, next, resolvedSyms, warned, output>>

\* Mutant of OpenOutput: symbols are counted from 0.
OpenOutputFromZero ==
  /\ pc = "openOutput"
  /\ pc' = "emit" /\ next' = 0
  /\ output' = IF world.writable THEN [state |-> "partial", labels |-> << >>] ELSE output
  /\ UNCHANGED <<inputs, program, loaded, mapping, resolvedSyms, warned, exitCode>>

\* Nobody asks whether the stream is open: nothing it is given afterwards is written.
OpenOutput ==
  /\ pc = "openOutput"
  /\ pc' = "emit" /\ next' = 1
  /\ output' = IF world.writable THEN [state |-> "partial", labels |-> << >>] ELSE output
  /\ UNCHANGED <<inputs, program, loaded, mapping, resolvedSyms, warned, exitCode>>

PartsOf(state, labels) == {[state |-> state, labels |-> p] : p \in Prefixes(labels)}

\* The file when the stream has been given these labels.  A write that fails leaves a
\* part of them, as the stream holds back what it has not written yet, and nothing is
\* written after it: nobody asks.
Streamed(state, labels) ==
  IF output.state # "partial" THEN {output}
  ELSE {[state |-> state, labels |-> labels]} \cup (IF world.room THEN {} ELSE PartsOf("cut", labels))

\* Mutant of EmitSym: the index is taken into the symbols asked for.
EmitRequestedSym ==
  /\ pc = "emit" /\ next <= Len(resolvedSyms)
  /\ output' \in Streamed("partial",
       Append(output.labels, [name |-> outputSyms[next], value |-> memory[outputSyms[next]]]))
  /\ next' = next + 1
  /\ UNCHANGED <<inputs, program, pc, loaded, mapping, resolvedSyms, warned, exitCode>>

\* emitOneSym, see EmitAsm.
EmitSym ==
  /\ pc = "emit" /\ next <= Len(resolvedSyms)
  /\ output' \in Streamed("partial",
       Append(output.labels, [name |-> resolvedSyms[next], value |-> memory[resolvedSyms[next]]]))
  /\ next' = next + 1
  /\ UNCHANGED <<inputs, program, pc, loaded, mapping, resolvedSyms, warned, exitCode>>

\* A symbol with a pointer to something that has no label fails an assertion.
\* What the stream holds back then is lost.
EmitFails ==
  /\ pc = "emit" /\ next <= Len(resolvedSyms)
  /\ Crash
  /\ output' \in IF output.state = "partial" THEN PartsOf("partial", output.labels) ELSE {output}
  /\ UNCHANGED <<inputs, program, loaded, next, resolvedSyms, warned>>

\* The stream's destructor writes the rest; main returns 0, written or not.
EndEmit ==
  /\ pc = "emit" /\ next > Len(resolvedSyms)
  /\ pc' = "exited" /\ exitCode' = 0
  /\ output' \in Streamed("complete", output.labels)
  /\ UNCHANGED <<inputs, program, loaded, mapping, next, resolvedSyms, warned>>

Returned == ~Alive /\ UNCHANGED vars

CedoStep ==
  \/ LoadUserCode \/ FindMain \/ OpenFile \/ CreateReader \/ ReadDWARF
  \/ UnreadableType \/ WarnSym \/ ResolveSym \/ CallMain
  \/ CheckExit \/ OpenOutput \/ EmitSym \/ EmitFails \/ EndEmit

UserStep ==
  ConstructorsReturn \/ MainWrites \/ ThreadWrites \/ MainReturns \/ UserExits \/ UserAborts

Next == CedoStep \/ UserStep \/ Returned

Spec == Init /\ [][Next]_vars

\* cedo's own thread is scheduled; the user's program may do what it likes, for ever.
FairSpec == Spec /\ WF_vars(CedoStep)

------------------------------------------------------------------------------
(* Properties *)

\* The types of main's variables, and of what it shares with the user's program.
TypeOK ==
  /\ world \in Worlds /\ outputSyms \in Requests
  /\ pc \in {"loadUserCode", "constructors", "findMain", "openFile", "createReader", "readDWARF", "resolve",
              "userMain", "checkExit", "openOutput", "emit", "exited", "crashed"}
  /\ loaded \in Files /\ mapping \in {"none", "fileOrErr", "objFileReader"}
  /\ next \in Nat \ {0} /\ resolvedSyms \in Seq(Names) /\ warned \subseteq Names
  /\ memory \in [Names -> Values] /\ atExit \in [Names -> Values] /\ writes \in 0..MaxWrites
  /\ exitCode \in Nat
  /\ output \in OutputFiles

\* Without(syms, names)[k]: the first k symbols in their order, without those that
\* have one of the names.
Without(syms, names) ==
  LET kept[k \in 0..Len(syms)] ==
        IF k = 0 THEN << >>
        ELSE IF syms[k] \in names THEN kept[k - 1] ELSE Append(kept[k - 1], syms[k])
  IN  kept

\* The image of the requested symbols not warned about, in the order of the
\* command line, as a memory has them.
ImageOf(mem) ==
  LET emitted == Without(outputSyms, warned)[Len(outputSyms)]
  IN  [k \in 1..Len(emitted) |-> [name |-> emitted[k], value |-> mem[emitted[k]]]]

\* The file written holds the objects as they were when the program's main
\* returned: addresses are resolved before main runs, values read after it.
ImageOfExit == output.state = "complete" => output.labels = ImageOf(atExit)

\* So it is for a program that leaves no threads behind.
Serialized == ~world.threads => ImageOfExit

\* The output file is replaced only after the program returned 0: a run that
\* reports failure leaves the old file.  A run that ends by itself leaves a part of
\* a file only if a write failed, and then it reports success.
FailureKeepsOutput ==
  /\ pc = "exited" /\ exitCode # 0 => output = OldOutput
  /\ pc = "exited" /\ world.room => output.state \in {"old", "complete"}
  /\ output.state # "old" => world.ends = "return" /\ world.code = 0

\* The mapping of the object file has one owner after another, and is released
\* before the user's code runs and on every way out.
MappingScoped ==
  /\ mapping # "none" => pc \in {"createReader", "readDWARF", "resolve"}
  /\ pc \in {"readDWARF", "resolve"} => mapping = "objFileReader"

\* When main is called every symbol asked for is resolved or warned about, and
\* none is both.
EverySymbolAccounted ==
  pc \in {"userMain", "checkExit", "openOutput", "emit"} =>
    /\ resolvedSyms = Without(outputSyms, warned)[Len(outputSyms)]
    /\ warned = {n \in ToSet(outputSyms) : world.type[n] # "good" \/ n \notin world.exported}

\* The invocation of the README: a name without a slash, built in the working directory.
Example ==
  /\ ~world.slash /\ ~world.inPath /\ world.named = "ok" /\ world.hasMain
  /\ world.starts = "return" /\ world.ends = "return" /\ world.code = 0

\* It succeeds.
ExampleWorks == Example => ~(pc = "exited" /\ exitCode # 0)

\* A process that reports success has written the output, all of it, unless the
\* program took the process with it, the file could not be opened, or a write failed:
\* nobody asks for any of these.
SuccessWritesOutput ==
  /\ pc = "exited" /\ exitCode = 0
  /\ world.starts = "return" /\ world.ends = "return" /\ world.writable /\ world.room
  => output.state = "complete"

CedosTurn == Alive /\ pc \notin {"constructors", "userMain"}

\* Whatever the input, cedo comes to run the user's code or ends, and ends once main
\* returned.
Progress == CedosTurn ~> ~CedosTurn
==============================================================================
