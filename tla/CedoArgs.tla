------------------------------ MODULE CedoArgs ------------------------------
(***************************************************************************)
(* parseArgs of src/cedo.cpp: one action per iteration of its loop, and    *)
(* the checks and the default that follow it.                              *)
(*                                                                         *)
(* An argument is a sequence of parts: <<o>> for an option o, and for a    *)
(* path the dots, slashes and names it is made of, which is as much of it  *)
(* as the default name of the output depends on.                           *)
(***************************************************************************)
EXTENDS Integers, Sequences, SequencesExt

CONSTANTS Parts,  \* what arguments are made of
          Argvs   \* command lines, without the name of the program

Options == {"-S", "-s", "-o", "--no-version"}   \* --sym is -s, --output is -o

ASSUME PartsAssumption == Options \cup {".", "/", "s"} \subseteq Parts
ASSUME ArgvsAssumption == Argvs \subseteq Seq(Seq(Parts))

VARIABLES argv,     \* the command line, chosen once
          current,  \* index of the next argument
          args,     \* the Args structure
          pc        \* "parsing", or how parseArgs ended

vars == <<argv, current, args, pc>>

Init ==
  /\ argv \in Argvs
  /\ current = 1
  /\ args = [inputFile |-> << >>, outputFile |-> << >>, outputSyms |-> << >>,
             saveTemps |-> FALSE, emitVersion |-> TRUE]
  /\ pc = "parsing"

------------------------------------------------------------------------------
At(option) == pc = "parsing" /\ current <= Len(argv) /\ argv[current] = <<option>>

SaveTemps ==
  /\ At("-S")
  /\ args' = [args EXCEPT !.saveTemps = TRUE]
  /\ current' = current + 1
  /\ UNCHANGED <<argv, pc>>

\* Mutant of NoVersion: the next argument is skipped.
NoVersionSkips ==
  /\ At("--no-version")
  /\ args' = [args EXCEPT !.emitVersion = FALSE]
  /\ current' = current + 2
  /\ UNCHANGED <<argv, pc>>

NoVersion ==
  /\ At("--no-version")
  /\ args' = [args EXCEPT !.emitVersion = FALSE]
  /\ current' = current + 1
  /\ UNCHANGED <<argv, pc>>

\* Mutant of Sym: the operand is read again as an argument.
SymAgain ==
  /\ At("-s") /\ current < Len(argv)
  /\ args' = [args EXCEPT !.outputSyms = Append(@, argv[current + 1])]
  /\ current' = current + 1
  /\ UNCHANGED <<argv, pc>>

\* The operand of an option is the next argument, even if it looks like an option.
Sym ==
  /\ At("-s") /\ current < Len(argv)
  /\ args' = [args EXCEPT !.outputSyms = Append(@, argv[current + 1])]
  /\ current' = current + 2
  /\ UNCHANGED <<argv, pc>>

Output ==
  /\ At("-o") /\ current < Len(argv)
  /\ args' = [args EXCEPT !.outputFile = argv[current + 1]]
  /\ current' = current + 2
  /\ UNCHANGED <<argv, pc>>

\* The operand of the last argument is argv[argc], a null pointer, of which a string is made.
MissingOperand ==
  /\ At("-s") \/ At("-o")
  /\ current = Len(argv)
  /\ pc' = "segv"
  /\ UNCHANGED <<argv, current, args>>

Input ==
  /\ pc = "parsing" /\ current <= Len(argv)
  /\ \A o \in Options : argv[current] # <<o>>
  /\ args' = [args EXCEPT !.inputFile = argv[current]]
  /\ current' = current + 1
  /\ UNCHANGED <<argv, pc>>

Incomplete == ~args.saveTemps \/ args.inputFile = << >> \/ args.outputSyms = << >>

Refuse ==
  /\ pc = "parsing" /\ current > Len(argv) /\ Incomplete
  /\ pc' = "exit"
  /\ UNCHANGED <<argv, current, args>>

LastDot(path) == SelectLastInSeq(path, LAMBDA p : p = ".")

\* Mutant of DefaultOutput: the extension stays.
DefaultOutputAppends(path) == path \o <<".", "s">>

\* The path up to its last dot, wherever that is, then ".s".
DefaultOutput(path) ==
  (IF LastDot(path) = 0 THEN path ELSE SubSeq(path, 1, LastDot(path) - 1)) \o <<".", "s">>

Accept ==
  /\ pc = "parsing" /\ current > Len(argv) /\ ~Incomplete
  /\ args' = [args EXCEPT !.outputFile = IF @ = << >> THEN DefaultOutput(args.inputFile) ELSE @]
  /\ pc' = "accepted"
  /\ UNCHANGED <<argv, current>>

Ended == {"accepted", "exit", "segv"}

Returned == pc \in Ended /\ UNCHANGED vars

Next ==
  \/ SaveTemps \/ NoVersion \/ Sym \/ Output \/ MissingOperand \/ Input
  \/ Refuse \/ Accept \/ Returned

Spec == Init /\ [][Next]_vars

------------------------------------------------------------------------------
(* Properties *)

\* The loop never goes past argv[argc].
TypeOK ==
  /\ argv \in Argvs
  /\ current \in 1..(Len(argv) + 1)
  /\ args \in [inputFile: Seq(Parts), outputFile: Seq(Parts), outputSyms: Seq(Seq(Parts)),
               saveTemps: BOOLEAN, emitVersion: BOOLEAN]
  /\ pc \in {"parsing"} \cup Ended

\* IsOperandOf(line)[i]: argument i is the operand of the option before it.
IsOperandOf(line) ==
  LET operand[i \in 0..Len(line)] ==
        i > 1 /\ line[i - 1] \in {<<"-s">>, <<"-o">>} /\ ~operand[i - 1]
  IN  operand

IsOperand == IsOperandOf(argv)

OperandsOf(option) == {i \in 2..Len(argv) : IsOperand[i] /\ argv[i - 1] = <<option>>}

\* Those among the first i arguments of a line that are at the positions, in their order.
ArgumentsAt(line, positions) ==
  LET taken[i \in 0..Len(line)] ==
        IF i = 0 THEN << >>
        ELSE IF i \in positions THEN Append(taken[i - 1], line[i]) ELSE taken[i - 1]
  IN  taken

Inputs == {i \in 1..Len(argv) : ~IsOperand[i] /\ argv[i] \notin {<<o>> : o \in Options}}

\* Of several arguments for one field the last wins.
LastOf(positions) ==
  IF positions = {} THEN << >> ELSE argv[CHOOSE i \in positions : \A j \in positions : j <= i]

Lacking ==
  \/ OperandsOf("-s") = {} \/ LastOf(Inputs) = << >>
  \/ \A i \in 1..Len(argv) : argv[i] = <<"-S">> => IsOperand[i]

\* The last argument is an option whose operand would be argv[argc].
LacksOperand == argv # << >> /\ ~IsOperand[Len(argv)] /\ argv[Len(argv)] \in {<<"-s">>, <<"-o">>}

\* The command line is understood as it is meant: every argument is an option, the
\* operand of one, or an input, never two of these; the symbols keep their order
\* (their types, warnings and labels come in it); and parseArgs gives up exactly on
\* the command lines that lack something, or whose last option lacks its operand.
UnderstoodRight ==
  pc \in Ended =>
    /\ pc = "segv" <=> LacksOperand
    /\ pc = "exit" <=> Lacking /\ ~LacksOperand
    /\ pc = "accepted" =>
         /\ args.outputSyms = ArgumentsAt(argv, OperandsOf("-s"))[Len(argv)]
         /\ args.inputFile = LastOf(Inputs)
         /\ LastOf(OperandsOf("-o")) # << >> => args.outputFile = LastOf(OperandsOf("-o"))

LastSlash(path) == SelectLastInSeq(path, LAMBDA p : p = "/")
BaseName(path)  == SubSeq(path, LastSlash(path) + 1, Len(path))
Stem(name)      == IF LastDot(name) = 0 THEN name ELSE SubSeq(name, 1, LastDot(name) - 1)

NoOutputGiven == LastOf(OperandsOf("-o")) = << >>

\* Without -o the output is named after the input, as the one of cc -S is: the
\* input's last component, its extension replaced.
NamedAfterInput ==
  pc = "accepted" /\ NoOutputGiven =>
    BaseName(args.outputFile) = Stem(BaseName(args.inputFile)) \o <<".", "s">>

\* It is, for an input whose directory has no dot in it.
NamedAfterPlainInput ==
  LastDot(SubSeq(args.inputFile, 1, LastSlash(args.inputFile))) = 0 => NamedAfterInput
==============================================================================
