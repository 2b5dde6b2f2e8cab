--------------------------- MODULE CedoArgsProofs ---------------------------
(***************************************************************************)
(* Proofs about the command line: it is understood as it is meant, and the *)
(* output gets the name it should, however long the line is.               *)
(***************************************************************************)
EXTENDS CedoArgs, SequenceTheorems, Induction

------------------------------------------------------------------------------
(* The operators *)

\* What the recursive definition of IsOperandOf defines.
LEMMA IsOperandDef ==
  ASSUME NEW S, NEW line \in Seq(S)
  PROVE  /\ IsOperandOf(line) \in [0..Len(line) -> BOOLEAN]
         /\ \A i \in 0..Len(line) :
              IsOperandOf(line)[i] <=>
                i > 1 /\ line[i - 1] \in {<<"-s">>, <<"-o">>} /\ ~IsOperandOf(line)[i - 1]
<1> DEFINE n == Len(line)
           After(v, i) == i > 1 /\ line[i - 1] \in {<<"-s">>, <<"-o">>} /\ ~v
           step == [p \in BOOLEAN \X (1..n) |-> After(p[1], p[2])]
           W == IsOperandOf(line)
<1>1. n \in Nat
  OBVIOUS
<1>2. ASSUME NEW v, NEW i PROVE After(v, i) \in BOOLEAN
  OBVIOUS
<1> HIDE DEF After, n
<1>3. step \in [BOOLEAN \X (1..n) -> BOOLEAN]
  BY <1>2
<1>4. ASSUME NEW v \in BOOLEAN, NEW i \in 1..n PROVE step[<<v, i>>] = After(v, i)
  OBVIOUS
<1> HIDE DEF step
<1>5. PICK g \in [0..n -> BOOLEAN] : Recursion(g, FALSE, step, n)
  BY <1>1, <1>3, RecursionExists
<1>6. g = [i \in 0..n |-> After(g[i - 1], i)]
  <2>1. ASSUME NEW i \in 0..n PROVE g[i] = After(g[i - 1], i)
    <3>1. CASE i = 0
      <4>1. After(g[i - 1], i) = FALSE
        BY <3>1 DEF After
      <4> QED
        BY <3>1, <4>1, <1>5 DEF Recursion
    <3>2. CASE i \in 1..n
      <4>1. g[i - 1] \in BOOLEAN
        BY <1>1, <3>2
      <4>2. g[i] = step[<<g[i - 1], i>>]
        BY <1>5, <3>2 DEF Recursion
      <4> QED
        BY <1>4, <3>2, <4>1, <4>2
    <3> QED
      BY <1>1, <3>1, <3>2
  <2> QED
    BY <2>1
<1>7. W = [i \in 0..n |-> After(W[i - 1], i)]
  BY <1>6, Zenon DEF IsOperandOf, n, After
<1> HIDE DEF W
<1>8. \A i \in 0..n : W[i] = After(W[i - 1], i)
  BY <1>7
<1>9. W \in [0..n -> BOOLEAN]
  BY <1>2, <1>7
<1> QED
  BY <1>8, <1>9 DEF W, n, After

\* What the recursive definition of ArgumentsAt defines.
LEMMA ArgumentsAtDef ==
  ASSUME NEW S, NEW line \in Seq(S), NEW positions
  PROVE  /\ ArgumentsAt(line, positions)[0] = << >>
         /\ \A i \in 1..Len(line) :
              /\ ArgumentsAt(line, positions)[i] \in Seq(S)
              /\ ArgumentsAt(line, positions)[i] =
                   IF i \in positions THEN Append(ArgumentsAt(line, positions)[i - 1], line[i])
                   ELSE ArgumentsAt(line, positions)[i - 1]
<1> DEFINE n == Len(line)
           V == Seq(S)
           After(v, i) == IF i \in positions THEN Append(v, line[i]) ELSE v
           step == [p \in V \X (1..n) |-> After(p[1], p[2])]
           W == ArgumentsAt(line, positions)
<1>1. n \in Nat /\ << >> \in V
  OBVIOUS
<1>2. ASSUME NEW v \in V, NEW i \in 1..n PROVE After(v, i) \in V
  BY AppendProperties
<1> HIDE DEF After, V, n
<1>3. step \in [V \X (1..n) -> V]
  BY <1>2
<1>4. ASSUME NEW v \in V, NEW i \in 1..n PROVE step[<<v, i>>] = After(v, i)
  OBVIOUS
<1> HIDE DEF step
<1>5. PICK g \in [0..n -> V] : Recursion(g, << >>, step, n)
  BY <1>1, <1>3, RecursionExists
<1>6. g = [i \in 0..n |-> IF i = 0 THEN << >> ELSE After(g[i - 1], i)]
  <2>1. ASSUME NEW i \in 1..n PROVE g[i] = After(g[i - 1], i)
    BY <1>1, <1>4, <1>5 DEF Recursion
  <2> QED
    BY <1>1, <1>5, <2>1 DEF Recursion
<1>7. W = [i \in 0..n |-> IF i = 0 THEN << >> ELSE After(W[i - 1], i)]
  BY <1>6, Zenon DEF ArgumentsAt, n, After
<1> HIDE DEF W
<1>8. W[0] = << >> /\ \A i \in 1..n : W[i] = After(W[i - 1], i)
  BY <1>1, <1>7
<1>9. \A i \in 0..n : W[i] \in V
  <2>1. ASSUME NEW i \in 1..n, W[i - 1] \in V PROVE W[i] \in V
    BY <1>2, <1>8, <2>1
  <2> QED
    BY <1>1, <1>8, <2>1, RecursionType
<1> QED
  BY <1>8, <1>9 DEF W, After, V, n

\* The last position of a set that ends with it.
LEMMA LastOfMore ==
  ASSUME NEW positions, NEW i \in Nat, positions \subseteq 1..(i - 1)
  PROVE  LastOf(positions \cup {i}) = argv[i]
<1>1. \A k \in positions \cup {i} : (\A j \in positions \cup {i} : j <= k) <=> k = i
  OBVIOUS
<1> QED
  BY <1>1 DEF LastOf

\* What LastDot and LastSlash return: the last such part, or 0.
LEMMA LastDotIs ==
  ASSUME NEW path \in Seq(Parts)
  PROVE  /\ LastDot(path) \in 0..Len(path)
         /\ LastDot(path) # 0 => path[LastDot(path)] = "."
         /\ \A i \in 1..Len(path) : path[i] = "." => i <= LastDot(path)
<1> DEFINE I == {i \in 1..Len(path) : path[i] = "."}
<1>1. LastDot(path) = IF I # {} THEN Max(I) ELSE 0
  BY DEF LastDot, SelectLastInSeq
<1>2. CASE I = {}
  BY <1>1, <1>2
<1>3. CASE I # {}
  <2>1. Len(path) \in Nat /\ I \subseteq 0..Len(path)
    OBVIOUS
  <2> HIDE DEF I
  <2>2. \E x \in I : \A y \in I : x >= y
    BY <1>3, <2>1, Greatest
  <2>3. Max(I) \in I /\ \A y \in I : Max(I) >= y
    BY <2>2 DEF Max
  <2> QED
    BY <1>1, <1>3, <2>1, <2>3 DEF I
<1> QED
  BY <1>2, <1>3

LEMMA LastSlashIs ==
  ASSUME NEW path \in Seq(Parts)
  PROVE  /\ LastSlash(path) \in 0..Len(path)
         /\ LastSlash(path) # 0 => path[LastSlash(path)] = "/"
         /\ \A i \in 1..Len(path) : path[i] = "/" => i <= LastSlash(path)
<1> DEFINE I == {i \in 1..Len(path) : path[i] = "/"}
<1>1. LastSlash(path) = IF I # {} THEN Max(I) ELSE 0
  BY DEF LastSlash, SelectLastInSeq
<1>2. CASE I = {}
  BY <1>1, <1>2
<1>3. CASE I # {}
  <2>1. Len(path) \in Nat /\ I \subseteq 0..Len(path)
    OBVIOUS
  <2> HIDE DEF I
  <2>2. \E x \in I : \A y \in I : x >= y
    BY <1>3, <2>1, Greatest
  <2>3. Max(I) \in I /\ \A y \in I : Max(I) >= y
    BY <2>2 DEF Max
  <2> QED
    BY <1>1, <1>3, <2>1, <2>3 DEF I
<1> QED
  BY <1>2, <1>3

------------------------------------------------------------------------------
(* Types *)

LEMMA LineTypes ==
  ASSUME TypeOK
  PROVE  /\ argv \in Seq(Seq(Parts)) /\ Len(argv) \in Nat /\ current \in 1..(Len(argv) + 1)
         /\ \A i \in 1..Len(argv) : argv[i] \in Seq(Parts)
  BY ArgvsAssumption DEF TypeOK

LEMMA TypeInit == Init => TypeOK
<1> SUFFICES ASSUME Init PROVE TypeOK
  OBVIOUS
<1>1. argv \in Seq(Seq(Parts)) /\ Len(argv) \in Nat
  BY ArgvsAssumption DEF Init
<1> QED
  BY <1>1 DEF Init, TypeOK

\* The part of the path up to the dot, as a function.
Before(path) == IF LastDot(path) = 0 THEN path ELSE SubSeq(path, 1, LastDot(path) - 1)

\* The default name has the parts of the path before its last dot, a dot and an s.
LEMMA DefaultOutputIs ==
  ASSUME NEW path \in Seq(Parts)
  PROVE  /\ Before(path) \in Seq(Parts)
         /\ Len(Before(path)) = IF LastDot(path) = 0 THEN Len(path) ELSE LastDot(path) - 1
         /\ Len(Before(path)) \in 0..Len(path)
         /\ \A i \in 1..Len(Before(path)) : Before(path)[i] = path[i]
         /\ DefaultOutput(path) \in Seq(Parts)
         /\ DefaultOutput(path) = Before(path) \o <<".", "s">>
         /\ Len(DefaultOutput(path)) = Len(Before(path)) + 2
<1>1. LastDot(path) \in 0..Len(path) /\ Len(path) \in Nat
  BY LastDotIs
<1>2. /\ Before(path) \in Seq(Parts)
      /\ Len(Before(path)) = IF LastDot(path) = 0 THEN Len(path) ELSE LastDot(path) - 1
      /\ \A i \in 1..Len(Before(path)) : Before(path)[i] = path[i]
  <2>1. CASE LastDot(path) = 0
    BY <2>1 DEF Before
  <2>2. CASE LastDot(path) # 0
    <3>1. 1 \in 1..(Len(path) + 1) /\ LastDot(path) - 1 \in 0..Len(path)
      BY <1>1, <2>2
    <3>2. /\ SubSeq(path, 1, LastDot(path) - 1) \in Seq(Parts)
          /\ Len(SubSeq(path, 1, LastDot(path) - 1)) = LastDot(path) - 1
          /\ \A i \in 1..(LastDot(path) - 1) : SubSeq(path, 1, LastDot(path) - 1)[i] = path[i]
      BY <1>1, <2>2, <3>1, SubSeqProperties
    <3> QED
      BY <2>2, <3>2 DEF Before
  <2> QED
    BY <2>1, <2>2
<1>3. Len(Before(path)) \in 0..Len(path)
  BY <1>1, <1>2
<1>4. <<".", "s">> \in Seq(Parts) /\ Len(<<".", "s">>) = 2
  BY PartsAssumption
<1>5. DefaultOutput(path) = Before(path) \o <<".", "s">>
  BY DEF DefaultOutput, Before
<1>6. DefaultOutput(path) \in Seq(Parts) /\ Len(DefaultOutput(path)) = Len(Before(path)) + 2
  BY <1>2, <1>4, <1>5, ConcatProperties
<1> QED
  BY <1>2, <1>3, <1>5, <1>6

LEMMA TypeStep == TypeOK /\ [Next]_vars => TypeOK'
<1> SUFFICES ASSUME TypeOK, [Next]_vars PROVE TypeOK'
  OBVIOUS
<1> DEFINE Args == [inputFile: Seq(Parts), outputFile: Seq(Parts), outputSyms: Seq(Seq(Parts)),
                    saveTemps: BOOLEAN, emitVersion: BOOLEAN]
<1>1. CASE SaveTemps \/ NoVersion \/ Input
  <2>1. current \in 1..Len(argv) /\ current' \in 1..(Len(argv) + 1)
    BY <1>1, LineTypes DEF SaveTemps, NoVersion, Input, At
  <2>2. argv[current] \in Seq(Parts) /\ args \in Args
    BY <2>1, LineTypes DEF TypeOK
  <2>3. args' \in Args
    BY <1>1, <2>2 DEF SaveTemps, NoVersion, Input
  <2> QED
    BY <1>1, <2>1, <2>3 DEF SaveTemps, NoVersion, Input, TypeOK
<1>2. CASE Sym
  <2>1. current \in 1..Len(argv) /\ current + 1 \in 1..Len(argv) /\ current' \in 1..(Len(argv) + 1)
    BY <1>2, LineTypes, SMTT(30) DEF Sym, At
  <2> DEFINE syms == Append(args.outputSyms, argv[current + 1])
  <2>2. syms \in Seq(Seq(Parts))
    BY <2>1, LineTypes, AppendProperties DEF TypeOK
  <2> HIDE DEF syms
  <2>3. args' = [args EXCEPT !.outputSyms = syms] /\ args \in Args
    BY <1>2 DEF Sym, TypeOK, syms
  <2>4. args' \in Args
    BY <2>2, <2>3
  <2> QED
    BY <1>2, <2>1, <2>4 DEF Sym, TypeOK
<1>3. CASE Output
  <2>1. current \in 1..Len(argv) /\ current + 1 \in 1..Len(argv) /\ current' \in 1..(Len(argv) + 1)
    BY <1>3, LineTypes, SMTT(30) DEF Output, At
  <2>2. argv[current + 1] \in Seq(Parts)
    BY <2>1, LineTypes
  <2>3. args' = [args EXCEPT !.outputFile = argv[current + 1]] /\ args \in Args
    BY <1>3 DEF Output, TypeOK
  <2>4. args' \in Args
    BY <2>2, <2>3
  <2> QED
    BY <1>3, <2>1, <2>4 DEF Output, TypeOK
<1>4. CASE MissingOperand \/ Refuse
  BY <1>4 DEF MissingOperand, Refuse, TypeOK, Ended
<1>5. CASE Accept
  <2>1. args \in Args /\ args.inputFile \in Seq(Parts) /\ args.outputFile \in Seq(Parts)
    BY DEF TypeOK
  <2> DEFINE file == IF args.outputFile = << >> THEN DefaultOutput(args.inputFile) ELSE args.outputFile
  <2>2. file \in Seq(Parts)
    BY <2>1, DefaultOutputIs
  <2>3. args' = [args EXCEPT !.outputFile = file]
    BY <1>5 DEF Accept
  <2> HIDE DEF file
  <2>4. args' \in Args
    BY <2>1, <2>2, <2>3
  <2> QED
    BY <1>5, <2>4 DEF Accept, TypeOK, Ended
<1>6. CASE Returned \/ UNCHANGED vars
  BY <1>6 DEF Returned, vars, TypeOK
<1> QED
  BY <1>1, <1>2, <1>3, <1>4, <1>5, <1>6 DEF Next

\* The loop never goes past argv[argc], and the Args structure keeps its types.
THEOREM TypeCorrect == Spec => []TypeOK
  BY TypeInit, TypeStep, PTL DEF Spec
------------------------------------------------------------------------------
(* How the command line is understood *)

\* Argument i is an option that takes the next one for its operand.
TakesNext(i) == argv[i] \in {<<"-s">>, <<"-o">>} /\ ~IsOperand[i]

SavesTemps(i) == argv[i] = <<"-S">> /\ ~IsOperand[i]

\* What the loop has done with the first n arguments, none of which waits for an operand.
Read(n) ==
  /\ n > 0 => ~TakesNext(n)
  /\ args.outputSyms = ArgumentsAt(argv, OperandsOf("-s"))[n]
  /\ args.outputSyms = << >> <=> OperandsOf("-s") \cap (1..n) = {}
  /\ args.inputFile = LastOf(Inputs \cap (1..n))
  /\ args.outputFile = LastOf(OperandsOf("-o") \cap (1..n))
  /\ args.saveTemps <=> \E i \in 1..n : SavesTemps(i)

\* The file the output goes to: the one given, or one named after the input.
OutputIs(file) ==
  file = IF NoOutputGiven THEN DefaultOutput(LastOf(Inputs)) ELSE LastOf(OperandsOf("-o"))

Inv ==
  /\ pc = "parsing" => Read(current - 1)
  /\ UnderstoodRight
  /\ pc = "accepted" => OutputIs(args.outputFile)

\* The operands of the line at hand.
LEMMA OperandIs ==
  ASSUME TypeOK, NEW i \in 1..Len(argv)
  PROVE  IsOperand[i] <=> i > 1 /\ TakesNext(i - 1)
<1>1. argv \in Seq(Seq(Parts)) /\ Len(argv) \in Nat /\ i \in 0..Len(argv)
  BY LineTypes
<1>2. IsOperand[i] <=> i > 1 /\ argv[i - 1] \in {<<"-s">>, <<"-o">>} /\ ~IsOperand[i - 1]
  BY <1>1, IsOperandDef DEF IsOperand
<1> QED
  BY <1>2 DEF TakesNext

LEMMA InvInit == TypeOK /\ Init => Inv
<1> SUFFICES ASSUME TypeOK, Init PROVE Inv
  OBVIOUS
<1>1. ArgumentsAt(argv, OperandsOf("-s"))[0] = << >>
  BY LineTypes, ArgumentsAtDef
<1>2. Read(0)
  <2>1. \A S : S \cap (1..0) = {}
    OBVIOUS
  <2>2. LastOf({}) = << >>
    BY DEF LastOf
  <2> QED
    BY <1>1, <2>1, <2>2 DEF Init, Read
<1> QED
  BY <1>2 DEF Init, Inv, UnderstoodRight, Ended

\* An argument that is in a set of positions is its last so far, one that is not is passed over.
LEMMA OneMore ==
  ASSUME NEW n \in Nat, NEW positions, positions \subseteq Nat
  PROVE  /\ n + 1 \in positions =>
              LastOf(positions \cap (1..(n + 1))) = argv[n + 1] /\ positions \cap (1..(n + 1)) # {}
         /\ n + 1 \notin positions => positions \cap (1..(n + 1)) = positions \cap (1..n)
<1>1. CASE n + 1 \in positions
  <2>1. positions \cap (1..(n + 1)) = (positions \cap (1..n)) \cup {n + 1}
    BY <1>1
  <2> DEFINE earlier == positions \cap (1..n)
             m == n + 1
  <2>2. earlier \subseteq 1..(m - 1) /\ m \in Nat
    OBVIOUS
  <2> HIDE DEF earlier, m
  <2>3. LastOf(earlier \cup {m}) = argv[m]
    BY <2>2, LastOfMore
  <2> USE DEF earlier, m
  <2> QED
    BY <1>1, <2>1, <2>3
<1>2. CASE n + 1 \notin positions
  BY <1>2
<1> QED
  BY <1>1, <1>2

\* What is said of the line does not change.
LEMMA LineStays ==
  ASSUME argv' = argv
  PROVE  /\ IsOperand' = IsOperand /\ Inputs' = Inputs
         /\ \A o : OperandsOf(o)' = OperandsOf(o)
         /\ \A i : (TakesNext(i)' <=> TakesNext(i)) /\ (SavesTemps(i)' <=> SavesTemps(i))
         /\ \A positions : LastOf(positions)' = LastOf(positions)
         /\ (Lacking' <=> Lacking) /\ (LacksOperand' <=> LacksOperand) /\ (NoOutputGiven' <=> NoOutputGiven)
<1>1. IsOperand' = IsOperand
  BY DEF IsOperand
<1>2. Inputs' = Inputs /\ \A o : OperandsOf(o)' = OperandsOf(o)
  BY <1>1 DEF Inputs, OperandsOf
<1>3. \A i : (TakesNext(i)' <=> TakesNext(i)) /\ (SavesTemps(i)' <=> SavesTemps(i))
  BY <1>1 DEF TakesNext, SavesTemps
<1>4. \A positions : LastOf(positions)' = LastOf(positions)
  BY DEF LastOf
<1> QED
  BY <1>1, <1>2, <1>3, <1>4 DEF Lacking, LacksOperand, NoOutputGiven
\* Nor does what is read of all of it.
LEMMA ReadStays ==
  ASSUME argv' = argv
  PROVE  /\ LastOf(Inputs)' = LastOf(Inputs) /\ LastOf(OperandsOf("-o"))' = LastOf(OperandsOf("-o"))
         /\ ArgumentsAt(argv, OperandsOf("-s"))'[Len(argv')] = ArgumentsAt(argv, OperandsOf("-s"))[Len(argv)]
<1>1. LastOf(Inputs)' = LastOf(Inputs)
  BY LineStays DEF LastOf
<1>2. LastOf(OperandsOf("-o"))' = LastOf(OperandsOf("-o"))
  <2> DEFINE P == OperandsOf("-o")
  <2>1. P' = P
    BY LineStays
  <2> HIDE DEF P
  <2>2. LastOf(P)' = LastOf(P)
    BY <2>1 DEF LastOf
  <2> QED
    BY <2>2 DEF P
<1>3. ArgumentsAt(argv, OperandsOf("-s"))' = ArgumentsAt(argv, OperandsOf("-s"))
  BY LineStays
<1> QED
  BY <1>1, <1>2, <1>3

\* What Read says of the next argument: it is not an operand, and not counted yet.
LEMMA NextArgument ==
  ASSUME TypeOK, pc = "parsing", Read(current - 1), current <= Len(argv)
  PROVE  /\ current \in 1..Len(argv) /\ current - 1 \in Nat /\ current - 1 + 1 = current
         /\ IsOperand[current] = FALSE
         /\ TakesNext(current) <=> argv[current] \in {<<"-s">>, <<"-o">>}
         /\ \A o : current \notin OperandsOf(o)
         /\ current \in Inputs <=> \A o \in Options : argv[current] # <<o>>
<1>1. current \in 1..Len(argv) /\ current - 1 \in Nat /\ current - 1 + 1 = current /\ current \in 0..Len(argv)
  BY LineTypes
<1>2. ~IsOperand[current]
  BY <1>1, OperandIs DEF Read
<1>3. IsOperand[current] = FALSE
  BY <1>1, <1>2, LineTypes, IsOperandDef DEF IsOperand
<1> QED
  BY <1>1, <1>3 DEF TakesNext, OperandsOf, Inputs

\* What is read of the line, told by the Args structure after a step.
LEMMA ReadLater ==
  ASSUME argv' = argv, NEW m, current' - 1 = m, ~TakesNext(m),
         /\ args'.outputSyms = ArgumentsAt(argv, OperandsOf("-s"))[m]
         /\ args'.outputSyms = << >> <=> OperandsOf("-s") \cap (1..m) = {}
         /\ args'.inputFile = LastOf(Inputs \cap (1..m))
         /\ args'.outputFile = LastOf(OperandsOf("-o") \cap (1..m))
         /\ args'.saveTemps <=> \E i \in 1..m : SavesTemps(i)
  PROVE  Read(current - 1)'
<1>1. /\ args'.outputSyms = ArgumentsAt(argv', OperandsOf("-s")')[m]
      /\ args'.outputSyms = << >> <=> OperandsOf("-s")' \cap (1..m) = {}
  BY LineStays
<1>3. args'.inputFile = LastOf(Inputs \cap (1..m))'
  BY LineStays DEF LastOf
<1>4. args'.outputFile = LastOf(OperandsOf("-o") \cap (1..m))'
  BY LineStays DEF LastOf
<1>5. args'.saveTemps <=> \E i \in 1..m : SavesTemps(i)'
  BY LineStays
<1>2. ~TakesNext(m)'
  BY LineStays
<1> QED
  BY <1>1, <1>2, <1>3, <1>4, <1>5 DEF Read

OneArgument == SaveTemps \/ NoVersion \/ Input

\* An argument that takes no operand is read as what it is.
LEMMA ReadOne ==
  ASSUME TypeOK, pc = "parsing", Read(current - 1), OneArgument
  PROVE  Read(current - 1)'
<1> DEFINE k == current
           n == current - 1
<1>1. argv' = argv /\ current <= Len(argv) /\ current' = current + 1
  BY DEF OneArgument, SaveTemps, NoVersion, Input, At
<1>2. /\ k \in 1..Len(argv) /\ n \in Nat /\ n + 1 = k /\ current' - 1 = k
      /\ \A o : k \notin OperandsOf(o)
      /\ k \in Inputs <=> \A o \in Options : argv[k] # <<o>>
      /\ IsOperand[k] = FALSE
  <2>1. current' - 1 = k
    BY <1>1, LineTypes
  <2> QED
    BY <1>1, <2>1, NextArgument
<1>3. ~TakesNext(k)
  BY <1>1, NextArgument DEF OneArgument, SaveTemps, NoVersion, Input, At, Options
<1>4. ArgumentsAt(argv, OperandsOf("-s"))[k] = ArgumentsAt(argv, OperandsOf("-s"))[n]
  BY <1>2, LineTypes, ArgumentsAtDef
<1>5. /\ OperandsOf("-s") \subseteq Nat /\ OperandsOf("-o") \subseteq Nat /\ Inputs \subseteq Nat
  BY LineTypes DEF OperandsOf, Inputs
<1>6. /\ OperandsOf("-s") \cap (1..k) = OperandsOf("-s") \cap (1..n)
      /\ OperandsOf("-o") \cap (1..k) = OperandsOf("-o") \cap (1..n)
      /\ k \notin Inputs => Inputs \cap (1..k) = Inputs \cap (1..n)
      /\ k \in Inputs => LastOf(Inputs \cap (1..k)) = argv[k]
  BY <1>2, <1>5, OneMore
<1>7. (\E i \in 1..k : SavesTemps(i)) <=> (\E i \in 1..n : SavesTemps(i)) \/ SavesTemps(k)
  BY <1>2
<1>8. args \in [inputFile: Seq(Parts), outputFile: Seq(Parts), outputSyms: Seq(Seq(Parts)),
                saveTemps: BOOLEAN, emitVersion: BOOLEAN]
  BY DEF TypeOK
<1>9. /\ args'.outputSyms = args.outputSyms /\ args'.outputFile = args.outputFile
      /\ args'.inputFile = IF k \in Inputs THEN argv[k] ELSE args.inputFile
      /\ args'.saveTemps <=> args.saveTemps \/ SavesTemps(k)
  <2>1. CASE SaveTemps
    BY <1>2, <1>8, <2>1 DEF SaveTemps, At, SavesTemps, Options
  <2>2. CASE NoVersion
    BY <1>2, <1>8, <2>2 DEF NoVersion, At, SavesTemps, Options
  <2>3. CASE Input
    BY <1>2, <1>8, <2>3 DEF Input, SavesTemps, Options
  <2> QED
    BY <2>1, <2>2, <2>3 DEF OneArgument
<1>10. /\ args'.outputSyms = ArgumentsAt(argv, OperandsOf("-s"))[k]
       /\ args'.outputSyms = << >> <=> OperandsOf("-s") \cap (1..k) = {}
       /\ args'.inputFile = LastOf(Inputs \cap (1..k))
       /\ args'.outputFile = LastOf(OperandsOf("-o") \cap (1..k))
       /\ args'.saveTemps <=> \E i \in 1..k : SavesTemps(i)
  BY <1>4, <1>6, <1>7, <1>9 DEF Read
<1> HIDE DEF k, n
<1> QED
  BY <1>1, <1>2, <1>3, <1>10, ReadLater

TwoArguments == Sym \/ Output

\* An option and its operand are read as that, whatever the operand looks like.
LEMMA ReadTwo ==
  ASSUME TypeOK, pc = "parsing", Read(current - 1), TwoArguments
  PROVE  Read(current - 1)'
<1> DEFINE k == current
           m == current + 1
           n == current - 1
<1>1. argv' = argv /\ current <= Len(argv) /\ current' = current + 2 /\ m <= Len(argv)
  BY LineTypes DEF TwoArguments, Sym, Output, At
<1>2. /\ k \in 1..Len(argv) /\ n \in Nat /\ n + 1 = k /\ \A o : k \notin OperandsOf(o)
      /\ TakesNext(k) <=> argv[k] \in {<<"-s">>, <<"-o">>}
      /\ k \in Inputs <=> \A o \in Options : argv[k] # <<o>>
      /\ IsOperand[k] = FALSE
  BY <1>1, NextArgument
<1>3. m \in 1..Len(argv) /\ m \in 0..Len(argv) /\ m - 1 = k /\ m > 1 /\ k + 1 = m /\ current' - 1 = m /\ k \in Nat
  BY <1>1, <1>2, LineTypes
<1>4. /\ argv[k] = <<"-s">> \/ argv[k] = <<"-o">>
      /\ Sym <=> argv[k] = <<"-s">>
      /\ Output <=> argv[k] = <<"-o">>
  BY DEF TwoArguments, Sym, Output, At
<1>5. TakesNext(k) /\ k \notin Inputs
  BY <1>2, <1>4 DEF Options
<1>6. IsOperand[m]
  BY <1>3, <1>5, OperandIs
<1>7. /\ ~TakesNext(m) /\ m \notin Inputs /\ ~SavesTemps(k) /\ ~SavesTemps(m)
      /\ m \in OperandsOf("-s") <=> argv[k] = <<"-s">>
      /\ m \in OperandsOf("-o") <=> argv[k] = <<"-o">>
  BY <1>3, <1>4, <1>6 DEF TakesNext, Inputs, SavesTemps, OperandsOf
<1> DEFINE Syms == ArgumentsAt(argv, OperandsOf("-s"))
<1>8. Syms[m] = IF m \in OperandsOf("-s") THEN Append(Syms[n], argv[m]) ELSE Syms[n]
  BY <1>2, <1>3, LineTypes, ArgumentsAtDef
<1>9. /\ OperandsOf("-s") \subseteq Nat /\ OperandsOf("-o") \subseteq Nat /\ Inputs \subseteq Nat
  BY LineTypes DEF OperandsOf, Inputs
<1>10. /\ OperandsOf("-s") \cap (1..k) = OperandsOf("-s") \cap (1..n)
       /\ OperandsOf("-o") \cap (1..k) = OperandsOf("-o") \cap (1..n)
       /\ Inputs \cap (1..k) = Inputs \cap (1..n)
  BY <1>2, <1>5, <1>9, OneMore
<1>11. /\ m \notin OperandsOf("-s") => OperandsOf("-s") \cap (1..m) = OperandsOf("-s") \cap (1..k)
       /\ m \in OperandsOf("-s") => OperandsOf("-s") \cap (1..m) # {}
       /\ m \notin OperandsOf("-o") => OperandsOf("-o") \cap (1..m) = OperandsOf("-o") \cap (1..k)
       /\ m \in OperandsOf("-o") => LastOf(OperandsOf("-o") \cap (1..m)) = argv[m]
       /\ Inputs \cap (1..m) = Inputs \cap (1..k)
  BY <1>3, <1>7, <1>9, OneMore
<1>12. (\E i \in 1..m : SavesTemps(i)) <=> (\E i \in 1..n : SavesTemps(i))
  BY <1>2, <1>3, <1>7
<1>13. args \in [inputFile: Seq(Parts), outputFile: Seq(Parts), outputSyms: Seq(Seq(Parts)),
                 saveTemps: BOOLEAN, emitVersion: BOOLEAN]
  BY DEF TypeOK
<1>14. /\ args'.outputSyms = IF m \in OperandsOf("-s") THEN Append(args.outputSyms, argv[m]) ELSE args.outputSyms
       /\ args'.outputFile = IF m \in OperandsOf("-o") THEN argv[m] ELSE args.outputFile
       /\ args'.inputFile = args.inputFile /\ args'.saveTemps = args.saveTemps
  <2>1. CASE Sym
    <3> DEFINE syms == Append(args.outputSyms, argv[m])
    <3>1. args' = [args EXCEPT !.outputSyms = syms]
      BY <2>1 DEF Sym
    <3> HIDE DEF syms
    <3>2. /\ args'.outputSyms = syms /\ args'.outputFile = args.outputFile
          /\ args'.inputFile = args.inputFile /\ args'.saveTemps = args.saveTemps
      BY <1>13, <3>1
    <3>3. m \in OperandsOf("-s") /\ m \notin OperandsOf("-o")
      BY <1>4, <1>7, <2>1
    <3> QED
      BY <3>2, <3>3 DEF syms
  <2>2. CASE Output
    <3>1. args' = [args EXCEPT !.outputFile = argv[m]]
      BY <2>2 DEF Output
    <3>2. m \notin OperandsOf("-s") /\ m \in OperandsOf("-o")
      BY <1>4, <1>7, <2>2
    <3> QED
      BY <1>13, <3>1, <3>2
  <2> QED
    BY <2>1, <2>2 DEF TwoArguments
<1>15. Append(args.outputSyms, argv[m]) # << >>
  <2> DEFINE syms == Append(args.outputSyms, argv[m])
  <2>1. args.outputSyms \in Seq(Seq(Parts)) /\ argv[m] \in Seq(Parts)
    BY <1>3, <1>13, LineTypes
  <2>2. Len(syms) = Len(args.outputSyms) + 1 /\ Len(args.outputSyms) \in Nat
    BY <2>1, AppendProperties
  <2>3. Len(<< >>) = 0
    OBVIOUS
  <2> HIDE DEF syms
  <2>4. syms # << >>
    BY <2>2, <2>3
  <2> QED
    BY <2>4 DEF syms
<1>16. /\ args'.outputSyms = Syms[m]
       /\ args'.outputSyms = << >> <=> OperandsOf("-s") \cap (1..m) = {}
       /\ args'.inputFile = LastOf(Inputs \cap (1..m))
       /\ args'.outputFile = LastOf(OperandsOf("-o") \cap (1..m))
       /\ args'.saveTemps <=> \E i \in 1..m : SavesTemps(i)
  <2> HIDE DEF Syms, k, m, n
  <2>1. args.outputSyms = Syms[n]
    BY DEF Read, Syms, n
  <2>2. /\ args.outputSyms = << >> <=> OperandsOf("-s") \cap (1..n) = {}
        /\ args.inputFile = LastOf(Inputs \cap (1..n))
        /\ args.outputFile = LastOf(OperandsOf("-o") \cap (1..n))
        /\ args.saveTemps <=> \E i \in 1..n : SavesTemps(i)
    BY DEF Read, n
  <2> QED
    BY <1>8, <1>10, <1>11, <1>12, <1>14, <1>15, <2>1, <2>2
<1> HIDE DEF k, m, n
<1> QED
  BY <1>1, <1>3, <1>7, <1>16, ReadLater DEF Syms
\* The whole line is read: nothing is left out of what is said of it.
LEMMA AllRead ==
  ASSUME TypeOK, pc = "parsing", Read(current - 1), current > Len(argv)
  PROVE  /\ ~LacksOperand
         /\ args.outputSyms = ArgumentsAt(argv, OperandsOf("-s"))[Len(argv)]
         /\ args.inputFile = LastOf(Inputs) /\ args.outputFile = LastOf(OperandsOf("-o"))
         /\ Incomplete <=> Lacking
<1>1. current - 1 = Len(argv) /\ Len(argv) \in Nat /\ argv \in Seq(Seq(Parts))
  BY LineTypes
<1>2. /\ OperandsOf("-s") \cap (1..Len(argv)) = OperandsOf("-s")
      /\ OperandsOf("-o") \cap (1..Len(argv)) = OperandsOf("-o")
      /\ Inputs \cap (1..Len(argv)) = Inputs
  BY <1>1 DEF OperandsOf, Inputs
<1>3. Read(Len(argv))
  BY <1>1
<1>4. ~LacksOperand
  <2>1. argv # << >> => Len(argv) > 0
    BY <1>1
  <2> QED
    BY <1>3, <2>1 DEF Read, LacksOperand, TakesNext
<1>5. /\ args.outputSyms = ArgumentsAt(argv, OperandsOf("-s"))[Len(argv)]
      /\ args.outputSyms = << >> <=> OperandsOf("-s") = {}
      /\ args.inputFile = LastOf(Inputs) /\ args.outputFile = LastOf(OperandsOf("-o"))
      /\ args.saveTemps <=> \E i \in 1..Len(argv) : SavesTemps(i)
  BY <1>2, <1>3 DEF Read
<1>6. Incomplete <=> Lacking
  BY <1>5 DEF Incomplete, Lacking, SavesTemps
<1> QED
  BY <1>4, <1>5, <1>6

\* An option at the end has no operand, and is not one.
LEMMA LastLacks ==
  ASSUME TypeOK, Read(current - 1), MissingOperand
  PROVE  LacksOperand
<1>1. pc = "parsing" /\ current = Len(argv) /\ argv[current] \in {<<"-s">>, <<"-o">>}
  BY DEF MissingOperand, At
<1>2. current \in 1..Len(argv) /\ IsOperand[current] = FALSE
  <2>1. current <= Len(argv)
    BY <1>1, LineTypes
  <2> QED
    BY <1>1, <2>1, NextArgument
<1>3. argv # << >>
  BY <1>2
<1> QED
  BY <1>1, <1>2, <1>3 DEF LacksOperand

LEMMA InvStep == TypeOK /\ Inv /\ [Next]_vars => Inv'
<1> SUFFICES ASSUME TypeOK, Inv, [Next]_vars PROVE Inv'
  OBVIOUS
<1>1. CASE OneArgument \/ TwoArguments
  <2>1. pc = "parsing" /\ pc' = "parsing"
    BY <1>1 DEF OneArgument, TwoArguments, SaveTemps, NoVersion, Input, Sym, Output, At
  <2>2. Read(current - 1)'
    BY <1>1, <2>1, ReadOne, ReadTwo DEF Inv
  <2> QED
    BY <2>1, <2>2 DEF Inv, UnderstoodRight, Ended
<1>2. CASE MissingOperand
  <2>1. pc = "parsing" /\ pc' = "segv" /\ argv' = argv
    BY <1>2 DEF MissingOperand, At
  <2>2. LacksOperand'
    BY <1>2, <2>1, LastLacks, LineStays DEF Inv
  <2> QED
    BY <2>1, <2>2 DEF Inv, UnderstoodRight
<1>3. CASE Refuse
  <2>1. pc = "parsing" /\ pc' = "exit" /\ argv' = argv /\ current > Len(argv) /\ Incomplete
    BY <1>3 DEF Refuse
  <2>2. ~LacksOperand' /\ Lacking'
    BY <2>1, AllRead, LineStays DEF Inv
  <2> QED
    BY <2>1, <2>2 DEF Inv, UnderstoodRight
<1>4. CASE Accept
  <2> DEFINE file == IF args.outputFile = << >> THEN DefaultOutput(args.inputFile) ELSE args.outputFile
  <2>1. pc = "parsing" /\ pc' = "accepted" /\ argv' = argv /\ current > Len(argv) /\ ~Incomplete
    BY <1>4 DEF Accept
  <2>2. args' = [args EXCEPT !.outputFile = file]
    BY <1>4 DEF Accept
  <2>3. /\ ~LacksOperand /\ ~Lacking
        /\ args.outputSyms = ArgumentsAt(argv, OperandsOf("-s"))[Len(argv)]
        /\ args.inputFile = LastOf(Inputs) /\ args.outputFile = LastOf(OperandsOf("-o"))
    BY <2>1, AllRead DEF Inv
  <2>4. OutputIs(file) /\ (LastOf(OperandsOf("-o")) # << >> => file = LastOf(OperandsOf("-o")))
    BY <2>3 DEF OutputIs, NoOutputGiven
  <2> HIDE DEF file
  <2>5. /\ args'.outputFile = file /\ args'.inputFile = args.inputFile /\ args'.outputSyms = args.outputSyms
    BY <2>2 DEF TypeOK
  <2>6. ~LacksOperand' /\ ~Lacking'
    BY <2>1, <2>3, LineStays
  <2>7. /\ LastOf(Inputs)' = LastOf(Inputs) /\ LastOf(OperandsOf("-o"))' = LastOf(OperandsOf("-o"))
        /\ ArgumentsAt(argv, OperandsOf("-s"))'[Len(argv')] = ArgumentsAt(argv, OperandsOf("-s"))[Len(argv)]
    BY <2>1, ReadStays
  <2>8. UnderstoodRight'
    BY <2>1, <2>3, <2>4, <2>5, <2>6, <2>7 DEF UnderstoodRight
  <2>9. OutputIs(args.outputFile)'
    BY <2>1, <2>4, <2>5, <2>7, LineStays DEF OutputIs
  <2> QED
    BY <2>1, <2>8, <2>9 DEF Inv
<1>5. CASE Returned \/ UNCHANGED vars
  <2>1. UNCHANGED <<argv, current, args, pc>>
    BY <1>5 DEF Returned, vars
  <2>2. /\ LastOf(Inputs)' = LastOf(Inputs) /\ LastOf(OperandsOf("-o"))' = LastOf(OperandsOf("-o"))
        /\ ArgumentsAt(argv, OperandsOf("-s"))'[Len(argv')] = ArgumentsAt(argv, OperandsOf("-s"))[Len(argv)]
    BY <2>1, ReadStays
  <2>3. UnderstoodRight'
    BY <2>1, <2>2, LineStays DEF Inv, UnderstoodRight
  <2>4. pc' = "accepted" => OutputIs(args.outputFile)'
    BY <2>1, <2>2, LineStays DEF Inv, OutputIs
  <2>5. ASSUME pc = "parsing" PROVE Read(current - 1)'
    <3> DEFINE m == current - 1
    <3>1. Read(m) /\ m >= 0
      BY <2>5, LineTypes DEF Inv
    <3>2. Read(m)'
      BY <2>1, <3>1, LineStays DEF Read, LastOf
    <3> QED
      BY <3>2
  <2> QED
    BY <2>1, <2>3, <2>4, <2>5 DEF Inv
<1> QED
  BY <1>1, <1>2, <1>3, <1>4, <1>5 DEF Next, OneArgument, TwoArguments

\* Every argument of a line of any length is an option, the operand of the option
\* before it or an input; the symbols are in their order; and parseArgs gives up on
\* exactly the lines that lack something, or whose last option lacks its operand.
THEOREM AlwaysUnderstood == Spec => []UnderstoodRight
<1>1. Inv => UnderstoodRight
  BY DEF Inv
<1> QED
  BY TypeInit, TypeStep, InvInit, InvStep, <1>1, PTL DEF Spec
------------------------------------------------------------------------------
(* The name of the output *)

\* What the path is after a position, or up to one.
LEMMA PartOf ==
  ASSUME NEW path \in Seq(Parts), NEW from \in 1..(Len(path) + 1), NEW to \in (from - 1)..Len(path)
  PROVE  /\ SubSeq(path, from, to) \in Seq(Parts)
         /\ Len(SubSeq(path, from, to)) = to - from + 1
         /\ \A i \in 1..(to - from + 1) : SubSeq(path, from, to)[i] = path[from + i - 1]
<1>1. /\ from \in 1..(Len(path) + 1) /\ to \in (from - 1)..Len(path)
  OBVIOUS
<1>2. /\ Len(SubSeq(path, from, to)) = to - from + 1
      /\ \A i \in 1..(to - from + 1) : SubSeq(path, from, to)[i] = path[from + i - 1]
  BY <1>1
<1>3. \A i \in 1..(to - from + 1) : path[from + i - 1] \in Parts
  <2>1. ASSUME NEW i \in 1..(to - from + 1) PROVE from + i - 1 \in 1..Len(path)
    BY <1>1
  <2> QED
    BY <2>1
<1> QED
  BY <1>1, <1>2, <1>3, SubSeqProperties

\* The end of a name.
LEMMA WithSuffix ==
  ASSUME NEW s \in Seq(Parts)
  PROVE  /\ s \o <<".", "s">> \in Seq(Parts) /\ Len(s \o <<".", "s">>) = Len(s) + 2
         /\ \A i \in 1..Len(s) : (s \o <<".", "s">>)[i] = s[i]
         /\ (s \o <<".", "s">>)[Len(s) + 1] = "." /\ (s \o <<".", "s">>)[Len(s) + 2] = "s"
<1>1. <<".", "s">> \in Seq(Parts) /\ Len(<<".", "s">>) = 2
  BY PartsAssumption
<1>2. s \o <<".", "s">> \in Seq(Parts)
  BY <1>1, ConcatProperties
<1> QED
  BY <1>2

\* The extension of a path whose directory has no dot is that of its last component.
LEMMA PlainName ==
  ASSUME NEW path \in Seq(Parts), LastDot(SubSeq(path, 1, LastSlash(path))) = 0
  PROVE  BaseName(DefaultOutput(path)) = Stem(BaseName(path)) \o <<".", "s">>
<1> DEFINE l == LastSlash(path)
           d == LastDot(path)
           b == Before(path)
           m == Len(b)
           out == DefaultOutput(path)
           base == BaseName(path)
           stem == Stem(base)
<1>1. /\ Len(path) \in Nat /\ l \in 0..Len(path) /\ d \in 0..Len(path) /\ m \in 0..Len(path)
      /\ b \in Seq(Parts) /\ out \in Seq(Parts) /\ Len(out) = m + 2
      /\ m = IF d = 0 THEN Len(path) ELSE d - 1
  <2>1. Len(path) \in Nat /\ l \in 0..Len(path)
    BY LastSlashIs
  <2>2. d \in 0..Len(path)
    BY LastDotIs
  <2>3. /\ m \in 0..Len(path) /\ b \in Seq(Parts) /\ out \in Seq(Parts) /\ Len(out) = m + 2
        /\ m = IF d = 0 THEN Len(path) ELSE d - 1
    BY DefaultOutputIs
  <2> QED
    BY <2>1, <2>2, <2>3
<1>2. /\ \A i \in 1..m : out[i] = path[i]
      /\ out[m + 1] = "." /\ out[m + 2] = "s"
  <2>1. out = b \o <<".", "s">> /\ \A i \in 1..m : b[i] = path[i]
    BY DefaultOutputIs
  <2>2. b \in Seq(Parts)
    BY <1>1
  <2> HIDE DEF out, b
  <2> QED
    BY <2>1, <2>2, WithSuffix
<1> HIDE DEF m, b
<1>3. l <= m
  <2>1. CASE d = 0
    BY <1>1, <2>1
  <2>2. CASE d # 0
    <3> DEFINE prefix == SubSeq(path, 1, l)
    <3>1. path[d] = "." /\ (l # 0 => path[l] = "/")
      BY <2>2, LastDotIs, LastSlashIs
    <3>2. prefix \in Seq(Parts) /\ Len(prefix) = l /\ \A i \in 1..l : prefix[i] = path[i]
      <4> HIDE DEF l
      <4>1. 1 \in 1..(Len(path) + 1) /\ l \in (1 - 1)..Len(path) /\ l - 1 + 1 = l /\ \A i \in 1..l : 1 + i - 1 = i
        BY <1>1
      <4> QED
        BY <4>1, PartOf
    <3>3. \A i \in 1..l : prefix[i] # "."
      <4>1. LastDot(prefix) = 0
        OBVIOUS
      <4>2. \A i \in 1..Len(prefix) : prefix[i] = "." => i <= 0
        BY <3>2, <4>1, LastDotIs
      <4> HIDE DEF prefix, l
      <4> QED
        BY <1>1, <3>2, <4>2
    <3> HIDE DEF prefix, l, d
    <3>4. ~(d \in 1..l)
      BY <3>1, <3>2, <3>3
    <3> QED
      BY <1>1, <2>2, <3>1, <3>4
  <2> QED
    BY <2>1, <2>2
<1>4. LastSlash(out) = l
  <2> DEFINE k == LastSlash(out)
  <2>1. /\ k \in 0..Len(out) /\ (k # 0 => out[k] = "/")
        /\ \A i \in 1..Len(out) : out[i] = "/" => i <= k
    BY <1>1, LastSlashIs
  <2>2. /\ l # 0 => path[l] = "/"
        /\ \A i \in 1..Len(path) : path[i] = "/" => i <= l
    BY LastSlashIs
  <2> HIDE DEF k, l, out
  <2>3. l <= k
    <3>1. CASE l = 0
      BY <1>1, <2>1, <3>1
    <3>2. CASE l # 0
      <4>1. l \in 1..m /\ l \in 1..Len(out)
        BY <1>1, <1>3, <3>2
      <4> QED
        BY <1>2, <2>1, <2>2, <3>2, <4>1
    <3> QED
      BY <3>1, <3>2
  <2>4. k <= l
    <3>1. CASE k = 0
      BY <1>1, <3>1
    <3>2. CASE k # 0
      <4>1. k # m + 1 /\ k # m + 2
        BY <1>2, <2>1, <3>2
      <4>2. k \in 1..m /\ k \in 1..Len(path)
        <5>1. k \in 0..(m + 2) /\ m \in 0..Len(path) /\ Len(path) \in Nat
          BY <1>1, <2>1
        <5> QED
          BY <3>2, <4>1, <5>1
      <4> QED
        BY <1>2, <2>1, <2>2, <3>2, <4>2
    <3> QED
      BY <3>1, <3>2
  <2>5. k = l
    BY <1>1, <2>1, <2>3, <2>4
  <2> QED
    BY <2>5 DEF k
<1>5. /\ BaseName(out) \in Seq(Parts) /\ Len(BaseName(out)) = m + 2 - l
      /\ \A i \in 1..(m + 2 - l) : BaseName(out)[i] = out[l + i]
  <2>1. BaseName(out) = SubSeq(out, l + 1, m + 2)
    BY <1>1, <1>4 DEF BaseName
  <2> HIDE DEF out, l
  <2>2. /\ l + 1 \in 1..(Len(out) + 1) /\ m + 2 \in (l + 1 - 1)..Len(out) /\ m + 2 - (l + 1) + 1 = m + 2 - l
        /\ \A i \in 1..(m + 2 - l) : l + 1 + i - 1 = l + i
    BY <1>1, <1>3, SMTT(30)
  <2> QED
    <3> DEFINE from == l + 1
               to == m + 2
    <3>1. out \in Seq(Parts) /\ from \in 1..(Len(out) + 1) /\ to \in (from - 1)..Len(out)
      BY <1>1, <2>2
    <3>2. to - from + 1 = m + 2 - l /\ \A i \in 1..(m + 2 - l) : from + i - 1 = l + i
      <4>1. m \in Int /\ l \in Int
        BY <1>1
      <4> QED
        BY <4>1
    <3> HIDE DEF from, to
    <3>3. /\ SubSeq(out, from, to) \in Seq(Parts)
          /\ Len(SubSeq(out, from, to)) = to - from + 1
          /\ \A i \in 1..(to - from + 1) : SubSeq(out, from, to)[i] = out[from + i - 1]
      BY <3>1, PartOf
    <3> QED
      BY <2>1, <3>2, <3>3 DEF from, to
<1>6. /\ base \in Seq(Parts) /\ Len(base) = Len(path) - l
      /\ \A i \in 1..(Len(path) - l) : base[i] = path[l + i]
  <2>1. base = SubSeq(path, l + 1, Len(path))
    BY DEF BaseName
  <2> HIDE DEF base, l
  <2>2. /\ l + 1 \in 1..(Len(path) + 1) /\ Len(path) \in (l + 1 - 1)..Len(path) /\ Len(path) - (l + 1) + 1 = Len(path) - l
        /\ \A i \in 1..(Len(path) - l) : l + 1 + i - 1 = l + i
    BY <1>1
  <2> QED
    BY <2>1, <2>2, PartOf
<1>7. LastDot(base) = IF d = 0 THEN 0 ELSE d - l
  <2> DEFINE k == LastDot(base)
  <2>1. /\ k \in 0..Len(base) /\ (k # 0 => base[k] = ".")
        /\ \A i \in 1..Len(base) : base[i] = "." => i <= k
    <3> HIDE DEF base
    <3> QED
      BY <1>6, LastDotIs
  <2>2. /\ d # 0 => path[d] = "."
        /\ \A i \in 1..Len(path) : path[i] = "." => i <= d
    BY LastDotIs
  <2> HIDE DEF k, l, d, base
  <2>3. k # 0 => l + k <= d
    <3> SUFFICES ASSUME k # 0 PROVE l + k <= d
      OBVIOUS
    <3>1. k \in 1..(Len(path) - l) /\ l + k \in 1..Len(path)
      BY <1>1, <1>6, <2>1
    <3>2. path[l + k] = "."
      BY <1>6, <2>1, <3>1
    <3> QED
      BY <2>2, <3>1, <3>2
  <2>4. d # 0 => d - l <= k /\ k # 0
    <3> SUFFICES ASSUME d # 0 PROVE d - l <= k /\ k # 0
      OBVIOUS
    <3>1. d - l \in 1..(Len(path) - l) /\ l + (d - l) = d
      BY <1>1, <1>3
    <3>2. base[d - l] = "."
      BY <1>6, <2>2, <3>1
    <3>3. d - l <= k
      BY <1>6, <2>1, <3>1, <3>2
    <3> QED
      BY <1>1, <1>6, <2>1, <3>1, <3>3
  <2>5. k \in Int /\ l \in Int /\ d \in Int /\ k >= 0
    BY <1>1, <1>6, <2>1
  <2>6. k = IF d = 0 THEN 0 ELSE d - l
    BY <1>1, <2>3, <2>4, <2>5
  <2> QED
    BY <2>6 DEF k
<1>8. /\ stem \in Seq(Parts) /\ Len(stem) = m - l
      /\ \A i \in 1..(m - l) : stem[i] = path[l + i]
  <2>1. CASE d = 0
    <3>1. stem = base /\ m = Len(path)
      BY <1>1, <1>7, <2>1 DEF Stem
    <3> QED
      BY <1>6, <3>1
  <2>2. CASE d # 0
    <3>1. stem = SubSeq(base, 1, d - l - 1)
      <4>1. LastDot(base) = d - l /\ d - l # 0
        BY <1>1, <1>3, <1>7, <2>2
      <4> QED
        BY <4>1 DEF Stem
    <3> HIDE DEF stem, base, d, l
    <3>2. /\ 1 \in 1..(Len(base) + 1) /\ d - l - 1 \in (1 - 1)..Len(base) /\ d - l - 1 - 1 + 1 = m - l
          /\ \A i \in 1..(m - l) : 1 + i - 1 = i
          /\ 1..(m - l) \subseteq 1..(Len(path) - l)
      BY <1>1, <1>3, <1>6, <2>2
    <3>3. /\ stem \in Seq(Parts) /\ Len(stem) = m - l
          /\ \A i \in 1..(m - l) : stem[i] = base[i]
      BY <1>6, <3>1, <3>2, PartOf
    <3> QED
      BY <1>6, <3>2, <3>3
  <2> QED
    BY <2>1, <2>2
<1> DEFINE name == BaseName(out)
           whole == stem \o <<".", "s">>
<1> HIDE DEF name, stem, out, base, d, l
<1>9. /\ whole \in Seq(Parts) /\ Len(whole) = m + 2 - l
      /\ \A i \in 1..(m - l) : whole[i] = stem[i]
      /\ whole[m - l + 1] = "." /\ whole[m - l + 2] = "s"
  <2>1. stem \in Seq(Parts) /\ Len(stem) = m - l
    BY <1>8
  <2>2. m \in Int /\ l \in Int
    BY <1>1
  <2>3. m - l + 2 = m + 2 - l
    BY <2>2
  <2> QED
    BY <2>1, <2>3, WithSuffix
<1>10. \A i \in 1..(m + 2 - l) : name[i] = whole[i]
  <2> SUFFICES ASSUME NEW i \in 1..(m + 2 - l) PROVE name[i] = whole[i]
    OBVIOUS
  <2>1. name[i] = out[l + i]
    BY <1>5 DEF name
  <2>2. CASE i \in 1..(m - l)
    <3>1. l + i \in 1..m
      BY <1>1, <2>2
    <3> QED
      BY <1>2, <1>8, <1>9, <2>1, <2>2, <3>1
  <2>3. CASE i = m - l + 1
    <3>1. l + i = m + 1
      BY <1>1, <2>3
    <3> QED
      BY <1>2, <1>9, <2>1, <2>3, <3>1
  <2>4. CASE i = m - l + 2
    <3>1. l + i = m + 2
      BY <1>1, <2>4
    <3> QED
      BY <1>2, <1>9, <2>1, <2>4, <3>1
  <2>5. i \in 1..(m - l) \/ i = m - l + 1 \/ i = m - l + 2
    BY <1>1, <1>3
  <2> QED
    BY <2>2, <2>3, <2>4, <2>5
<1>11. name = whole
  <2>1. name \in Seq(Parts) /\ Len(name) = m + 2 - l
    BY <1>5 DEF name
  <2> HIDE DEF whole
  <2> QED
    BY <1>9, <1>10, <2>1, SeqEqual
<1> QED
  BY <1>11 DEF name, stem, out, base

\* Whatever the input is called: without -o, and without a dot in the directory, the
\* output has the name of the input with its extension replaced.
THEOREM AlwaysNamedAfterPlainInput == Spec => []NamedAfterPlainInput
<1>1. TypeOK /\ Inv => NamedAfterPlainInput
  <2> SUFFICES ASSUME TypeOK, Inv, pc = "accepted", NoOutputGiven,
                      LastDot(SubSeq(args.inputFile, 1, LastSlash(args.inputFile))) = 0
               PROVE  BaseName(args.outputFile) = Stem(BaseName(args.inputFile)) \o <<".", "s">>
    BY DEF NamedAfterPlainInput, NamedAfterInput
  <2>1. args.inputFile \in Seq(Parts)
    BY DEF TypeOK
  <2>2. args.outputFile = DefaultOutput(args.inputFile)
    BY DEF Inv, UnderstoodRight, OutputIs, Ended
  <2> QED
    BY <2>1, <2>2, PlainName
<1> QED
  BY TypeInit, TypeStep, InvInit, InvStep, <1>1, PTL DEF Spec
==============================================================================
